CONSTANTS
  t1 = t1
  t2 = t2
  x1 = x1
  x2 = x2
  Adapters <- MCPostgres
  Connect <- MCConnect
  Evict <- MCEvict
  Tasks <- MCTasks
  MaxPools = 2
  Ports <- MCOnePort
  Kind <- MCBare
  RepoFirst <- MCRepoFirst
  Swallows <- MCSwallows
  MaxInits = 1
SPECIFICATION LifecycleSpec
INVARIANT PluginShutdownClosesPool
CHECK_DEADLOCK FALSE

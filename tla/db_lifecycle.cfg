CONSTANTS
  t1 = t1
  t2 = t2
  x1 = x1
  x2 = x2
  Adapters <- MCAdapters
  Connect <- MCConnect
  Evict <- MCEvict
  Tasks <- MCTasks
  MaxPools = 2
  Ports <- MCPorts
  Kind <- MCKind
  RepoFirst <- MCRepoFirst
  Swallows <- MCSwallows
  MaxInits = 1
SPECIFICATION FairLifecycle
INVARIANTS PortsOK OrderlyStopFreesPools
PROPERTIES ShutdownSettles
CHECK_DEADLOCK FALSE

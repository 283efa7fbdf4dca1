CONSTANTS
  t1 = t1
  t2 = t2
  t3 = t3
  Adapters <- MCAdapters
  Connect <- MCConnect
  Evict <- MCEvict
  Tasks <- MCTasks
  Askings <- MCAskings
  MaxPools = 3
SPECIFICATION SettingsSpec
INVARIANTS TypeOK NeverServesDeadPool ClosedByOne OpenPoolIsCached ServedAsConfigured
PROPERTIES DeadPoolIsDropped
CHECK_DEADLOCK FALSE

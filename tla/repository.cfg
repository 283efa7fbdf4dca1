CONSTANTS
  k1 = k1
  k2 = k2
  v1 = v1
  v2 = v2
  c1 = c1
  c2 = c2
  c3 = c3
  r1 = r1
  r2 = r2
  Absent = Absent
  Adapters <- MCAdapters
  Programs <- MCPrograms
  Prepare <- MCPrepare
  Expiring <- MCExpiring
  Nearest = 1
  Keys <- MCKeys
  Values <- MCValues
  Calls <- MCCalls
  Repos <- MCRepos
  RepoOf <- MCRepoOf
  Requests <- MCRequests
  Impatient <- MCImpatient
  InitialTables <- MCTables
SPECIFICATION Spec
INVARIANTS TypeOK LostBeforeReadBack EnsuredIsMade
PROPERTY ImplementsEntityStore
CHECK_DEADLOCK FALSE

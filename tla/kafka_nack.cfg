CONSTANTS
  LogEnd = 3
  Poison <- MCPoison
  MayFail <- MCMayFail
  MaxSessions = 2
  c1 = c1
  c2 = c2
  Closers <- MCClosers
  DriverErrors = TRUE
  CrashAllowed = TRUE
SPECIFICATION Spec
INVARIANT FailedStaysUncommitted

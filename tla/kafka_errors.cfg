CONSTANTS
  LogEnd = 3
  Poison <- MCPoison
  MayFail <- MCMayFail
  MaxSessions = 1
  c1 = c1
  c2 = c2
  Closers <- MCClosers
  DriverErrors = FALSE
  CrashAllowed = TRUE
SPECIFICATION Spec
INVARIANT OnlyAdapterErrors

CONSTANTS
  LogEnd = 3
  Poison <- MCNone
  MayFail <- MCNone
  MaxSessions = 2
  c1 = c1
  c2 = c2
  Closers <- MCClosers
  DriverErrors = FALSE
  CrashAllowed = FALSE
SPECIFICATION Spec
INVARIANT NoClientLeftRunning

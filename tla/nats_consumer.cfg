CONSTANTS
  m1 = m1
  m2 = m2
  c1 = c1
  c2 = c2
  None = None
  Messages <- MCMessages
  MayFail <- MCMayFail
  MaxDeliver = 2
  MaxSessions = 2
  Closers <- MCClosers
SPECIFICATION FairSpec
INVARIANTS TypeOK EndedSessionIsClosed
PROPERTIES ImplementsAtLeastOnce StopRequestHonoured

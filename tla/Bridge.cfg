\* Two CreateSession calls over two ids: distinct ids, or one id twice; a leg
\* fails or disconnects once, while sessions are removed and the bridge shut down.
SPECIFICATION FairSpec
CONSTANTS
  SessionIds = {i1, i2}
  Sessions = {s1, s2}
  NoSession = NoSession
  NoId = NoId
  MaxEvents = 1
INVARIANTS
  RegisteredLive
  RemovedOnce
  LeakOnlyByFailureOrCollision
  OwnClosureSilent
  ShutdownRemovesNotified
PROPERTIES
  ImplementsRegistry
  ShutdownTerminates
  RemovedQuiesces
\* The pool of sessions is finite: the bridge may come to rest.
CHECK_DEADLOCK FALSE

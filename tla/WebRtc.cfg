\* Two clients; one offer each, or two of one of them.
SPECIFICATION WsFairSpec
CONSTANTS
  SessionIds = {i1, i2}
  Sessions = {s1, s2}
  Sockets = {w1, w2}
  NoSession = NoSession
  NoSocket = NoSocket
  NoId = NoId
  MaxOffers = 2
INVARIANTS
  ClosedHasNoSession
  EntryLeftOnlyByFailure
  PeerLeakOnlyByRenegotiation
  ShutdownLeavesOnlyUnderway
PROPERTY DisconnectReleases
\* The pools of sockets and sessions are finite: the service may come to rest.
CHECK_DEADLOCK FALSE

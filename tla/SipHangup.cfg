\* One call whose ACK is retransmitted; BYE, CANCEL and Stop may all come.
SPECIFICATION SipFairSpec
CONSTANTS
  SessionIds = {i1}
  Sessions = {s1, s2}
  Endpoints = {e1}
  NoSession = NoSession
  NoEndpoint = NoEndpoint
  NoId = NoId
INVARIANTS
  FoundRemovedFirst
PROPERTIES
  HangupReleases
  StopTerminates
\* The pools of endpoints and sessions are finite: the server may come to rest.
CHECK_DEADLOCK FALSE

\* A BYE while the ACK handler is in CreateSession.
SPECIFICATION SipSpec
CONSTANTS
  SessionIds = {i1}
  Sessions = {s1}
  Endpoints = {e1}
  NoSession = NoSession
  NoEndpoint = NoEndpoint
  NoId = NoId
INVARIANT ClosedHasNoSession
\* The pools of endpoints and sessions are finite: the server may come to rest.
CHECK_DEADLOCK FALSE

\* Two INVITEs of the same Call-ID or of two, while Stop walks the map.
SPECIFICATION SipSpec
CONSTANTS
  SessionIds = {i1, i2}
  Sessions = {s1}
  Endpoints = {e1, e2}
  NoSession = NoSession
  NoEndpoint = NoEndpoint
  NoId = NoId
SYMMETRY Symmetry
INVARIANTS
  OneCloserCloses
  StopClosesUnlessReplaced
\* The pools of endpoints and sessions are finite: the server may come to rest.
CHECK_DEADLOCK FALSE

\* A session's frames, the reader's dummies and one punching goroutine; the
\* sequence numbers and the time stamps both wrap and pass half a turn.
SPECIFICATION RtpSpec
CONSTANTS
  Outputs = {o1}
  Reader = Reader
  Punchers = {p1}
  Addrs = {a1, a2}
  NoAddr = NoAddr
  MaxAttempts = 2
  MaxDummies = 2
  SeqModulus = 4
  SeqBase = 6
  TsModulus = 12
  TsStep = 3
  TsBase = 28
  MaxPackets = 3
SYMMETRY Symmetry
INVARIANTS
  WireConsistent
  TimestampLag
  StaleAddressOnce
  LastWords
\* The number of packets is bounded.
CHECK_DEADLOCK FALSE

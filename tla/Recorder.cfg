\* Two packets, of one source or one of each, one failure of the OpenAI leg, a
\* removal and a shutdown; the caller's packets are received into one buffer, as
\* by the SIP reader, the assistant's are not.
SPECIFICATION FairSpec
CONSTANTS
  MaxPackets = 2
  MaxNotices = 1
  ReusedBuffers <- MCReusedBuffers
  NoRecording = NoRecording
INVARIANTS
  StatsExact
  FinalizedOnce
PROPERTIES
  ImplementsJournal
  HandedIsSaved
\* The process ends, and so does the bounded input.
CHECK_DEADLOCK FALSE

\* Packets under way when the store closes.
SPECIFICATION Spec
CONSTANTS
  MaxPackets = 2
  MaxNotices = 1
  ReusedBuffers <- MCReusedBuffers
  NoRecording = NoRecording
INVARIANT GracefulShutdown
\* The process ends, and so does the bounded input.
CHECK_DEADLOCK FALSE

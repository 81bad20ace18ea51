\* A reader that receives into one buffer.
SPECIFICATION Spec
CONSTANTS
  MaxPackets = 2
  MaxNotices = 1
  ReusedBuffers <- MCReusedBuffers
  NoRecording = NoRecording
INVARIANT RecordedAsReceived
\* The process ends, and so does the bounded input.
CHECK_DEADLOCK FALSE

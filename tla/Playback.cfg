\* Four frames through a buffer of two, up to two events of the data channel.
SPECIFICATION FairSpec
CONSTANTS
  BufferCap = 2
  MaxFrames = 4
  MaxControl = 2
  NoFrame = NoFrame
  NoItem = NoItem
INVARIANTS
  Accounted
  SkippedOnlyAfterDone
PROPERTIES
  ImplementsFifo
  FramesLeave
  RemovalEndsOutput
\* The numbers of frames and events are bounded: the session may come to rest.
CHECK_DEADLOCK FALSE

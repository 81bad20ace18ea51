\* configure, the loop that delivers events, one reader of the caller's audio.
SPECIFICATION OpenAIFairSpec
CONSTANTS
  Opener = Opener
  Handlers = {h1}
  Uplinks = {u1}
  NoSender = NoSender
INVARIANTS
  CrashOnlyByHolder
  ConfiguredFirst
  QuietAfterClose
PROPERTY ReaderEnds
\* Connect may fail, the process may crash, and after Close nothing is left.
CHECK_DEADLOCK FALSE

CONSTANTS
  BufSize = 3
  Streams <- EveryStream
SPECIFICATION Spec
INVARIANT DocumentParsed
CHECK_DEADLOCK FALSE

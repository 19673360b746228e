CONSTANTS
  BufSize = 3
  Streams <- LongLines
SPECIFICATION Spec

PROPERTY FeedsLines
CHECK_DEADLOCK FALSE

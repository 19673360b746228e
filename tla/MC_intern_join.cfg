CONSTANTS
  BufSize = 3
  Streams <- FittingLines
SPECIFICATION Spec
INVARIANT DocumentParsed
CHECK_DEADLOCK FALSE

CONSTANTS
  BufSize = 3
  Streams <- FittingLines
SPECIFICATION Spec
PROPERTY FeedsLines
CHECK_DEADLOCK FALSE

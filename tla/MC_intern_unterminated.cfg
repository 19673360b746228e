CONSTANTS
  BufSize = 3
  Streams <- UnterminatedLines
SPECIFICATION Spec

PROPERTY FeedsLines
CHECK_DEADLOCK FALSE

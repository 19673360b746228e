CONSTANTS
  MaxRequests = 1
  NVars = 1
  Ops <- OnlySendData
  Timeouts = {FALSE, TRUE}
  Datasets = {"ds"}
SPECIFICATION Spec
INVARIANT SentWithinLimit
CHECK_DEADLOCK FALSE

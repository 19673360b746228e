CONSTANTS
  MaxRequests = 2
  NVars = 2
  Ops <- AllButSendData
  Timeouts = {FALSE, TRUE}
  Datasets = {"ds"}
SPECIFICATION Spec
INVARIANT RejectBeforeOutput
INVARIANT FunctionDdsFreed
CHECK_DEADLOCK FALSE

CONSTANTS
  MaxRequests = 1
  NVars = 1
  Ops <- OnlySendDataDdx
  Timeouts = {FALSE}
  Datasets = {"ds"}
SPECIFICATION Spec
INVARIANT ThrowReleasesResponse
CHECK_DEADLOCK FALSE

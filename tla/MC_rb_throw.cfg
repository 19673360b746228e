CONSTANTS
  MaxRequests = 1
  NVars = 1
  Ops <- DataResponses
  Timeouts = {FALSE}
  Datasets = {"ds"}
SPECIFICATION Spec
INVARIANT ThrowReleasesResponse
CHECK_DEADLOCK FALSE

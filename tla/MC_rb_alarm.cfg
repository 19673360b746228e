CONSTANTS
  MaxRequests = 2
  NVars = 1
  Ops <- DataThenMetadata
  Timeouts = {FALSE, TRUE}
  Datasets = {"ds"}
SPECIFICATION Spec
INVARIANT AlarmHitsOwnRequest
CHECK_DEADLOCK FALSE

CONSTANTS
  Absent = Absent
  None = None
  MaxElems = 3
  MaxOther = 0
  Inputs <- DimensionChildInputs
  DapInOtherXml = FALSE
  MaxInterns = 1
  ReuseAfter = {}
  LeafTags = {}
SPECIFICATION Spec
INVARIANT NoSilentError

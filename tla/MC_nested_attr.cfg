CONSTANTS
  Absent = Absent
  None = None
  MaxElems = 4
  MaxOther = 0
  Inputs <- NestedAttributeInputs
  DapInOtherXml = TRUE
  MaxInterns = 1
  ReuseAfter = {}
  LeafTags = {"Dimension"}
SPECIFICATION Spec
INVARIANT AttrValuesInPlace

CONSTANTS
  Absent = Absent
  None = None
  MaxElems = 4
  MaxOther = 0
  Inputs <- GroupAttributeInputs
  DapInOtherXml = FALSE
  MaxInterns = 1
  ReuseAfter = {}
  LeafTags = {"Dimension"}
SPECIFICATION Spec
INVARIANT AttrValuesInPlace

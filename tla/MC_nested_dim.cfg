CONSTANTS
  Absent = Absent
  None = None
  MaxElems = 3
  MaxOther = 0
  Inputs <- NestedDimensionInputs
  DapInOtherXml = TRUE
  MaxInterns = 1
  ReuseAfter = {}
  LeafTags = {"Dimension"}
SPECIFICATION Spec
INVARIANT DimensionsMirrorDocument

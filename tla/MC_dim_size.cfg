CONSTANTS
  Absent = Absent
  None = None
  MaxElems = 3
  MaxOther = 0
  Inputs <- DimensionSizeInputs
  DapInOtherXml = FALSE
  MaxInterns = 1
  ReuseAfter = {}
  LeafTags = {"Dimension"}
SPECIFICATION Spec
INVARIANT DimensionsMirrorDocument

CONSTANTS
  Absent = Absent
  None = None
  MaxElems = 1
  MaxOther = 0
  Inputs <- DefinitionInputs
  DapInOtherXml = FALSE
  MaxInterns = 1
  ReuseAfter = {}
  LeafTags = {}
SPECIFICATION Spec
INVARIANT SuccessMeansDataset

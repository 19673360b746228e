CONSTANTS
  Absent = Absent
  None = None
  MaxElems = 4
  MaxOther = 1
  Inputs <- DefinitionInputs
  DapInOtherXml = FALSE
  MaxInterns = 1
  ReuseAfter = {}
  LeafTags = {"Dimension"}
SPECIFICATION Spec
INVARIANT EnumsMirrorDocument

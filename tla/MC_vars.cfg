CONSTANTS
  Absent = Absent
  None = None
  MaxElems = 4
  MaxOther = 1
  Inputs <- VariableInputs
  DapInOtherXml = FALSE
  MaxInterns = 1
  ReuseAfter = {}
  LeafTags = {"Dimension"}
SPECIFICATION Spec
INVARIANT TypeOK
INVARIANT NoSilentError
INVARIANT TreeMirrorsDocument

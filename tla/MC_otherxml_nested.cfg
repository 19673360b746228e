CONSTANTS
  Absent = Absent
  None = None
  MaxElems = 4
  MaxOther = 0
  Inputs <- NestedOtherXmlInputs
  DapInOtherXml = TRUE
  MaxInterns = 1
  ReuseAfter = {}
  LeafTags = {"Dimension"}
SPECIFICATION Spec
INVARIANT OtherXmlRoundTrip

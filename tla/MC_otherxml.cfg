CONSTANTS
  Absent = Absent
  None = None
  MaxElems = 4
  MaxOther = 1
  Inputs <- OtherXmlInputs
  DapInOtherXml = FALSE
  MaxInterns = 2
  ReuseAfter = {"ok"}
  LeafTags = {"Dimension"}
SPECIFICATION Spec
INVARIANT OtherXmlRoundTrip

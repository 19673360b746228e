CONSTANTS
  Absent = Absent
  None = None
  MaxElems = 3
  MaxOther = 0
  Inputs <- ReuseInputs
  DapInOtherXml = FALSE
  MaxInterns = 2
  ReuseAfter = {"fail"}
  LeafTags = {"Dimension"}
SPECIFICATION Spec
INVARIANT OtherXmlRoundTrip

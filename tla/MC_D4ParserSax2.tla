--------------------------- MODULE MC_D4ParserSax2 ---------------------------
(***************************************************************************)
(* Start tags the event source may deliver, one set per question asked of  *)
(* the parser.  A start tag is [tag, ns, name, type, xmlns]: type is the   *)
(* XML attribute that matters for the tag (Attribute type, Dimension size, *)
(* Enumeration basetype, EnumConst value), "-" when it has none.           *)
(***************************************************************************)
EXTENDS D4ParserSax2

Tag(t, ns, name, type, xmlns) ==
  [tag |-> t, ns |-> ns, name |-> name, type |-> type, xmlns |-> xmlns]

Dap(t, name, type) == Tag(t, "dap", name, type, {})

\* Variables, Groups and simple attributes; a Dataset and a variable
\* without their required name.
VariableInputs ==
  {Dap("Dataset", "n", "-"), Dap("Dataset", Absent, "-"),
   Dap("Group", "n", "-"), Dap("Int32", "n", "-"), Dap("Int32", Absent, "-"),
   Dap("Structure", "n", "-"),
   Dap("Attribute", "a", "Int32"), Dap("Attribute", "b", "Container"),
   Dap("value", "-", "-")}


\* Dimension, Enumeration and EnumConst declarations, with a base type that
\* is not an integer type and constants that do not parse or do not fit.
DefinitionInputs ==
  {Dap("Dataset", "n", "-"), Dap("Group", "n", "-"),
   Dap("Dimension", "n", "12"), Dap("Dimension", "n", "*"),
   Dap("Enumeration", "n", "Int8"), Dap("Enumeration", "n", "Float64"),
   Dap("EnumConst", "n", "1"), Dap("EnumConst", "n", "300"),
   Dap("EnumConst", "n", "x")}

\* A Dimension declaration given an element child.
DimensionChildInputs ==
  {Dap("Dataset", "n", "-"), Dap("Dimension", "n", "12"), Dap("Int32", "n", "-")}

\* Dimensions of the Dataset whose sizes are legal, not numbers, or
\* negative.
DimensionSizeInputs ==
  {Dap("Dataset", "n", "-"), Dap("Dimension", "n", "12"),
   Dap("Dimension", "n", "*"), Dap("Dimension", "n", "x"),
   Dap("Dimension", "n", "-1")}

\* A Dimension declared inside a nested Group.
NestedDimensionInputs ==
  {Dap("Dataset", "n", "-"), Dap("Group", "n", "-"), Dap("Dimension", "n", "12")}

\* Attributes after a Group that has closed.
GroupAttributeInputs ==
  {Dap("Dataset", "n", "-"), Dap("Group", "n", "-"),
   Dap("Attribute", "a", "Int32"), Dap("Attribute", "b", "Container"),
   Dap("value", "-", "-")}

\* Attributes declared inside an attribute that is not a container.
NestedAttributeInputs ==
  {Dap("Dataset", "n", "-"), Dap("Attribute", "a", "Int32"),
   Dap("Attribute", "b", "Int32"), Dap("value", "-", "-")}

\* OtherXML attributes holding elements of a foreign namespace, and an
\* Attribute element in no namespace.
OtherXmlInputs ==
  {Dap("Dataset", "n", "-"), Dap("Attribute", "a", "OtherXML"),
   Tag("x", "foreign", "-", "-", {}), Tag("y", "foreign", "-", "-", {}),
   Tag("Attribute", NullUri, "-", "-", {})}

\* OtherXML content holding an Attribute element in no namespace.
NullUriInputs ==
  {Dap("Dataset", "n", "-"), Dap("Attribute", "a", "OtherXML"),
   Tag("Attribute", NullUri, "-", "-", {})}

\* OtherXML content that holds an Attribute element of the DAP namespace.
\* An OtherXML attribute holding a foreign element, for a parser object
\* that is used again.
ReuseInputs ==
  {Dap("Dataset", "n", "-"), Dap("Attribute", "a", "OtherXML"),
   Tag("x", "foreign", "-", "-", {})}

NestedOtherXmlInputs ==
  {Dap("Dataset", "n", "-"), Dap("Attribute", "a", "OtherXML")}

\* OtherXML content whose elements declare namespace prefixes.
OtherXmlNamespaceInputs ==
  {Dap("Dataset", "n", "-"), Dap("Attribute", "a", "OtherXML"),
   Tag("x", "foreign", "-", "-", {<<"p", "u1">>}),
   Tag("x", "foreign", "-", "-", {<<"p", "u2">>})}

=============================================================================

---------------------------- MODULE D4ParserSax2 ----------------------------
(***************************************************************************)
(* The DMR parser of libdap (src/D4ParserSax2.cc): a pushdown automaton    *)
(* driven by the libxml2 SAX2 callbacks dmr_start_document,                *)
(* dmr_start_element, dmr_end_element, dmr_get_characters,                 *)
(* dmr_ignoreable_whitespace, dmr_get_cdata, dmr_fatal_error and           *)
(* dmr_end_document, followed by cleanup_parse() in intern().              *)
(*                                                                         *)
(* The event source (libxml2) is modelled as an environment that emits any *)
(* well-formed element sequence of at most MaxElems elements built from    *)
(* the start-tag inputs in Inputs, interleaved with at most MaxOther       *)
(* character, whitespace, CDATA and diagnostic events.  Each element gets  *)
(* an id 1..MaxElems in document order; the root Group of the DMR is the   *)
(* node Root = 1 (the Dataset element is necessarily the first element).   *)
(*                                                                         *)
(* Variables:                                                              *)
(*   parser  the D4ParserSax2 members the callbacks read and write;        *)
(*   dmr     the DMR being built (root Group, variables, attributes,       *)
(*           dimension and enumeration tables);                            *)
(*   xml, nextId, rootClosed, phase, ctxt  the libxml2 push parser context; *)
(*   outcome the result of intern(): "none", "ok", "fail" or "crash";      *)
(*   doc, log  history of the document delivered so far (for properties); *)
(*   interns the intern() calls made on this parser object so far.         *)
(***************************************************************************)
EXTENDS Integers, Sequences, SequencesExt, FiniteSets

CONSTANTS
  MaxElems,   \* number of elements a document may contain
  MaxOther,   \* number of text and diagnostic events a document may contain
  Inputs,     \* start tags the source may deliver: [tag, ns, name, type, xmlns]
  LeafTags,   \* tags the source never gives element children
  DapInOtherXml, \* whether DAP-namespace elements may occur inside OtherXML
  MaxInterns, \* intern() calls the caller makes on one D4ParserSax2 object
  ReuseAfter, \* the results after which the caller calls intern() again
  Absent,     \* an XML attribute missing from a start tag
  None        \* an empty builder slot (d_enum_def, d_dim_def == 0)

ASSUME MaxElems \in Nat \ {0} /\ MaxOther \in Nat /\ DapInOtherXml \in BOOLEAN
ASSUME MaxInterns \in Nat \ {0} /\ ReuseAfter \subseteq {"ok", "fail"}

Ids  == 1..MaxElems
Root == 1                 \* dmr()->root(): the node the Dataset element fills
Null == 0                 \* a null BaseType pointer (empty basetype stack)
NullUri == "none"         \* the URI libxml2 passes for an element in no namespace

\* The D4ParserSax2::ParseState values that some code path pushes.  The
\* states inside_array, inside_dimension and parser_unknown have handlers
\* but no code pushes them, so they are unreachable and not modelled.
States == {"parser_start", "inside_dataset", "inside_group",
           "inside_attribute_container", "inside_attribute",
           "inside_attribute_value", "inside_other_xml_attribute",
           "inside_enum_def", "inside_enum_const", "inside_dim_def",
           "inside_simple_type", "inside_structure", "parser_error"}

---------------------------------------------------------------------------
(* Helpers of libdap outside src/ (util.cc, D4EnumDef), from the spec.     *)

SimpleTypes  == {"Int32"}
IntegerTypes == {"Int8", "UInt8", "Int32"}

\* get_type(name): the type a tag name denotes, "null" for other names.
GetType(tag) == IF tag \in SimpleTypes \cup {"Structure", "Group"}
                THEN tag ELSE "null"

IsSimpleType(t)      == t \in SimpleTypes
IsIntegerType(t)     == t \in IntegerTypes
IsConstructorType(t) == t \in {"Structure", "Group"}

\* D4EnumDef::is_valid_enum_value: the value fits the base type.
IsValidEnumValue(t, v) ==
  CASE t = "Int8"  -> v \in -128..127
    [] t = "UInt8" -> v \in 0..255
    [] OTHER       -> v \in (-2147483647 - 1)..2147483647

\* istringstream >> long (long) on the value texts the inputs use: whether
\* the extraction succeeds, and the value stored (0 when it fails).
Numerals == [n1 |-> 1, m1 |-> -1, n12 |-> 12, n300 |-> 300]
NumeralText == [n1 |-> "1", m1 |-> "-1", n12 |-> "12", n300 |-> "300"]
Parses(txt)    == \E f \in DOMAIN Numerals : NumeralText[f] = txt
ParseLong(txt) == IF Parses(txt)
                  THEN Numerals[CHOOSE f \in DOMAIN Numerals : NumeralText[f] = txt]
                  ELSE 0

---------------------------------------------------------------------------
VARIABLES parser, dmr, xml, nextId, rootClosed, phase, ctxt, outcome, doc, log,
          interns

vars == <<parser, dmr, xml, nextId, rootClosed, phase, ctxt, outcome, doc, log,
          interns>>

Cur == [p |-> parser, d |-> dmr]

\* Commit the parser and DMR state a handler computed.
Apply(r) == parser' = r.p /\ dmr' = r.d

TopOr(s, d) == IF s = <<>> THEN d ELSE Last(s)

\* get_state(): the top of the state stack.
State == TopOr(parser.stack, "none")

\* The result of a process_* helper: the new state and its boolean result.
Res(r, ok) == [r |-> r, ok |-> ok]

---------------------------------------------------------------------------
(* Parser operations that several callbacks share.                         *)

\* dmr_fatal_error: push parser_error and append a line to error_msg.
FatalError(r) ==
  [r EXCEPT !.p.stack = Append(@, "parser_error"), !.p.errs = @ + 1]

PushState(r, s) == [r EXCEPT !.p.stack = Append(@, s)]
PopState(r)     == [r EXCEPT !.p.stack = Front(@)]

\* The getters dim_def() and enum_def() allocate an object when the slot
\* is null.
DimDef(r)  == IF r.p.dimDef = None
              THEN [name |-> 0, size |-> 0, varying |-> FALSE] ELSE r.p.dimDef
EnumDef(r) == IF r.p.enumDef = None
              THEN [name |-> 0, type |-> "null", consts |-> <<>>] ELSE r.p.enumDef

\* check_required_attribute for each XML attribute named, in order: the
\* first one missing is reported (dmr_fatal_error) and the check fails.
CheckRequired(r, in, fields) ==
  IF \E f \in fields : in[f] = Absent THEN Res(FatalError(r), FALSE) ELSE Res(r, TRUE)

NewAttr(name, type, child) ==
  [name |-> name, type |-> type, child |-> child, vals |-> <<>>]

\* process_attribute_helper: an Attribute start tag.
ProcessAttributeHelper(r, in, id) ==
  LET c == CheckRequired(r, in, {"name", "type"}) IN
  IF ~c.ok THEN c.r
  ELSE IF in.type = "Container"
  THEN LET tos == Last(r.p.at)
       IN [r EXCEPT !.p.stack = Append(@, "inside_attribute_container"),
                    !.d.store[tos] = Append(@, NewAttr(in.name, "Container", id)),
                    !.p.at = Append(@, id)]
  ELSE [r EXCEPT !.p.stack = Append(@, IF in.type = "OtherXML"
                                       THEN "inside_other_xml_attribute"
                                       ELSE "inside_attribute"),
                 !.p.attrName = in.name,
                 !.p.attrType = in.type]

\* process_attribute: the tag is Attribute.
ProcessAttribute(r, in, id) ==
  IF in.tag = "Attribute" THEN Res(ProcessAttributeHelper(r, in, id), TRUE)
  ELSE Res(r, FALSE)

\* process_dimension_def: a Dimension declaration fills the dim_def() slot.
ProcessDimensionDef(r, in, id) ==
  LET c == CheckRequired(r, in, {"name", "type"}) IN
  IF in.tag # "Dimension" THEN Res(r, FALSE)
  ELSE IF ~c.ok THEN c
  ELSE LET d == [DimDef(r) EXCEPT !.name = id]
       IN Res([r EXCEPT !.p.dimDef =
                  IF in.type = "*" THEN [d EXCEPT !.varying = TRUE]
                  ELSE [d EXCEPT !.size = ParseLong(in.type)]], TRUE)

\* process_group: a nested Group becomes the top node and attribute table.
ProcessGroup(r, in, id) ==
  LET c == CheckRequired(r, in, {"name"}) IN
  IF in.tag # "Group" THEN Res(r, FALSE)
  ELSE IF ~c.ok THEN Res(FatalError(c.r), FALSE)
  ELSE Res([r EXCEPT !.d.kind[id] = "Group",
                     !.p.bt = Append(@, id),
                     !.p.at = Append(@, id)], TRUE)

\* process_enum_def: an Enumeration declaration fills the enum_def() slot.
ProcessEnumDef(r, in, id) ==
  LET c == CheckRequired(r, in, {"name", "type"}) IN
  IF in.tag # "Enumeration" THEN Res(r, FALSE)
  ELSE IF ~c.ok THEN c
  ELSE IF ~IsIntegerType(in.type) THEN Res(FatalError(r), FALSE)
  ELSE Res([r EXCEPT !.p.enumDef =
              [EnumDef(r) EXCEPT !.name = id, !.type = in.type]], TRUE)

\* process_enum_const: an EnumConst is added to enum_def() if it parses and
\* fits the base type; it returns true even when it reported an error.
ProcessEnumConst(r, in, id) ==
  LET c == CheckRequired(r, in, {"name", "type"}) IN
  IF in.tag # "EnumConst" THEN Res(r, FALSE)
  ELSE IF ~c.ok THEN c
  ELSE LET v == ParseLong(in.type) IN
       IF ~Parses(in.type) THEN Res(FatalError(r), TRUE)
       ELSE IF ~IsValidEnumValue(EnumDef(r).type, v) THEN Res(FatalError(r), TRUE)
       ELSE Res([r EXCEPT !.p.enumDef =
                   [EnumDef(r) EXCEPT !.consts =
                      Append(@, [name |-> id, value |-> v])]], TRUE)

\* process_variable_helper: a variable becomes the top node and attribute
\* table and the parser moves to state s.
ProcessVariableHelper(r, in, id, t, s) ==
  LET c == CheckRequired(r, in, {"name"}) IN
  IF ~c.ok THEN c.r
  ELSE [r EXCEPT !.d.kind[id] = t,
                 !.p.bt = Append(@, id),
                 !.p.at = Append(@, id),
                 !.p.stack = Append(@, s)]

\* Mutant of ProcessVariable: a Structure enters inside_sequence, a state
\* no end handler of this parser serves.
ProcessVariableSeqState(r, in, id) ==
  LET t == GetType(in.tag) IN
  IF IsSimpleType(t)
  THEN Res(ProcessVariableHelper(r, in, id, t, "inside_simple_type"), TRUE)
  ELSE IF in.tag = "Structure"
  THEN Res(ProcessVariableHelper(r, in, id, "Structure", "inside_sequence"), TRUE)
  ELSE Res(r, FALSE)

\* process_variable: a simple type or a Structure.
ProcessVariable(r, in, id) ==
  LET t == GetType(in.tag) IN
  IF IsSimpleType(t)
  THEN Res(ProcessVariableHelper(r, in, id, t, "inside_simple_type"), TRUE)
  ELSE IF in.tag = "Structure"
  THEN Res(ProcessVariableHelper(r, in, id, "Structure", "inside_structure"), TRUE)
  ELSE Res(r, FALSE)

\* Add a value to the attribute named attrName of the top attribute table,
\* creating it with type attrType when the table has none of that name
\* (D4Attributes::get, add_attribute_nocopy, D4Attribute::add_value).  The
\* value records the element it came from, for the properties.
CommitAttrValue(r, data, from) ==
  LET tos   == Last(r.p.at)
      attrs == r.d.store[tos]
      found == SelectInSeq(attrs, LAMBDA a : a.name = r.p.attrName)
      table == IF found = 0 THEN Append(attrs, NewAttr(r.p.attrName, r.p.attrType, 0))
               ELSE attrs
      i     == IF found = 0 THEN Len(table) ELSE found
  IN [r EXCEPT !.d.store[tos] =
                 [table EXCEPT ![i].vals = Append(@, [from |-> from, data |-> data])]]

---------------------------------------------------------------------------
(* dmr_start_element, one operator per parser state.                       *)

\* parser_start: only a Dataset element is legal; it fills the root Group.
StartDataset(r, in, id) ==
  IF in.tag = "Dataset"
  THEN LET c  == CheckRequired(r, in, {"name"})
           r1 == IF c.ok THEN [r EXCEPT !.d.named = TRUE] ELSE c.r
       IN [r1 EXCEPT !.p.rootNs = IF in.ns = NullUri THEN "" ELSE in.ns,
                     !.p.bt = Append(@, Root),
                     !.p.stack = Append(@, "inside_dataset")]
  ELSE FatalError(r)

\* inside_dataset and inside_group: Enumeration, Dimension, Group, variable
\* or Attribute, tried in this order.
StartInGroup(r, in, id) ==
  LET e == ProcessEnumDef(r, in, id) IN
  IF e.ok THEN PushState(e.r, "inside_enum_def") ELSE
  LET dd == ProcessDimensionDef(e.r, in, id) IN
  IF dd.ok THEN PushState(dd.r, "inside_dim_def") ELSE
  LET g == ProcessGroup(dd.r, in, id) IN
  IF g.ok THEN PushState(g.r, "inside_group") ELSE
  LET v == ProcessVariable(g.r, in, id) IN
  IF v.ok THEN v.r ELSE
  LET a == ProcessAttribute(v.r, in, id) IN
  IF a.ok THEN a.r ELSE FatalError(a.r)

\* inside_attribute_container and inside_simple_type: only Attribute.
StartAttributeOnly(r, in, id) ==
  LET a == ProcessAttribute(r, in, id) IN
  IF a.ok THEN a.r ELSE FatalError(a.r)

\* inside_attribute: a nested Attribute or a value element.
StartInAttribute(r, in, id) ==
  LET a == ProcessAttribute(r, in, id) IN
  IF a.ok THEN a.r
  ELSE IF in.tag = "value" THEN PushState(r, "inside_attribute_value")
  ELSE FatalError(r)

\* transfer_xml_ns: each declared (prefix, URI) pair goes into
\* namespace_table, whose insert keeps the URI a prefix already has.
TransferXmlNs(table, xmlns) == table \cup {b \in xmlns : b[1] \notin {c[1] : c \in table}}

\* inside_other_xml_attribute: the start tag is re-serialised into
\* other_xml.  Declared namespaces go through namespace_table, which is
\* never cleared and whose insert keeps an existing prefix, and the whole
\* table is written out.
StartInOtherXml(r, in, id) ==
  LET table == TransferXmlNs(r.p.nsTable, in.xmlns)
  IN [r EXCEPT !.p.oxDepth = @ + 1,
               !.p.nsTable = IF in.xmlns = {} THEN @ ELSE table,
               !.p.oxml = Append(@, [k |-> "open", tag |-> in.tag, ns |-> in.ns,
                                     xmlns |-> IF in.xmlns = {} THEN {} ELSE table])]

\* inside_enum_def: only EnumConst.
StartInEnumDef(r, in, id) ==
  LET c == ProcessEnumConst(r, in, id) IN
  IF c.ok THEN PushState(c.r, "inside_enum_const") ELSE FatalError(c.r)

\* inside_structure: a variable or an Attribute.
StartInStructure(r, in, id) ==
  LET v == ProcessVariable(r, in, id) IN
  IF v.ok THEN v.r ELSE
  LET a == ProcessAttribute(v.r, in, id) IN
  IF a.ok THEN a.r ELSE FatalError(a.r)

\* inside_attribute_value, inside_enum_const, parser_error, and
\* inside_dim_def (which has no case in the switch): nothing happens.
StartIgnored(r, in, id) == r

---------------------------------------------------------------------------
(* dmr_end_element, one operator per parser state.  e is the element that  *)
(* ends ([id, tag, ns]); from is the element enclosing it.                 *)

\* inside_dataset
EndInDataset(r, e, from) ==
  IF e.tag = "Dataset" THEN PopState(r) ELSE FatalError(r)

\* inside_group: pop the Group and add it to the node below it.  The check
\* of line 751, `!parent->type() == dods_group_c`, is always false.  The
\* attribute table the Group pushed is not popped.
EndInGroup(r, e, from) ==
  IF e.tag # "Group" THEN FatalError(r)
  ELSE LET btp == Last(r.p.bt)
           r1  == [r EXCEPT !.p.bt = Front(@)]
       IN IF r1.d.kind[btp] # "Group" THEN FatalError(r1)
          ELSE LET parent == Last(r1.p.bt)
               IN PopState([r1 EXCEPT !.d.groups[parent] = Append(@, btp)])

\* inside_attribute_container: pop the state and the attribute table.
EndInContainer(r, e, from) ==
  IF e.tag = "Attribute" THEN [PopState(r) EXCEPT !.p.at = Front(@)]
  ELSE FatalError(r)

\* inside_attribute
EndInAttribute(r, e, from) ==
  IF e.tag = "Attribute" THEN PopState(r) ELSE FatalError(r)

\* inside_attribute_value: commit char_data as a value of attribute
\* dods_attr_name in the top attribute table, then clear char_data.
EndInAttributeValue(r, e, from) ==
  IF e.tag = "value"
  THEN [CommitAttrValue(PopState(r), r.p.chars, from) EXCEPT !.p.chars = 0]
  ELSE FatalError(r)

\* Mutant of OtherXmlEnd: other_xml is not cleared after the commit.
OtherXmlEndNoReset(r, e, commit) ==
  IF commit
  THEN CommitAttrValue(PopState(r), r.p.oxml, e.id)
  ELSE LET r1 == IF r.p.oxDepth = 0 THEN FatalError(r) ELSE r
       IN [r1 EXCEPT !.p.oxDepth = @ - 1,
                     !.p.oxml = Append(@, [k |-> "close", tag |-> e.tag,
                                           ns |-> e.ns, xmlns |-> {}])]

\* The two branches of the inside_other_xml_attribute end handler: commit
\* other_xml to the attribute and clear it, or re-serialise the end tag
\* and decrement the depth.
OtherXmlEnd(r, e, commit) ==
  IF commit
  THEN [CommitAttrValue(PopState(r), r.p.oxml, e.id) EXCEPT !.p.oxml = <<>>]
  ELSE LET r1 == IF r.p.oxDepth = 0 THEN FatalError(r) ELSE r
       IN [r1 EXCEPT !.p.oxDepth = @ - 1,
                     !.p.oxml = Append(@, [k |-> "close", tag |-> e.tag,
                                           ns |-> e.ns, xmlns |-> {}])]

\* inside_other_xml_attribute: an Attribute end tag in the Dataset's
\* namespace commits other_xml, whatever the depth; any other end tag is
\* re-serialised.  (An Attribute end tag in no namespace is
\* EndNullUriInOtherXml.)
EndInOtherXml(r, e, from) ==
  OtherXmlEnd(r, e, e.tag = "Attribute" /\ r.p.rootNs = e.ns)

\* Mutant of EndInEnumDef: the enum_def() slot is not reset to null.
EndInEnumDefNoReset(r, e, from) ==
  IF e.tag = "Enumeration"
  THEN LET btp == TopOr(r.p.bt, Null) IN
       IF btp = Null \/ r.d.kind[btp] # "Group" THEN FatalError(r)
       ELSE PopState([r EXCEPT !.d.enums = Append(@, EnumDef(r))])
  ELSE FatalError(r)

\* inside_enum_def: the Enumeration goes to the root Group's table.
EndInEnumDef(r, e, from) ==
  IF e.tag = "Enumeration"
  THEN LET btp == TopOr(r.p.bt, Null) IN
       IF btp = Null \/ r.d.kind[btp] # "Group" THEN FatalError(r)
       ELSE PopState([r EXCEPT !.d.enums = Append(@, EnumDef(r)),
                               !.p.enumDef = None])
  ELSE FatalError(r)

\* inside_enum_const
EndInEnumConst(r, e, from) ==
  IF e.tag = "EnumConst" THEN PopState(r) ELSE FatalError(r)

\* inside_dim_def: neither error check stops the commit, which adds
\* dim_def() to the root Group's table and pops the state.
EndInDimDef(r, e, from) ==
  LET r1  == IF e.tag # "Dimension" THEN FatalError(r) ELSE r
      btp == TopOr(r1.p.bt, Null)
      r2  == IF btp = Null \/ r1.d.kind[btp] # "Group" THEN FatalError(r1) ELSE r1
  IN PopState([r2 EXCEPT !.d.dims = Append(@, DimDef(r2)), !.p.dimDef = None])

\* Mutant of EndInSimpleType: the variable is added to the root Group.
EndInSimpleTypeToRoot(r, e, from) ==
  IF IsSimpleType(GetType(e.tag))
  THEN LET btp    == Last(r.p.bt)
           r1     == [PopState(r) EXCEPT !.p.bt = Front(@), !.p.at = Front(@)]
           parent == TopOr(r1.p.bt, Null)
       IN IF parent # Null /\ IsConstructorType(r1.d.kind[parent])
          THEN [r1 EXCEPT !.d.vars[Root] = Append(@, btp)]
          ELSE FatalError(r1)
  ELSE FatalError(r)

\* inside_simple_type: pop the variable and add it to its parent.
EndInSimpleType(r, e, from) ==
  IF IsSimpleType(GetType(e.tag))
  THEN LET btp    == Last(r.p.bt)
           r1     == [PopState(r) EXCEPT !.p.bt = Front(@), !.p.at = Front(@)]
           parent == TopOr(r1.p.bt, Null)
       IN IF parent # Null /\ IsConstructorType(r1.d.kind[parent])
          THEN [r1 EXCEPT !.d.vars[parent] = Append(@, btp)]
          ELSE FatalError(r1)
  ELSE FatalError(r)

\* finish_variable, for inside_structure.
FinishVariable(r, tag, t, expected) ==
  IF tag # expected THEN FatalError(r)
  ELSE LET btp    == Last(r.p.bt)
           r1     == [r EXCEPT !.p.bt = Front(@), !.p.at = Front(@)]
           parent == TopOr(r1.p.bt, Null)
       IN IF r1.d.kind[btp] # t THEN FatalError(r1)
          ELSE IF parent # Null /\ ~IsConstructorType(r1.d.kind[parent])
          THEN FatalError(r1)
          ELSE PopState([r1 EXCEPT !.d.vars[parent] = Append(@, btp)])

EndInStructure(r, e, from) == FinishVariable(r, e.tag, "Structure", "Structure")

\* parser_error
EndIgnored(r, e, from) == r

---------------------------------------------------------------------------
(* dmr_start_document, dmr_end_document and cleanup_parse.                 *)

StartDocumentHandler(r) ==
  [r EXCEPT !.p.errs = 0, !.p.chars = 0,
            !.p.stack = Append(@, "parser_start"),
            !.p.at = Append(@, Root)]

EndDocumentHandler(r) ==
  LET r1 == IF TopOr(r.p.stack, "none") # "parser_start" THEN FatalError(r) ELSE r
  IN IF TopOr(r1.p.stack, "none") = "parser_error" THEN r1
     ELSE LET r2 == IF r1.d.kind[Last(r1.p.bt)] # "Group" THEN FatalError(r1) ELSE r1
          IN [r2 EXCEPT !.p.bt = Front(@)]

\* Mutant of CleanupParse: the parser_error state is not consulted.
CleanupParseNoState(c, r) ==
  IF ~c.wellFormed \/ ~c.valid THEN "fail" ELSE "ok"

\* cleanup_parse: the result intern() reports.
CleanupParse(c, r) ==
  IF ~c.wellFormed \/ ~c.valid \/ TopOr(r.p.stack, "none") = "parser_error"
  THEN "fail" ELSE "ok"

\* What cleanup_parse deletes: d_enum_def, and d_dim_def only when it
\* throws.  Nothing else of the parser is reset.
CleanupSlots(r, res) ==
  [r EXCEPT !.p.enumDef = None, !.p.dimDef = IF res = "fail" THEN None ELSE @]

---------------------------------------------------------------------------
(* The event source: libxml2 delivering a well-formed document.            *)

\* Some open element is an Attribute of type OtherXML.
InOtherXml ==
  \E i \in 1..Len(xml) :
    doc[xml[i].id].tag = "Attribute" /\ doc[xml[i].id].type = "OtherXML"

\* A start tag in: a new element, child of the innermost open element.
SourceStart(in) ==
  /\ phase = "parsing"
  /\ nextId \in Ids
  /\ xml # <<>> \/ ~rootClosed
  /\ IF xml = <<>> THEN TRUE ELSE Last(xml).tag \notin LeafTags
  /\ in.ns = "dap" /\ InOtherXml => DapInOtherXml
  /\ xml' = Append(xml, [id |-> nextId, tag |-> in.tag, ns |-> in.ns])
  /\ nextId' = nextId + 1
  /\ doc' = Append(doc, [tag |-> in.tag, ns |-> in.ns, name |-> in.name,
                        type |-> in.type, xmlns |-> in.xmlns,
                        owner |-> IF xml = <<>> THEN 0 ELSE Last(xml).id])
  /\ log' = Append(log, [k |-> "open", id |-> nextId])
  /\ UNCHANGED <<rootClosed, phase, ctxt, outcome, interns>>

\* The end tag of the innermost open element.
SourceEnd ==
  /\ phase = "parsing"
  /\ xml # <<>>
  /\ xml' = Front(xml)
  /\ rootClosed' = (rootClosed \/ Len(xml) = 1)
  /\ log' = Append(log, [k |-> "close", id |-> Last(xml).id])
  /\ UNCHANGED <<nextId, phase, ctxt, outcome, doc, interns>>

\* Character data, ignorable whitespace or a CDATA block inside the root.
SourceText ==
  /\ phase = "parsing"
  /\ xml # <<>>
  /\ ctxt.others < MaxOther
  /\ ctxt' = [ctxt EXCEPT !.others = @ + 1]
  /\ log' = Append(log, [k |-> "text", id |-> 0])
  /\ UNCHANGED <<xml, nextId, rootClosed, phase, outcome, doc, interns>>

\* The element that encloses the innermost open element.
Enclosing == IF Len(xml) > 1 THEN xml[Len(xml) - 1].id ELSE 0

---------------------------------------------------------------------------
(* Actions: one per callback and parser state.                             *)

\* intern(): the first getline() reads nothing, so no parse is started and
\* intern() returns normally.
EmptyStream ==
  /\ phase = "init"
  /\ phase' = "done"
  /\ outcome' = "ok"
  /\ UNCHANGED <<parser, dmr, xml, nextId, rootClosed, ctxt, doc, log, interns>>

\* intern() creates the push parser, which calls dmr_start_document.
StartDocument ==
  /\ phase = "init"
  /\ phase' = "parsing"
  /\ Apply(StartDocumentHandler(Cur))
  /\ UNCHANGED <<xml, nextId, rootClosed, ctxt, outcome, doc, log, interns>>

\* dmr_start_element, handled by H (dispatched on the parser state).
OnStart(H(_, _, _)) ==
  \E in \in Inputs :
    /\ SourceStart(in)
    /\ Apply(H(Cur, in, nextId))

StartInStartState ==
  State = "parser_start" /\ OnStart(StartDataset)
StartInDatasetGroup ==
  State \in {"inside_dataset", "inside_group"} /\ OnStart(StartInGroup)
StartInContainerType ==
  /\ State \in {"inside_attribute_container", "inside_simple_type"}
  /\ OnStart(StartAttributeOnly)
StartInAttributeSt ==
  State = "inside_attribute" /\ OnStart(StartInAttribute)
StartInOtherXmlSt ==
  State = "inside_other_xml_attribute" /\ OnStart(StartInOtherXml)
StartInEnumDefSt ==
  State = "inside_enum_def" /\ OnStart(StartInEnumDef)
StartInStructureSt ==
  State = "inside_structure" /\ OnStart(StartInStructure)
StartIgnoredSt ==
  /\ State \in {"inside_attribute_value", "inside_enum_const",
                "inside_dim_def", "parser_error"}
  /\ OnStart(StartIgnored)

\* dmr_end_element, handled by H (dispatched on the parser state).
OnEnd(H(_, _, _)) ==
  SourceEnd /\ Apply(H(Cur, Last(xml), Enclosing))

EndInDatasetSt ==
  State = "inside_dataset" /\ OnEnd(EndInDataset)
EndInGroupSt ==
  State = "inside_group" /\ OnEnd(EndInGroup)
EndInContainerSt ==
  State = "inside_attribute_container" /\ OnEnd(EndInContainer)
EndInAttributeSt ==
  State = "inside_attribute" /\ OnEnd(EndInAttribute)
EndInAttributeValueSt ==
  State = "inside_attribute_value" /\ OnEnd(EndInAttributeValue)
\* The end tag closing is an Attribute element in no namespace.
NullUriAttributeEnd ==
  xml # <<>> /\ Last(xml).tag = "Attribute" /\ Last(xml).ns = NullUri

EndInOtherXmlSt ==
  /\ State = "inside_other_xml_attribute"
  /\ ~NullUriAttributeEnd
  /\ OnEnd(EndInOtherXml)

\* inside_other_xml_attribute, the end of an Attribute element in no
\* namespace: `parser->root_ns == (const char *) URI' compares the
\* std::string with a null pointer, which is undefined.  std::string's
\* compare takes strlen of it, and the process faults; a build that
\* assumes the pointer is not null goes on with either result of the test.
EndNullUriInOtherXml ==
  /\ State = "inside_other_xml_attribute"
  /\ NullUriAttributeEnd
  /\ \/ /\ phase' = "done"
        /\ outcome' = "crash"
        /\ UNCHANGED <<parser, dmr, xml, nextId, rootClosed, ctxt, doc, log, interns>>
     \/ /\ SourceEnd
        /\ \E equal \in BOOLEAN : Apply(OtherXmlEnd(Cur, Last(xml), equal))
EndInEnumDefSt ==
  State = "inside_enum_def" /\ OnEnd(EndInEnumDef)
EndInEnumConstSt ==
  State = "inside_enum_const" /\ OnEnd(EndInEnumConst)
EndInDimDefSt ==
  State = "inside_dim_def" /\ OnEnd(EndInDimDef)
EndInSimpleTypeSt ==
  State = "inside_simple_type" /\ OnEnd(EndInSimpleType)
EndInStructureSt ==
  State = "inside_structure" /\ OnEnd(EndInStructure)
EndIgnoredSt ==
  State = "parser_error" /\ OnEnd(EndIgnored)

\* dmr_get_characters: kept inside a value element and inside OtherXML.
CharactersInValue ==
  /\ State = "inside_attribute_value"
  /\ SourceText
  /\ parser' = [parser EXCEPT !.chars = @ + 1]
  /\ UNCHANGED dmr

\* dmr_get_characters, dmr_ignoreable_whitespace and dmr_get_cdata inside
\* OtherXML: the text is appended to other_xml.
TextInOtherXml ==
  /\ State = "inside_other_xml_attribute"
  /\ SourceText
  /\ parser' = [parser EXCEPT !.oxml = Append(@, [k |-> "text", tag |-> "",
                                                   ns |-> "", xmlns |-> {}])]
  /\ UNCHANGED dmr

\* dmr_get_characters and dmr_ignoreable_whitespace elsewhere: discarded.
TextIgnored ==
  /\ State \notin {"inside_attribute_value", "inside_other_xml_attribute"}
  /\ SourceText
  /\ UNCHANGED <<parser, dmr>>

\* dmr_get_cdata outside OtherXML: DAP allows no CDATA.
CDataElsewhere ==
  /\ State # "inside_other_xml_attribute"
  /\ SourceText
  /\ Apply(FatalError(Cur))

\* libxml2 reports a warning (dmr_fatal_error) or a validity error
\* (dmr_fatal_error, and the context is no longer valid); parsing goes on.
XmlWarning ==
  /\ phase = "parsing"
  /\ ctxt.others < MaxOther
  /\ \E validity \in BOOLEAN :
       ctxt' = [ctxt EXCEPT !.others = @ + 1, !.valid = @ /\ ~validity]
  /\ Apply(FatalError(Cur))
  /\ UNCHANGED <<xml, nextId, rootClosed, phase, outcome, doc, log, interns>>

\* libxml2 finds the input not well formed (including a premature end):
\* dmr_fatal_error, no more callbacks, and intern() runs cleanup_parse.
XmlFatalError ==
  /\ phase = "parsing"
  /\ LET r   == FatalError(Cur)
         c   == [ctxt EXCEPT !.wellFormed = FALSE]
         res == CleanupParse(c, r)
     IN /\ Apply(CleanupSlots(r, res))
        /\ ctxt' = c
        /\ outcome' = res
  /\ phase' = "done"
  /\ UNCHANGED <<xml, nextId, rootClosed, doc, log, interns>>

\* The terminating xmlParseChunk calls dmr_end_document; then intern()
\* runs cleanup_parse.
EndDocument ==
  /\ phase = "parsing"
  /\ xml = <<>>
  /\ rootClosed
  /\ LET r   == EndDocumentHandler(Cur)
         res == CleanupParse(ctxt, r)
     IN /\ Apply(CleanupSlots(r, res))
        /\ outcome' = res
  /\ phase' = "done"
  /\ UNCHANGED <<xml, nextId, rootClosed, ctxt, doc, log, interns>>

\* intern() has returned or thrown.
Finished ==
  /\ phase = "done"
  /\ UNCHANGED vars

\* The DMR object the caller passes in: an empty root Group.
EmptyDmr ==
  [named |-> FALSE,
   kind |-> [i \in Ids |-> IF i = Root THEN "Group" ELSE "null"],
   vars |-> [i \in Ids |-> <<>>],
   groups |-> [i \in Ids |-> <<>>],
   store |-> [i \in Ids |-> <<>>],
   dims |-> <<>>, enums |-> <<>>]

\* A new libxml2 push parser context.
NewCtxt == [wellFormed |-> TRUE, valid |-> TRUE, others |-> 0]

\* The caller calls intern() again on the same D4ParserSax2 object, with a
\* new DMR and a new stream, after the last call returned or threw.  Only
\* what dmr_start_document and cleanup_parse reset is reset: the state,
\* basetype and attribute stacks, other_xml, other_xml_depth,
\* namespace_table, dods_attr_name and dods_attr_type keep their values
\* (ids left on the stacks stand for nodes of the earlier DMR).
InternAgain ==
  /\ phase = "done"
  /\ outcome \in ReuseAfter
  /\ interns < MaxInterns
  /\ interns' = interns + 1
  /\ phase' = "init"
  /\ outcome' = "none"
  /\ dmr' = EmptyDmr
  /\ ctxt' = NewCtxt
  /\ xml' = <<>> /\ nextId' = 1 /\ rootClosed' = FALSE
  /\ doc' = <<>> /\ log' = <<>>
  /\ UNCHANGED parser

Init ==
  /\ parser = [stack |-> <<>>, bt |-> <<>>, at |-> <<>>,
               attrName |-> Absent, attrType |-> Absent, chars |-> 0,
               oxml |-> <<>>, oxDepth |-> 0, nsTable |-> {},
               enumDef |-> None, dimDef |-> None, errs |-> 0, rootNs |-> ""]
  /\ dmr = EmptyDmr
  /\ xml = <<>>
  /\ nextId = 1
  /\ rootClosed = FALSE
  /\ phase = "init"
  /\ ctxt = NewCtxt
  /\ outcome = "none"
  /\ doc = <<>>
  /\ log = <<>>
  /\ interns = 1

Next ==
  \/ EmptyStream
  \/ StartDocument
  \/ StartInStartState
  \/ StartInDatasetGroup
  \/ StartInContainerType
  \/ StartInAttributeSt
  \/ StartInOtherXmlSt
  \/ StartInEnumDefSt
  \/ StartInStructureSt
  \/ StartIgnoredSt
  \/ EndInDatasetSt
  \/ EndInGroupSt
  \/ EndInContainerSt
  \/ EndInAttributeSt
  \/ EndInAttributeValueSt
  \/ EndInOtherXmlSt
  \/ EndNullUriInOtherXml
  \/ EndInEnumDefSt
  \/ EndInEnumConstSt
  \/ EndInDimDefSt
  \/ EndInSimpleTypeSt
  \/ EndInStructureSt
  \/ EndIgnoredSt
  \/ CharactersInValue
  \/ TextInOtherXml
  \/ TextIgnored
  \/ CDataElsewhere
  \/ XmlWarning
  \/ XmlFatalError
  \/ EndDocument
  \/ InternAgain
  \/ Finished

Spec == Init /\ [][Next]_vars

---------------------------------------------------------------------------
(* What the delivered document says the DMR should be.                     *)

Elems == 1..Len(doc)

\* The elements with a tag in T whose parent element is n, in document order.
ChildrenOf(n, T) ==
  SelectSeq([i \in Elems |-> i], LAMBDA e : doc[e].owner = n /\ doc[e].tag \in T)

\* All elements with a tag in T, in document order.
ElementsTagged(T) == SelectSeq([i \in Elems |-> i], LAMBDA e : doc[e].tag \in T)

\* Elements whose attributes an Attribute inside them belongs to.
HoldsAttributes(e) ==
  \/ doc[e].tag \in {"Dataset", "Group", "Structure"} \cup SimpleTypes
  \/ doc[e].tag = "Attribute" /\ doc[e].type = "Container"

\* The nearest proper ancestor of element e that holds attributes.
RECURSIVE AttributeOwner(_)
AttributeOwner(e) ==
  LET o == doc[e].owner
  IN IF o = 0 THEN 0 ELSE IF HoldsAttributes(o) THEN o ELSE AttributeOwner(o)

\* The OtherXML text the content of element e should re-serialise to.
Token(ev) ==
  CASE ev.k = "open"  -> [k |-> "open", tag |-> doc[ev.id].tag,
                          ns |-> doc[ev.id].ns, xmlns |-> doc[ev.id].xmlns]
    [] ev.k = "close" -> [k |-> "close", tag |-> doc[ev.id].tag,
                          ns |-> doc[ev.id].ns, xmlns |-> {}]
    [] OTHER          -> [k |-> "text", tag |-> "", ns |-> "", xmlns |-> {}]

ContentOf(e) ==
  LET o == SelectInSeq(log, LAMBDA ev : ev = [k |-> "open", id |-> e])
      c == SelectInSeq(log, LAMBDA ev : ev = [k |-> "close", id |-> e])
  IN [j \in 1..(c - o - 1) |-> Token(log[o + j])]

\* Every attribute value in the DMR, with the table holding it.
AttributeValues ==
  UNION {UNION {{[table |-> t, attr |-> a, val |-> v] : v \in ToSet(a.vals)} :
                 a \in ToSet(dmr.store[t])} : t \in Ids}

---------------------------------------------------------------------------
(* Invariants and properties.                                              *)

Token_ == [k : {"open", "close", "text"}, tag : STRING, ns : STRING,
           xmlns : SUBSET (STRING \X STRING)]

TypeOK ==
  /\ parser.stack \in Seq(States)
  /\ parser.bt \in Seq(Ids)
  /\ parser.at \in Seq(Ids)
  /\ parser.chars \in Nat
  /\ parser.errs \in Nat
  /\ parser.oxDepth \in Int
  /\ parser.oxml \in Seq(Token_)
  /\ dmr.vars \in [Ids -> Seq(Ids)]
  /\ dmr.groups \in [Ids -> Seq(Ids)]
  /\ phase \in {"init", "parsing", "done"}
  /\ outcome \in {"none", "ok", "fail", "crash"}
  /\ outcome # "none" <=> phase = "done"
  /\ interns \in 1..MaxInterns

\* dmr_fatal_error is the only way a structural problem is reported, and
\* its message must reach the caller: intern() never returns normally once
\* error_msg holds a diagnostic (spec section 7: the error state latches).
NoSilentError == outcome = "ok" => parser.errs = 0

\* When intern() returns normally, the DMR holds exactly the variables and
\* Groups of the document, each under the Group or Structure element that
\* encloses it, in document order (dmr_end_element adding each finished
\* node to the node below it on the basetype stack).
TreeMirrorsDocument ==
  outcome = "ok" =>
    \A n \in Ids :
      /\ dmr.vars[n] = ChildrenOf(n, {"Structure"} \cup SimpleTypes)
      /\ dmr.groups[n] = ChildrenOf(n, {"Group"})

\* When intern() returns normally, the root enumeration table holds every
\* Enumeration of the document, in document order, each with its base type
\* and exactly its EnumConst children (the enum_def() builder slot being
\* filled, committed and cleared across the Enumeration's events).
EnumsMirrorDocument ==
  outcome = "ok" =>
    LET E == ElementsTagged({"Enumeration"})
    IN dmr.enums =
         [i \in 1..Len(E) |->
            LET C == ChildrenOf(E[i], {"EnumConst"})
            IN [name |-> E[i], type |-> doc[E[i]].type,
                consts |-> [j \in 1..Len(C) |->
                              [name |-> C[j], value |-> ParseLong(doc[C[j]].type)]]]]

\* Every attribute value lands where the document puts it: in the attribute
\* table of the variable, Group or container the Attribute element is
\* nested in (the attribute-table stack moving in step with the elements),
\* under the name of its own Attribute element (the single
\* dods_attr_name slot filled at the start tag and read at the end tag).
AttrValuesInPlace ==
  /\ \A x \in AttributeValues :
       /\ AttributeOwner(x.val.from) = x.table
       /\ doc[x.val.from].name = x.attr.name
  /\ \A t \in Ids : \A a \in ToSet(dmr.store[t]) :
       a.child # 0 => AttributeOwner(a.child) = t

\* The text committed for an OtherXML attribute re-serialises exactly the
\* elements, namespace declarations and text inside it (spec section 8,
\* round trip).
OtherXmlRoundTrip ==
  \A x \in AttributeValues :
    doc[x.val.from].type = "OtherXML" => x.val.data = ContentOf(x.val.from)


\* A Dimension size is "*" or the text of a non-negative integer.
LegalSize(t) == t = "*" \/ (Parses(t) /\ ParseLong(t) >= 0)

\* When intern() returns normally, every Dimension of the document had a
\* legal size, and the root Group's dimension table holds exactly the
\* Dimensions declared directly in the Dataset, in order, each with its
\* size or its variable-length mark (spec sections 3 and 4.1: a size is
\* parsed as a non-negative integer; a Dimension goes to the table of the
\* Group that declares it).  process_dimension_def reads the size with
\* istringstream >> long and the dim_def end handler commits to the root.
DimensionsMirrorDocument ==
  outcome = "ok" =>
    LET D == ChildrenOf(Root, {"Dimension"})
    IN /\ \A e \in Elems : doc[e].tag = "Dimension" => LegalSize(doc[e].type)
       /\ dmr.dims = [i \in 1..Len(D) |->
                        [name |-> D[i],
                         size |-> IF doc[D[i]].type = "*" THEN 0
                                  ELSE ParseLong(doc[D[i]].type),
                         varying |-> doc[D[i]].type = "*"]]

\* For any well-formed document, intern() returns or throws D4ParseError:
\* no callback makes the process fault (the comparison of root_ns with
\* the namespace URI of an OtherXML end tag).
ReturnsOrThrows == phase = "done" => outcome \in {"ok", "fail"}

\* intern() returns normally only after parsing a Dataset (spec section 6:
\* the result is a root model or a failure).
SuccessMeansDataset ==
  outcome = "ok" => Len(doc) > 0 /\ doc[1].tag = "Dataset" /\ dmr.named

=============================================================================

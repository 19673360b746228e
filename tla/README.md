# TLA+ models of libdap4

This directory models the parts of `src/` whose behaviour depends on the
order of events. The models are checked with TLC. They cover three parts:

- The DAP4 DMR parser `D4ParserSax2`. It is a pushdown automaton that the
  libxml2 SAX2 callbacks drive, event by event.
- The `intern(istream&)` driver that feeds the parser line by line.
- The DAP2 `ResponseBuilder`, which writes responses under a SIGALRM
  timeout.

## 1. Inventory of the system

| Part | Source | State | Operations | Status |
|---|---|---|---|---|
| DMR parser: element callbacks | `src/D4ParserSax2.cc` 506-950 | state stack `s`, basetype stack `btp_stack`, attribute-table stack `d_attrs_stack` | `dmr_start_element` and `dmr_end_element`, each a switch on `get_state()`, with the `process_*` helpers (166-416) and `finish_variable` (421-452) | modelled |
| DMR parser: declaration builders | same, 210-233, 309-364, 853-900 | `d_enum_def` and `d_dim_def`, single slots | filled at the start tag, extended by EnumConst, committed and cleared at the end tag | modelled |
| DMR parser: attributes and OtherXML | same, 166-207, 580-640, 777-851, 955-1015 | `dods_attr_name`, `dods_attr_type`, `char_data`, `other_xml`, `other_xml_depth`, `namespace_table`, `root_ns` | Attribute, value and OtherXML start and end tags; text | modelled |
| DMR parser: text and diagnostics | same, 955-1052 | `error_msg` | `dmr_get_characters`, `dmr_ignoreable_whitespace`, `dmr_get_cdata`, `dmr_fatal_error` | modelled |
| DMR parser: driver | same, 1056-1157 | libxml2 context (`wellFormed`, `valid`); the stream, its state bits, `chars`, `gcount()` | `intern()`, `cleanup_parse()` | modelled: the callbacks side in `D4ParserSax2`, the getline loop in `Intern` |
| Response builder | `src/ResponseBuilder.cc` | `d_ce`, `d_timeout`, the registered `AlarmHandler`, the pending alarm, the DDS from `eval_function_clauses` | `initialize`, `set_ce`, `set_dataset_name`, `set_timeout`, `establish_timeout`, `send_das/dds/data/ddx/data_ddx/dmr/dap4_data` | modelled; the header text is reduced to tokens |
| `AISDatabaseParser.h`, `d4_ce/D4CEDriver.h` | headers | declarations only | none in `src/` | not modelled |
| `Int32.cc` | constructor | none | none | not modelled |
| `tests/` | unit tests | none | none | not modelled |

### How the parts interact

`intern(istream&)` reads the input line by line with `getline` and feeds each
line to a libxml2 push parser. libxml2 calls back into the parser as follows:

- `dmr_start_document` once, at the start.
- For every tag, text run or CDATA block, the callback for it.
- `dmr_fatal_error` for warnings, validity errors and fatal errors. After a
  fatal error libxml2 stops calling back.
- At the end of the input, `dmr_end_document`.

Then `cleanup_parse` throws `D4ParseError` in three cases: the document was
not well formed, it was not valid, or the state on top of the stack is
`parser_error`.

Each callback dispatches on the parser state, which is the top of the state
stack. Errors are reported by pushing `parser_error`. Nothing stops a later
end handler from popping it again, so whether a parse fails depends on the
exact sequence of pushes and pops across many callbacks. That is the central
hazard the models check.

The start and end of a variable or Group push and pop the basetype stack and
the attribute-table stack. An end handler adds the finished node to the node
below it on the basetype stack.

Declarations are built in single slots: `d_enum_def`, `d_dim_def`, and
`dods_attr_name` with `dods_attr_type`. These slots are filled, read and
cleared across several callbacks.

### Hard behaviours and the properties aimed at them

- **The error state can escape.** Pushes of `parser_error` followed by pops
  from handlers that do not stop after reporting. Checked by `NoSilentError`.
- **The stacks must stay in step with the element nesting.** Checked by
  `TreeMirrorsDocument` (variables and Groups), `AttrValuesInPlace`
  (attribute tables and names) and `DimensionsMirrorDocument`.
- **A single-slot builder can be stale or overwritten.** Checked by
  `EnumsMirrorDocument` and `AttrValuesInPlace`.
- **OtherXML re-serialisation.** It depends on `other_xml_depth`, the
  accumulating `namespace_table` and the test on the end tag. Checked by
  `OtherXmlRoundTrip`.
- **A null namespace URI.** libxml2 passes `URI == NULL` for an element in no
  namespace; the OtherXML end handler compares it with a `std::string`.
  Checked by `ReturnsOrThrows`.
- **Dimension sizes.** `istringstream >> long` without a check of the stream.
  Checked by `DimensionsMirrorDocument`.
- **The driver's early exit on an empty stream.** Checked by
  `SuccessMeansDataset` and, composed with libxml2, by `DocumentParsed`.
- **The driver's chunking.** `getline` into a 1024-byte buffer, then
  `gcount() - 1` bytes to libxml2, line breaks dropped. Checked by the
  refinement `FeedsLines`, and by `DocumentParsed`, which asks whether
  libxml2 reads the same markup from what it is fed as from the stream.
- **Reuse of the parser object.** `cleanup_parse` and `dmr_start_document`
  reset only some members, so a second `intern()` on the same object sees
  what the first left behind. Checked by `OtherXmlRoundTrip` over two parses.
- **ResponseBuilder's partial failures.** A throw in the middle of a response
  must neither leak the function DDS nor leave the multipart document open
  (`ThrowReleasesResponse`; `FunctionDdsFreed` for the methods that pass).
  Refusals must come before the first byte (`RejectBeforeOutput`).
- **The alarm.** `alarm()` is never cancelled, so its handler can fire after
  the request is over, and `establish_timeout` registers the new handler
  before it sets the new alarm, so an old alarm can fire in between
  (`AlarmHitsOwnRequest`).
- **The response limit.** It must bound what is sent (`SentWithinLimit`).

## 2. Modules

### `D4ParserSax2.tla`: the parser and its environment

**Variables**

- `parser` is a record of the parser members the callbacks use:
  - `stack`, `bt`, `at`: the three stacks, holding states and element ids;
  - `attrName`, `attrType`: `dods_attr_name` and `dods_attr_type`;
  - `chars`: the length of `char_data`;
  - `oxml`, `oxDepth`, `nsTable`: `other_xml` as a token sequence, its
    depth counter and `namespace_table`;
  - `enumDef`, `dimDef`: the builder slots;
  - `errs`: the number of lines in `error_msg`;
  - `rootNs`: `root_ns`.
- `dmr` is the DMR being built:
  - the kind of each node (`Group`, `Int32` or `Structure`);
  - the variables and Groups each node holds;
  - the attribute table of each node;
  - the root's dimension and enumeration tables;
  - whether the Dataset had a name.

  Every element gets an id (`1..MaxElems`) in document order. Node `Root = 1`
  is the root Group that the Dataset element fills.
- `xml`, `nextId`, `rootClosed`, `phase`, `ctxt`: the libxml2 push parser, an
  environment that delivers any well-formed element sequence built from the
  start tags in `Inputs`.
- `outcome`: the result of `intern()`: `"ok"` for a normal return, `"fail"`
  when it throws, `"crash"` when the process faults.
- Undefined behaviour is a nondeterministic choice over what the build can
  do. `EndNullUriInOtherXml` is the OtherXML end handler for an `Attribute`
  end tag whose URI is null (`NullUri`): `root_ns == (const char*)URI` calls
  `strlen(NULL)`, so the process either faults or, if the comparison
  survives, takes either result. `StartDataset` guards the same pointer (line
  518), and maps a null URI to `""`.
- `interns`: how many times `intern()` has been called on this parser
  object. `InternAgain` is a new call with a new DMR and a new libxml2
  context (`EmptyDmr`, `NewCtxt`) after the last one returned (`ReuseAfter`
  contains `"ok"`) or threw (`"fail"`); `parser` keeps every member that
  nothing resets. `MaxInterns` bounds the calls.
- `doc`, `log`: history variables. They record the delivered document and its
  events, which the properties compare the DMR against.

**Structure**

Every handler is an operator from a record `r = [p |-> parser, d |-> dmr]` to
a new record. The C++ code runs sequentially inside one callback, so the
composition of these operators is exactly what the callback does.

- Each `process_*` helper returns `Res(r, ok)`, its new state and its boolean
  result.
- `FatalError` is `dmr_fatal_error`: it pushes `parser_error` and counts a
  message. `CheckRequired` is `check_required_attribute` over a set of
  required XML attributes, and `TransferXmlNs` is `transfer_xml_ns` (a map
  insert keeps an existing prefix).
- `CleanupSlots` is what `cleanup_parse` resets: `d_enum_def` always,
  `d_dim_def` only on the throwing path.
- `StartX` and `EndX` are the switch cases of `dmr_start_element` and
  `dmr_end_element`.
- The action `StartXSt` or `EndXSt` is the callback in the states that case
  serves. It takes one event from the source and applies the handler.
- The text, CDATA, warning and fatal-error callbacks, `dmr_end_document` with
  `cleanup_parse`, and the empty-stream exit of `intern()` are actions of
  their own.

**What is abstracted**

- The text of names, values and OtherXML content is reduced to the facts the
  properties tell apart. Names are model values or small strings. OtherXML is a
  sequence of open, close and text tokens carrying their tags, namespaces and
  declared namespaces.
- Only `Int32` among the simple types. The other types follow the same code
  path.
- `get_type`, `is_simple_type`, `is_integer_type`, `is_constructor_type`,
  `D4EnumDef::is_valid_enum_value` and the state-stack accessors are defined
  outside `src/`. They are modelled from their documented behaviour and are
  marked `spec_modelled` in `PROJECT.json`.
- `istringstream >> long long` is modelled on the texts the inputs use: it
  fails on `"x"` and stores 0 when it fails.

**Unreachable code that is not modelled**

- The states `inside_array`, `inside_dimension` and `parser_unknown`: no code
  pushes them.
- The `parser_start` case of the end handler: an end tag is never delivered
  before a start tag.

### `Intern.tla` and `DocumentFeed.tla`: the driver and what it promises

`DocumentFeed` is the abstract specification of a push-parser driver:

- a `text` that never changes;
- `fed`, the prefix handed to the parser so far;
- `ended`, whether the end of the document was signalled.

`Deliver` hands over any longer prefix. `End` signals the end once the whole
text has been handed over. Weak fairness says the driver does not stop early.

`Intern` models `D4ParserSax2::intern(istream&, DMR*)` (lines 1095-1143).

- The stream is a sequence of characters. `pos` counts the characters
  extracted so far, and `io` holds the eofbit and failbit.
- `Getline` is `istream::getline(chars, n)` as the C++ standard defines it:
  - a stream that is not good extracts nothing and sets failbit;
  - a line break is extracted but not stored;
  - `n - 1` stored characters with no line break after them set failbit;
  - the end of the stream sets eofbit, and failbit too when nothing was
    extracted.
- `Chunk` is the `gcount() - 1` bytes passed to libxml2.
- The actions follow the code's control flow: `FirstGetline`, then
  `CreateParser` (`xmlCreatePushParserCtxt`), then `ParseLine` (one pass of
  the `while (f.gcount() > 0)` loop), then `Terminate` (the terminating
  `xmlParseChunk`).

`Lines == INSTANCE DocumentFeed WITH text <- LineText(stream), ended <- terminated`
is the refinement mapping. `LineText` is the stream without its line breaks.
The property `FeedsLines == Lines!FeedSpec` states that intern() hands
libxml2 every line, in order, and then ends the parse.

`Intern` is also composed with libxml2's reading of markup. `Markup(s)` is
the token sequence libxml2 reads from the characters `s`: a `>` ends a tag,
and a line break separates two tokens but is itself ignorable. The property
`DocumentParsed` states that when `intern()` returns normally, libxml2 has
been told the end of the document and reads the same tokens from what it was
fed as from the stream. Dropping a line break joins two tokens; a lost last
character changes one; an empty stream is never fed at all.

`MC_Intern` enumerates streams over `{"a", ">", "\n"}` of at most 5
characters, read through a buffer of `BufSize = 3`. The streams come in
groups:

- `FittingLines`: every line ends in a break and fits the buffer;
- `NoFinalBreak`: the last line has no break;
- `LongLines`: some line does not fit;
- `UnterminatedLines`: the union of the two;
- `EveryStream`: all of them and the empty stream.

### `ResponseBuilder.tla`: the DAP2 response writer

**Variables**

- `ce` and `timeout`: `d_ce`, and whether `d_timeout > 0`.
- `n`, `req` and `status`: the requests, the method and parameters of the
  current one, and how each request ended.
- `out`: the tokens written to each request's stream.
- `dataset`: `d_dataset`, set by `set_dataset_name` and reset by
  `initialize`; `Datasets` is the set of names it may be given.
- `handler` and `alarm`: the stream of the registered `AlarmHandler`, and
  whether a SIGALRM is pending. `alarmBy` is the request that set the pending
  alarm.
- `alarmLog`: a history variable. Each firing of the alarm records the
  stream it wrote into, the request that set it, and the request running.
- `fddsLive`: DDS objects made by `eval_function_clauses` and not yet deleted.

**Structure**

- Each `send_*` method is an operator (`SendData`, `SendDataDdx` and so on).
  It gives the sequence of steps its code performs for the request's
  parameters, in the code's order.
- `StartRequest` chooses a method and its parameters. The parameters are:
  - `with_mime_headers`;
  - `constrained`;
  - whether the DDS is over the response limit;
  - whether the DDS the functions return is over the limit.
- `establish_timeout` is two steps, as in the code: `RegisterHandler`
  (`register_handler`, lines 144-147) and `SetAlarm` (`alarm(d_timeout)`,
  line 148). A signal can arrive between them.
- `SetDatasetName` is `set_dataset_name` between requests.
- One action per other kind of step: `ParseConstraint`,
  `CheckFunctional`, `CheckResponseLimit`, `EvalFunctionClauses`, `Write` (a
  MIME part), `SerializeVar` (which may throw), `DeleteFunctionDds`,
  `NotImplemented` and `Return`.
- The MIME header writers are `MimeText`, `MimeBinary` and `MimeMultipart`
  (`set_mime_text`, `set_mime_binary`, `set_mime_multipart`): each writes its
  header token when `with_mime_headers` is set.
- `Throw` ends the method. Only `send_data_ddx`'s catch block deletes the
  function DDS.
- `AlarmFires` is the `AlarmHandler`. Its code is not under `src/`, so it is
  modelled from the `@todo` at `establish_timeout` (lines 134-139): it writes
  an Error object to the stream it was registered with. It is also taken to
  end the request in progress.
- `Timeouts` limits the values `set_timeout` may be given.

**What is abstracted**

The text of headers, DDS, DDX and data is reduced to tokens.

### `MC_D4ParserSax2.tla`: the model-checking instance

The MC module defines the start-tag sets, one per question. A start tag is
`[tag, ns, name, type, xmlns]`. Its `type` field is the XML attribute that
matters for the tag: the Attribute type, the Dimension size, the Enumeration
base type or the EnumConst value. `Absent` stands for a missing XML attribute.

## 3. Runs

All runs use `Spec`.

- The parser runs check deadlock. The parser stops only when `intern()`
  returns; that is the state `phase = "done"`, where `Finished` stutters.
- The `Intern` runs set `CHECK_DEADLOCK FALSE`, because `intern()` returns.
- The `ResponseBuilder` runs set `CHECK_DEADLOCK FALSE`, because a server
  handles finitely many requests and then stops.

| Run | cfg | Expect | Properties | What it shows |
|---|---|---|---|---|
| variables | `MC_vars.cfg` | pass | TypeOK, NoSilentError, TreeMirrorsDocument | Over Groups, Structures, Int32 variables, attributes, containers, values, missing names, warnings and fatal errors: a normal return carries no diagnostic and the DMR's variable and Group tree is exactly the document's. 5.4M states, about 2 minutes. |
| definitions | `MC_defs.cfg` | pass | EnumsMirrorDocument | Over Dimension and Enumeration declarations with bad base types and constants that do not parse or do not fit: a normal return yields exactly the declared enumerations and constants, the single `d_enum_def` slot being cleared after each commit. `LeafTags` keeps elements out of a Dimension: with a child element there, the Dimension end handler pops `parser_error` (`MC_dim_child.cfg`) and an Enumeration nested in the Dimension is lost while the parse succeeds, so this run would only repeat that finding. 3.2M states. |
| otherxml | `MC_otherxml.cfg` | pass | OtherXmlRoundTrip | OtherXML attributes holding foreign elements and text, with no namespace declarations, are committed exactly, also by a second `intern()` on the same object after a successful first one (`MaxInterns = 2`, `ReuseAfter = {"ok"}`). 1.9M states, about 25 s. |
| parser_reuse | `MC_reuse.cfg` | violation | OtherXmlRoundTrip | A first parse fails inside OtherXML content; `intern()` on the same object then commits the first document's stale foreign start tag into the second document's OtherXML attribute. |
| group_attributes | `MC_group_attr.cfg` | violation | AttrValuesInPlace | A Group's end does not pop its attribute table. The Dataset's later attributes go into the Group. |
| otherxml_null_uri | `MC_null_uri.cfg` | violation | ReturnsOrThrows | An `Attribute` end tag in no namespace inside OtherXML: the comparison with a null URI faults, and `intern()` neither returns nor throws. |
| dimension_sizes | `MC_dim_size.cfg` | violation | DimensionsMirrorDocument | `size="x"` is committed as 0 and `size="-1"` as -1; the spec asks for a non-negative integer. |
| intern_lines | `MC_intern_lines.cfg` | pass | FeedsLines | For lines that end in a break and fit the buffer, `intern()` refines `DocumentFeed` over the text without line breaks. |
| intern_document | `MC_intern_document.cfg` | violation | DocumentParsed | Over every stream, the empty one included: `intern()` returns normally on an empty stream without libxml2 reading any document. |
| rb_pass | `MC_rb_pass.cfg` | pass | RejectBeforeOutput, FunctionDdsFreed | Two requests to every method but `send_data`, with any constraint, timeout, throw and alarm. Refusals write nothing, and the function DDS is always deleted. 896k states, about 40 s. |
| rb_throw | `MC_rb_throw.cfg` | violation | ThrowReleasesResponse | Over `send_data` and `send_data_ddx`: `send_data` leaks `fdds` when serializing throws. |
| rb_alarm | `MC_rb_alarm.cfg` | violation | AlarmHitsOwnRequest | An alarm that is never cancelled writes an Error object into a finished request's stream and ends the request running. The reported trace is the first case. The model also lets request 1's alarm fire between request 2's `register_handler` and its `alarm()`, into request 2's stream; TLC reports the shorter trace, so that case is not in its output. |

### Further counterexamples

The run list in `PROJECT.json` is kept to twelve questions. The
configurations below are not in it. Each one checks a property that the code
violates, and TLC finds the violation in a few seconds:

| Configuration | Module | Property | What it shows |
|---|---|---|---|
| `MC_nested_dim.cfg` | MC_D4ParserSax2 | DimensionsMirrorDocument | A Dimension of a nested Group goes into the root's table. |
| `MC_nested_attr.cfg` | MC_D4ParserSax2 | AttrValuesInPlace | An Attribute nested in a plain Attribute overwrites `dods_attr_name`. |
| `MC_otherxml_nested.cfg` | MC_D4ParserSax2 | OtherXmlRoundTrip | A DAP `Attribute` end tag inside OtherXML ends the content whatever the depth. |
| `MC_otherxml_ns.cfg` | MC_D4ParserSax2 | OtherXmlRoundTrip | `namespace_table` keeps the first URI of a prefix for the rest of the document. |
| `MC_empty.cfg` | MC_D4ParserSax2 | SuccessMeansDataset | An empty stream: `intern()` returns normally without a Dataset. |
| `MC_intern_long.cfg` | MC_Intern | FeedsLines | A line that fills the buffer loses a character; failbit then ends the loop and the rest is never parsed. |
| `MC_intern_unterminated.cfg` | MC_Intern | FeedsLines | A last line without a break loses its last character (`gcount() - 1`). |
| `MC_intern_join.cfg` | MC_Intern | DocumentParsed | Over lines that all fit: `a\na\n` reaches libxml2 as `aa`, one token instead of two. |
| `MC_dim_child.cfg` | MC_D4ParserSax2 | NoSilentError | A Dimension with a child element: `dmr_end_element` pops `parser_error`, and `intern()` returns normally with a diagnostic in `error_msg`. |
| `MC_rb_multipart.cfg` | MC_ResponseBuilder | ThrowReleasesResponse | Over `send_data_ddx` alone: a throw while serializing leaves the multipart document without its closing boundary. |
| `MC_rb_limit.cfg` | MC_ResponseBuilder | SentWithinLimit | The limit is checked on the request's DDS, not on the DDS the functions return. |

### Bounds

- **`MaxElems = 4` elements** (3 for the small violation runs). This is
  enough for every nesting the handlers tell apart. Examples: a Dataset with a
  Group holding a variable; a Structure holding a variable; two sibling
  declarations; an Attribute with a value; an Attribute inside a container or
  inside another Attribute; two OtherXML attributes in sequence.
- **`MaxOther = 1`** text or diagnostic event per document in the passing
  runs. Every error path reacts to its first event, so one is enough.
- **`LeafTags`** stops the source from nesting elements inside a Dimension
  (an empty element in the grammar). `MC_dim_child.cfg` drops that
  restriction.
- **`MaxInterns = 2`** calls of `intern()` on one object in `otherxml` and
  `parser_reuse`, 1 elsewhere. Two calls are what it takes for one call to
  see what another left behind.
- **`DapInOtherXml`** is FALSE in the passing OtherXML run: there, only
  foreign elements occur inside OtherXML.
- **`BufSize = 3`, streams of at most 5 characters.** The buffer stands for
  `size = 1024`. Getline's cases depend only on how a line's length compares
  with `BufSize - 1`, so every case occurs:
  - lines shorter than the limit, and lines exactly at it;
  - an empty line, and consecutive breaks;
  - a line one or two characters too long;
  - a last line with and without a break.
- **`MaxRequests = 2`, `NVars = 2`.** Two requests are needed for a first
  request's alarm to meet the second. Two variables let a throw fall between
  two serialized variables. `Timeouts` is `{FALSE}` in `rb_throw` and
  `rb_multipart`: their violations then come from a throw in the code, not
  from the alarm.

### Mutants

Each property of a passing run has a mutant in `PROJECT.json`. A mutant is a
plausible bug in the code the property is about, and TLC finds the property
violated:

- `cleanup_parse` that ignores the parser state;
- a simple-type variable added to the root instead of its parent;
- an enumeration slot that is not cleared;
- `other_xml` that is not cleared after a commit (`OtherXmlEnd`);
- a wrong state pushed for a Structure;
- `getline` that takes a line of exactly `n - 1` characters to overflow;
- `send_data_ddx` that checks the response limit after the headers;
- `send_data_ddx` without its catch block.

### Fairness

- **D4ParserSax2: none.** Its properties are safety properties of the
  finished parse. libxml2 calls back synchronously inside `xmlParseChunk`, so
  the parser has no concurrency of its own. Its interleavings are those of
  the events in the document, and the environment enumerates them.
- **Intern: `WF_vars(Next)`.** `intern()` runs on the caller's thread until
  it returns, and none of its steps waits. `DocumentFeed` assumes the same
  fairness for any driver, so that a driver that stopped before signalling
  the end would violate the refinement.
- **ResponseBuilder: `WF_vars(Step)`.** Only the thread serving a request is
  fair: once a `send_*` method is called, it runs until it returns or throws.
  New requests and the alarm get no fairness. A server need not take another
  request, and the process may end before `alarm()` goes off. No run checks a
  liveness property of ResponseBuilder: every `send_*` is a finite list of
  steps, none of which waits, so that a request ends would hold by the shape
  of the model.

## 4. Findings

The violation runs and the further counterexamples above document
seventeen disagreements. The first ten are in the parser. Four are with the
spec (dimensions belong to the declaring Group; a size is a non-negative
integer; `intern()` returns a DMR or throws; the parse state lives no longer
than one `intern()` call, yet `cleanup_parse` resets only the builder slots,
so `other_xml`, its depth and the stacks of a failed parse carry over into
the next call on the same object). Six are with the code's own intent:

- `dmr_fatal_error` must make the parse fail, but the dim_def end handler does
  not stop after an error.
- `process_group` pushes an attribute table that no handler pops.
- Nested Attributes are accepted, but they share one name slot.
- `namespace_table` accumulates.
- The OtherXML end test ignores `other_xml_depth`.
- The OtherXML end test compares `root_ns` with a URI that is null for an
  element in no namespace; line 518 guards the same pointer.

- `intern()` passes `gcount() - 1` bytes of every line. A last line without a
  line break loses a character. A line of 1023 or more characters loses one,
  and the failbit that `getline` sets then silently drops the rest of the
  document.
- `intern()` never passes the line breaks, so a tag split across lines is
  joined (`<Dataset` + `name=...` becomes `<Datasetname=...`).
- `send_data` has no catch block around `dataset_constraint`, so it leaks the
  DDS that the server functions return. `send_data_ddx` has one.
- A throw after `send_data_ddx`'s headers leaves the multipart document
  unterminated.
- `alarm()` is never cancelled. Its handler writes into the stream of a
  request that has already finished, and `establish_timeout` leaves a window
  between `register_handler` and `alarm()` in which the old alarm hits the
  new request.
- The response limit is checked on the wrong DDS when there are function
  clauses.

## 5. Plan and what is not modelled

1. **Compose `Intern` with the parser's callbacks.** `DocumentParsed`
   composes the driver with libxml2's tokenising of the markup; feeding the
   parser's events from those tokens would show the joined lines as parse
   errors, at the cost of a character-level XML reader in the model.
2. **Abstract parser spec.** A `DMRGrammar` module: a document is accepted
   iff it conforms to the DMR grammar, and the result is its tree.
   `D4ParserSax2` is then checked to implement it for conforming documents
   with `INSTANCE ... WITH`.
3. **ResponseBuilder.** The limit question (`MC_rb_limit.cfg`) as a run of
   its own if the run list is reorganised. `set_mime_html`,
   `set_mime_error` and the boundary writers have no caller in `src/` that
   the models reach, and only format text.

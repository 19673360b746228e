--------------------------- MODULE ResponseBuilder ---------------------------
(***************************************************************************)
(* libdap's DAP2 response writer (src/ResponseBuilder.cc).  A server uses  *)
(* one ResponseBuilder for a sequence of requests: between requests it     *)
(* sets the constraint expression and the timeout; each request calls one *)
(* send_* method, which writes a MIME document to that request's stream.   *)
(* send_data and send_data_ddx arm a SIGALRM timeout (establish_timeout)   *)
(* whose handler writes an Error object to the stream it was registered    *)
(* with; nothing ever cancels the alarm.                                   *)
(*                                                                         *)
(* Each send_* method is an operator giving the steps its code performs    *)
(* for the request's parameters, in order; one action per kind of step     *)
(* performs the next one.  A step may throw (a constraint that does not    *)
(* parse, a function call in a metadata request, a request over the        *)
(* response limit, a variable that fails to serialize); the alarm may go   *)
(* off between any two steps.  The text written is abstracted to tokens    *)
(* naming the parts of the MIME document.                                  *)
(***************************************************************************)
EXTENDS Naturals, Sequences, SequencesExt, FiniteSets

CONSTANTS
  MaxRequests, \* requests the server handles
  NVars,       \* variables of the DDS in the projection (send_p())
  Ops,         \* the send_* methods requests may call
  Timeouts,    \* whether a set_timeout() value may be > 0 (BOOLEAN) or not
  Datasets     \* dataset names set_dataset_name may be given

ASSUME MaxRequests \in Nat \ {0} /\ NVars \in Nat /\ Timeouts \subseteq BOOLEAN

Reqs == 1..MaxRequests

\* Constraint expressions, by what the code does with them: none, a
\* projection, one that does not parse, one with function calls.
CEs == {"", "proj", "bad", "func"}

\* The parts of a response a step may write; "error" is the Error object
\* the alarm handler writes.
Tokens == {"hdr_text", "hdr_binary", "hdr_multipart", "das", "dds", "ddx",
           "dmr", "ddx_boundary", "data_boundary", "var", "close", "error"}

VARIABLES
  ce,        \* d_ce
  dataset,   \* d_dataset
  timeout,   \* d_timeout > 0
  n,         \* requests started so far; request n is the latest
  req,       \* the latest request: its method, parameters and steps left
  status,    \* for each request: running, ok, thrown (and where), timed_out
  out,       \* for each request: the tokens written to its stream
  handler,   \* the stream the registered AlarmHandler writes to (0: none)
  alarm,     \* a SIGALRM is pending
  alarmBy,   \* the request whose alarm() call set the pending alarm
  alarmLog,  \* each SIGALRM: the stream written, who set it, who was running
  fddsLive   \* DDS objects made by eval_function_clauses and not deleted

vars == <<ce, dataset, timeout, n, req, status, out, handler, alarm, alarmBy,
          alarmLog, fddsLive>>

\* What a step leaves alone that no step of a request touches.
config == <<ce, dataset, timeout>>

Running == n > 0 /\ status[n].st = "running"
Idle    == ~Running

---------------------------------------------------------------------------
(* The steps of each send_* method.                                        *)

When(c, s)   == IF c THEN s ELSE <<>>
Serialize    == [i \in 1..NVars |-> "var"]

\* The MIME headers, written when with_mime_headers is true: an HTTP/1.0
\* header for a text, or a binary, document, and an HTTP/1.1 header for a
\* multipart/related document.
MimeText(p)      == When(p.mime, <<"hdr_text">>)
MimeBinary(p)    == When(p.mime, <<"hdr_binary">>)
MimeMultipart(p) == When(p.mime, <<"hdr_multipart">>)

SendDas(p) == MimeText(p) \o <<"das">>

SendDds(p) ==
  When(p.constrained, <<"parse">>) \o <<"functional">> \o MimeText(p)
    \o <<"dds">>

\* dataset_constraint: the constrained DDS, then every projected variable.
DatasetConstraint == <<"dds">> \o Serialize

SendData(p) ==
  <<"register", "alarm", "parse", "limit">> \o When(p.ce = "func", <<"eval">>)
    \o MimeBinary(p) \o DatasetConstraint \o When(p.ce = "func", <<"free">>)

SendDdx(p) ==
  When(p.ce # "", <<"parse">>) \o <<"functional">> \o MimeText(p) \o <<"ddx">>

\* dataset_constraint_ddx: the DDX part, then the data part.
DatasetConstraintDdx ==
  <<"ddx_boundary", "ddx", "data_boundary">> \o Serialize

\* Mutant of SendDataDdx: the response limit checked after the headers.
SendDataDdxLateLimit(p) ==
  <<"register", "alarm", "parse">> \o When(p.ce = "func", <<"eval">>)
    \o MimeMultipart(p) \o <<"limit">> \o DatasetConstraintDdx
    \o When(p.ce = "func", <<"free">>) \o When(p.mime, <<"close">>)

SendDataDdx(p) ==
  <<"register", "alarm", "parse", "limit">> \o When(p.ce = "func", <<"eval">>)
    \o MimeMultipart(p) \o DatasetConstraintDdx
    \o When(p.ce = "func", <<"free">>) \o When(p.mime, <<"close">>)

SendDmr(p) == When(p.ce # "", <<"parse">>) \o <<"functional">> \o <<"dmr">>

SendDap4Data(p) == <<"unimplemented">>

Plan(op, p) ==
  CASE op = "das"       -> SendDas(p)
    [] op = "dds"       -> SendDds(p)
    [] op = "data"      -> SendData(p)
    [] op = "ddx"       -> SendDdx(p)
    [] op = "data_ddx"  -> SendDataDdx(p)
    [] op = "dmr"       -> SendDmr(p)
    [] op = "dap4_data" -> SendDap4Data(p)

---------------------------------------------------------------------------
(* Actions.                                                                *)

\* initialize(): d_ce = "", d_timeout = 0.
\* What the configuration methods leave alone.
requestVars == <<n, req, status, out, handler, alarm, alarmBy, alarmLog, fddsLive>>

Initialize ==
  /\ Idle
  /\ ce' = "" /\ dataset' = "" /\ timeout' = FALSE
  /\ UNCHANGED requestVars

SetCe ==
  /\ Idle
  /\ \E c \in CEs : ce' = c
  /\ UNCHANGED <<dataset, timeout>> /\ UNCHANGED requestVars

\* set_dataset_name: d_dataset only names the file whose modification
\* time goes into the Last-Modified header.
SetDatasetName ==
  /\ Idle
  /\ \E d \in Datasets : dataset' = d
  /\ UNCHANGED <<ce, timeout>> /\ UNCHANGED requestVars

SetTimeout ==
  /\ Idle
  /\ \E t \in Timeouts : timeout' = t
  /\ UNCHANGED <<ce, dataset>> /\ UNCHANGED requestVars

\* A request calls a send_* method.  Its parameters: with_mime_headers,
\* send_dds's `constrained', and whether the request size of the DDS, and
\* of the DDS the functions return, is over the response limit.  p.ce is
\* the constraint the evaluator acts on: an unconstrained send_dds parses
\* nothing, so the evaluator has no function clauses.
StartRequest ==
  /\ Idle
  /\ n < MaxRequests
  /\ \E op \in Ops, mime, constrained, big, fbig \in BOOLEAN :
       LET p == [mime |-> mime, constrained |-> constrained, big |-> big,
                 fbig |-> fbig,
                 ce |-> IF op = "dds" /\ ~constrained THEN "" ELSE ce]
       IN req' = [op |-> op, p |-> p, plan |-> Plan(op, p), fdds |-> FALSE]
  /\ n' = n + 1
  /\ status' = [status EXCEPT ![n + 1] = [st |-> "running", at |-> "none"]]
  /\ UNCHANGED <<config, out, handler, alarm, alarmBy, alarmLog, fddsLive>>

Next_(kind) == Running /\ req.plan # <<>> /\ Head(req.plan) = kind

\* The step is done; the request goes on.
Done(r) == r' = [r EXCEPT !.plan = Tail(@)]

\* Mutant of Throw: send_data_ddx without its catch block.
ThrowNoCatch(at) ==
  /\ status' = [status EXCEPT ![n] = [st |-> "thrown", at |-> at]]
  /\ fddsLive' = fddsLive
  /\ req' = [req EXCEPT !.plan = <<>>, !.fdds = FALSE]

\* The step throws out of the send_* method.  Only send_data_ddx catches,
\* to delete the DDS the functions made, and rethrows.
Throw(at) ==
  /\ status' = [status EXCEPT ![n] = [st |-> "thrown", at |-> at]]
  /\ fddsLive' = IF req.op = "data_ddx" /\ req.fdds THEN fddsLive - 1 ELSE fddsLive
  /\ req' = [req EXCEPT !.plan = <<>>, !.fdds = FALSE]

\* establish_timeout, first half: with d_timeout > 0, register an
\* AlarmHandler for this stream and delete the old one.  A pending alarm
\* set by an earlier request stays pending.
RegisterHandler ==
  /\ Next_("register")
  /\ IF timeout THEN handler' = n ELSE UNCHANGED handler
  /\ Done(req)
  /\ UNCHANGED <<config, n, status, out, alarm, alarmBy, alarmLog, fddsLive>>

\* establish_timeout, second half: alarm(d_timeout), which replaces any
\* pending alarm.
SetAlarm ==
  /\ Next_("alarm")
  /\ IF timeout THEN alarm' = TRUE /\ alarmBy' = n ELSE UNCHANGED <<alarm, alarmBy>>
  /\ Done(req)
  /\ UNCHANGED <<config, n, status, out, handler, alarmLog, fddsLive>>

\* eval.parse_constraint(d_ce, dds): throws if the expression does not parse.
ParseConstraint ==
  /\ Next_("parse")
  /\ IF req.p.ce = "bad" THEN Throw("parse") ELSE Done(req) /\ UNCHANGED <<status, fddsLive>>
  /\ UNCHANGED <<config, n, out, handler, alarm, alarmBy, alarmLog>>

\* Metadata responses refuse function calls.
CheckFunctional ==
  /\ Next_("functional")
  /\ IF req.p.ce = "func" THEN Throw("functional")
     ELSE Done(req) /\ UNCHANGED <<status, fddsLive>>
  /\ UNCHANGED <<config, n, out, handler, alarm, alarmBy, alarmLog>>

\* get_response_limit() != 0 && get_request_size(true) > limit: throw.
CheckResponseLimit ==
  /\ Next_("limit")
  /\ IF req.p.big THEN Throw("limit") ELSE Done(req) /\ UNCHANGED <<status, fddsLive>>
  /\ UNCHANGED <<config, n, out, handler, alarm, alarmBy, alarmLog>>

\* eval.eval_function_clauses(dds) returns a new DDS.
EvalFunctionClauses ==
  /\ Next_("eval")
  /\ fddsLive' = fddsLive + 1
  /\ req' = [req EXCEPT !.plan = Tail(@), !.fdds = TRUE]
  /\ UNCHANGED <<config, n, status, out, handler, alarm, alarmBy, alarmLog>>

\* A part of the response is written.
Write ==
  /\ Running /\ req.plan # <<>>
  /\ Head(req.plan) \in Tokens \ {"var", "error"}
  /\ out' = [out EXCEPT ![n] = Append(@, Head(req.plan))]
  /\ Done(req)
  /\ UNCHANGED <<config, n, status, handler, alarm, alarmBy, alarmLog, fddsLive>>

\* BaseType::serialize of a projected variable; a read may fail and throw.
SerializeVar ==
  /\ Next_("var")
  /\ \/ out' = [out EXCEPT ![n] = Append(@, "var")] /\ Done(req)
        /\ UNCHANGED <<status, fddsLive>>
     \/ Throw("serialize") /\ UNCHANGED out
  /\ UNCHANGED <<config, n, handler, alarm, alarmBy, alarmLog>>

\* delete fdds.
DeleteFunctionDds ==
  /\ Next_("free")
  /\ fddsLive' = fddsLive - 1
  /\ req' = [req EXCEPT !.plan = Tail(@), !.fdds = FALSE]
  /\ UNCHANGED <<config, n, status, out, handler, alarm, alarmBy, alarmLog>>

\* send_dap4_data throws InternalErr at once.
NotImplemented ==
  /\ Next_("unimplemented")
  /\ Throw("unimplemented")
  /\ UNCHANGED <<config, n, out, handler, alarm, alarmBy, alarmLog>>

\* The send_* method returns normally.
Return ==
  /\ Running /\ req.plan = <<>>
  /\ status' = [status EXCEPT ![n].st = "ok"]
  /\ UNCHANGED <<config, n, req, out, handler, alarm, alarmBy, alarmLog, fddsLive>>

\* SIGALRM: the AlarmHandler writes an Error object to the stream it was
\* registered with and the request in progress, if any, ends with it.
AlarmFires ==
  /\ alarm
  /\ alarm' = FALSE
  /\ out' = [out EXCEPT ![handler] = Append(@, "error")]
  /\ alarmLog' = Append(alarmLog, [stream |-> handler, setBy |-> alarmBy,
                                    running |-> IF Running THEN n ELSE 0])
  /\ IF Running
     THEN /\ status' = [status EXCEPT ![n] = [st |-> "timed_out", at |-> "alarm"]]
          /\ fddsLive' = IF req.op = "data_ddx" /\ req.fdds THEN fddsLive - 1 ELSE fddsLive
          /\ req' = [req EXCEPT !.plan = <<>>, !.fdds = FALSE]
     ELSE UNCHANGED <<status, fddsLive, req>>
  /\ UNCHANGED <<config, n, handler, alarmBy>>

Init ==
  /\ ce = "" /\ dataset = "" /\ timeout = FALSE
  /\ n = 0
  /\ req = [op |-> "none", p |-> [mime |-> FALSE, constrained |-> FALSE,
                                  big |-> FALSE, fbig |-> FALSE, ce |-> ""],
            plan |-> <<>>, fdds |-> FALSE]
  /\ status = [r \in Reqs |-> [st |-> "none", at |-> "none"]]
  /\ out = [r \in Reqs |-> <<>>]
  /\ handler = 0
  /\ alarm = FALSE
  /\ alarmBy = 0
  /\ alarmLog = <<>>
  /\ fddsLive = 0

Step ==
  \/ RegisterHandler \/ SetAlarm \/ ParseConstraint \/ CheckFunctional
  \/ CheckResponseLimit \/ EvalFunctionClauses \/ Write \/ SerializeVar
  \/ DeleteFunctionDds \/ NotImplemented \/ Return

Next ==
  \/ Initialize \/ SetCe \/ SetDatasetName \/ SetTimeout \/ StartRequest \/ Step \/ AlarmFires

\* The thread serving a request runs until the send_* method returns or
\* throws; the server need not take another request and the alarm need not
\* go off before the process ends.
Spec == Init /\ [][Next]_vars /\ WF_vars(Step)


---------------------------------------------------------------------------
(* Properties.                                                             *)

\* The tokens of a response other than an alarm's Error object.
Response(r) == SelectSeq(out[r], LAMBDA t : t # "error")

\* A request refused by a check made before the response starts (a
\* constraint that does not parse, a function call in a metadata request,
\* a request over the response limit, an unimplemented method) has written
\* nothing to its stream, so the caller can still send a proper error
\* response (the checks of send_dds, send_data, send_ddx, send_data_ddx and
\* send_dmr all come before their MIME headers).
RejectBeforeOutput ==
  \A r \in Reqs :
    status[r].st = "thrown" /\ status[r].at \in {"parse", "functional", "limit",
                                                  "unimplemented"}
      => Response(r) = <<>>

\* Between requests, every DDS that eval_function_clauses made has been
\* deleted, whether the send_* method returned, threw or timed out.
FunctionDdsFreed == Idle => fddsLive = 0

\* A send_* call that ends by a throw releases what it took on for the
\* response: the DDS that eval_function_clauses returned has been deleted,
\* and a multipart document whose headers it wrote ends with its closing
\* boundary (send_data has no catch block around dataset_constraint;
\* send_data_ddx's catch block deletes the DDS and rethrows without
\* closing the document).
ThrowReleasesResponse ==
  n > 0 /\ status[n].st = "thrown" =>
    /\ fddsLive = 0
    /\ Response(n) # <<>> /\ Head(Response(n)) = "hdr_multipart"
         => Last(Response(n)) = "close"

\* Every SIGALRM hits the request whose establish_timeout set it, while
\* that request is running: the Error goes into that request's stream and
\* ends that request.  (The AlarmHandler keeps the stream it was
\* registered with, alarm() is never cancelled, and the handler is
\* replaced before alarm() is called again.)
AlarmHitsOwnRequest ==
  \A i \in 1..Len(alarmLog) :
    alarmLog[i].stream = alarmLog[i].setBy /\ alarmLog[i].running = alarmLog[i].setBy

\* A data response that was sent is within the response limit: the DDS
\* whose variables were serialized (the one the functions returned, when
\* there are any) is not over it.
SentWithinLimit ==
  n > 0 /\ status[n].st = "ok" /\ req.op \in {"data", "data_ddx"}
    => ~(IF req.p.ce = "func" THEN req.p.fbig ELSE req.p.big)

=============================================================================

------------------------------- MODULE Intern -------------------------------
(***************************************************************************)
(* D4ParserSax2::intern(istream &f, DMR *dest) (src/D4ParserSax2.cc): the      *)
(* driver that reads the stream line by line with istream::getline into a  *)
(* buffer of BufSize bytes and hands each line to the libxml2 push parser  *)
(* (xmlCreatePushParserCtxt for the first, xmlParseChunk for the rest),    *)
(* passing gcount() - 1 bytes, and finally signals the end of the          *)
(* document with a terminating xmlParseChunk.  The stream is a sequence    *)
(* of characters; libxml2 is abstracted to the text it receives.           *)
(***************************************************************************)
EXTENDS Naturals, Sequences, SequencesExt

CONSTANTS
  BufSize,  \* `const int size = 1024': getline stores at most BufSize - 1
  Streams   \* the stream contents intern() may be given

NL == "\n"

ASSUME BufSize \in Nat /\ BufSize >= 2

VARIABLES
  stream,     \* the stream's content
  pos,        \* characters extracted from the stream so far
  io,         \* the stream state bits: [eof, fail]
  buf,        \* the characters getline stored in `chars'
  gcount,     \* f.gcount() after the last getline
  fed,        \* the text handed to libxml2 so far
  terminated, \* whether the terminating xmlParseChunk has been made
  pc          \* where intern() is

vars == <<stream, pos, io, buf, gcount, fed, terminated, pc>>

\* The number of characters of s before its first line break.
LineLen(s) == LET i == SelectInSeq(s, LAMBDA c : c = NL)
              IN IF i = 0 THEN Len(s) ELSE i - 1

\* Mutant of Getline: a line of exactly n - 1 characters is taken to
\* overflow the buffer.
GetlineOffByOne(s, p, bits, n) ==
  LET rest == SubSeq(s, p + 1, Len(s))
      L    == LineLen(rest)
  IN CASE bits.eof \/ bits.fail ->
            [count |-> 0, stored |-> <<>>, pos |-> p,
             bits |-> [bits EXCEPT !.fail = TRUE]]
       [] L < n - 1 /\ L < Len(rest) ->
            [count |-> L + 1, stored |-> SubSeq(rest, 1, L), pos |-> p + L + 1,
             bits |-> bits]
       [] L < n - 1 ->
            [count |-> L, stored |-> rest, pos |-> p + L,
             bits |-> [eof |-> TRUE, fail |-> L = 0]]
       [] OTHER ->
            [count |-> n - 1, stored |-> SubSeq(rest, 1, n - 1), pos |-> p + n - 1,
             bits |-> [bits EXCEPT !.fail = TRUE]]

\* istream::getline(chars, n) from position p of the stream: what it
\* extracts, stores and sets.  A stream that is not good() extracts nothing
\* and sets failbit; a line break is extracted but not stored; n - 1 stored
\* characters not followed by a line break set failbit; reaching the end of
\* the stream sets eofbit, and failbit too when nothing was extracted.
Getline(s, p, bits, n) ==
  LET rest == SubSeq(s, p + 1, Len(s))
      L    == LineLen(rest)
  IN CASE bits.eof \/ bits.fail ->
            [count |-> 0, stored |-> <<>>, pos |-> p,
             bits |-> [bits EXCEPT !.fail = TRUE]]
       [] L <= n - 1 /\ L < Len(rest) ->
            [count |-> L + 1, stored |-> SubSeq(rest, 1, L), pos |-> p + L + 1,
             bits |-> bits]
       [] L <= n - 1 ->
            [count |-> L, stored |-> rest, pos |-> p + L,
             bits |-> [eof |-> TRUE, fail |-> L = 0]]
       [] OTHER ->
            [count |-> n - 1, stored |-> SubSeq(rest, 1, n - 1), pos |-> p + n - 1,
             bits |-> [bits EXCEPT !.fail = TRUE]]

\* The bytes of `chars' passed to libxml2: gcount() - 1 of them.
Chunk(b, count) == SubSeq(b, 1, count - 1)

\* Perform f.getline(chars, size) and record its results.
ReadLine ==
  LET g == Getline(stream, pos, io, BufSize)
  IN /\ pos' = g.pos
     /\ io' = g.bits
     /\ buf' = g.stored
     /\ gcount' = g.count

\* The first getline; intern() does nothing more when it read nothing.
FirstGetline ==
  /\ pc = "start"
  /\ ReadLine
  /\ pc' = IF gcount' > 0 THEN "create" ELSE "returned"
  /\ UNCHANGED <<stream, fed, terminated>>

\* xmlCreatePushParserCtxt with the first line, then the next getline.
CreateParser ==
  /\ pc = "create"
  /\ fed' = Chunk(buf, gcount)
  /\ ReadLine
  /\ pc' = "loop"
  /\ UNCHANGED <<stream, terminated>>

\* while (f.gcount() > 0): xmlParseChunk with the line, then getline.
ParseLine ==
  /\ pc = "loop"
  /\ gcount > 0
  /\ fed' = fed \o Chunk(buf, gcount)
  /\ ReadLine
  /\ UNCHANGED <<stream, terminated, pc>>

\* The loop ends: the terminating xmlParseChunk, then cleanup_parse.
Terminate ==
  /\ pc = "loop"
  /\ gcount = 0
  /\ terminated' = TRUE
  /\ pc' = "returned"
  /\ UNCHANGED <<stream, pos, io, buf, gcount, fed>>

Init ==
  /\ stream \in Streams
  /\ pos = 0
  /\ io = [eof |-> FALSE, fail |-> FALSE]
  /\ buf = <<>>
  /\ gcount = 0
  /\ fed = <<>>
  /\ terminated = FALSE
  /\ pc = "start"

Next == FirstGetline \/ CreateParser \/ ParseLine \/ Terminate

\* intern() runs on the caller's thread until it returns.
Spec == Init /\ [][Next]_vars /\ WF_vars(Next)

---------------------------------------------------------------------------
(* What intern() promises.                                                 *)

\* The text of the stream without its line breaks.
LineText(s) == SelectSeq(s, LAMBDA c : c # NL)

\* intern() implements DocumentFeed for the stream's lines: libxml2 gets the
\* text of every line, in order, and then the end of the document.
Lines == INSTANCE DocumentFeed WITH text <- LineText(stream), ended <- terminated

\* intern() hands libxml2 exactly the stream's lines, in order, and then
\* terminates the parse (getline, the gcount() - 1 chunk length and the
\* while (gcount() > 0) loop together).
FeedsLines == Lines!FeedSpec

---------------------------------------------------------------------------
(* Intern composed with libxml2's reading of the text.  libxml2 reads     *)
(* markup: a line break separates two characters of a name, a value or a *)
(* text, and is ignorable whitespace after the end of a tag ('>').  The   *)
(* tokens of a text are its runs of characters other than '>' and the     *)
(* line break, and each '>'.                                               *)

Separators == {NL, ">"}

\* Where the tokens of s start.
TokenStarts(s) ==
  SelectSeq([i \in 1..Len(s) |-> i],
            LAMBDA i : s[i] = ">" \/ (s[i] # NL /\ (i = 1 \/ s[i - 1] \in Separators)))

\* The token of s that starts at i.
TokenAt(s, i) ==
  IF s[i] = ">" THEN <<">">>
  ELSE LET rest == SubSeq(s, i, Len(s))
           k    == SelectInSeq(rest, LAMBDA c : c \in Separators)
       IN IF k = 0 THEN rest ELSE SubSeq(rest, 1, k - 1)

Markup(s) == LET st == TokenStarts(s) IN [k \in 1..Len(st) |-> TokenAt(s, st[k])]

\* When intern() returns normally, libxml2 has read the document the stream
\* holds, the same tokens in the same order, and has been told that the
\* document ended, so that whatever is wrong with the document has been
\* reported and makes intern() throw (the first getline's early return,
\* the gcount() - 1 chunk length and the line breaks left out of the
\* chunks, together).
DocumentParsed == pc = "returned" => terminated /\ Markup(fed) = Markup(stream)

=============================================================================

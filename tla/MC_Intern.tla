------------------------------ MODULE MC_Intern ------------------------------
(***************************************************************************)
(* Streams over a letter, the end of a tag ('>') and the line break, of   *)
(* at most MaxLen characters, read through a buffer of BufSize bytes     *)
(* (1024 in the code, scaled down so that lines longer than the buffer    *)
(* are short).                                                             *)
(***************************************************************************)
EXTENDS Intern

MaxLen == 5

AllStreams == BoundedSeq({"a", ">", NL}, MaxLen) \ {<<>>}

\* No run of BufSize characters without a line break.
LinesFit(s) ==
  \A i \in 1..(Len(s) - BufSize + 1) :
    \E j \in i..(i + BufSize - 1) : s[j] = NL

\* Every line ends with a line break and fits in the buffer.
FittingLines == {s \in AllStreams : Last(s) = NL /\ LinesFit(s)}

\* The last line has no line break (the rest as above).
NoFinalBreak == {s \in AllStreams : Last(s) # NL /\ LinesFit(s)}

\* Some line is longer than the buffer holds.
LongLines == {s \in AllStreams : Last(s) = NL /\ ~LinesFit(s)}

\* A line getline ends without extracting a line break: the last line of
\* the stream, or a line the buffer cuts.
UnterminatedLines == NoFinalBreak \cup LongLines

\* Any stream, the empty one (which is good() until read) included.
EveryStream == AllStreams \cup {<<>>}

=============================================================================

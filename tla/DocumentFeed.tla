---------------------------- MODULE DocumentFeed ----------------------------
(***************************************************************************)
(* What the driver of a push parser promises: the text of a document is    *)
(* handed to the parser in order, in pieces of any size, and then the end  *)
(* of the document is signalled, after which nothing more is handed over.  *)
(***************************************************************************)
EXTENDS Sequences, SequencesExt

VARIABLES text,   \* the document, a sequence of characters; never changes
          fed,    \* the characters handed to the parser so far
          ended   \* whether the end of the document has been signalled

feedVars == <<text, fed, ended>>

FeedInit == fed = <<>> /\ ended = FALSE

\* The next piece of the document goes to the parser.
Deliver ==
  /\ ~ended
  /\ \E k \in (Len(fed) + 1)..Len(text) : fed' = SubSeq(text, 1, k)
  /\ UNCHANGED <<text, ended>>

\* The whole document has been handed over; its end is signalled.
End ==
  /\ ~ended
  /\ fed = text
  /\ ended' = TRUE
  /\ UNCHANGED <<text, fed>>

FeedNext == Deliver \/ End

\* The driver does not stop before the end of the document is signalled.
FeedSpec == FeedInit /\ [][FeedNext]_feedVars /\ WF_feedVars(FeedNext)

=============================================================================

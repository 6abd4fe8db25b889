----------------------------- MODULE StudioPage -----------------------------
(***************************************************************************)
(* The studio page of stream 1: it asks for the stream and its keys every  *)
(* two seconds, and shows what the last answer said; "End" and "Rotate"    *)
(* show their own answers until the next one.                              *)
(***************************************************************************)
EXTENDS KeyTable

CONSTANT MaxPolls  \* bound: polls of the page that are not answered yet

VARIABLES
  view,     \* stream, streamKeys
  ending,
  rotating,
  thrown    \* the page is gone: it has thrown

studioPage == <<view, ending, rotating, thrown>>

StudioTypeOK ==
  /\ view \in [loaded : BOOLEAN, live : BOOLEAN, ended : BOOLEAN, keys : SUBSET Nat]
  /\ {ending, rotating, thrown} \subseteq BOOLEAN

Blank == [loaded |-> FALSE, live |-> FALSE, ended |-> FALSE, keys |-> {}]
StudioInit == view = Blank /\ ending = FALSE /\ rotating = FALSE /\ thrown = FALSE

OfStudio == {c \in Calls : call[c].by = "studio"}
Polls == {c \in OfStudio : call[c].op = "detail"}
AskStudio(c, op) ==
  /\ call[c] = Idle
  /\ Request(c, "studio", op, 1)
  /\ UNCHANGED <<rows, failures, uncounted, unseen, view, thrown>>

----------------------------------------------------------------------------
IsEnded == view.ended /\ ~view.live
IsReady == view.loaded /\ ~view.live /\ ~view.ended
ActiveKey == IF view.keys = {} THEN 0 ELSE CHOOSE k \in view.keys : \A j \in view.keys : j <= k

\* Mutant of Due: the page stops asking once the broadcast is over.
UntilEnded == ~IsEnded
Due == TRUE
Poll(c) ==
  /\ Due /\ ~thrown /\ Cardinality(Polls) < MaxPolls
  /\ AskStudio(c, "detail") /\ UNCHANGED <<ending, rotating>>

OffersEnd == view.loaded /\ (view.live \/ IsReady) /\ ~ending
End(c) ==
  /\ OffersEnd
  /\ ending' = TRUE /\ UNCHANGED rotating
  /\ AskStudio(c, "end")

\* "Generate" without a key, "Rotate" with one: the same request.
OffersRotate == view.loaded /\ ~IsEnded /\ ~rotating
Rotate(c) ==
  /\ OffersRotate
  /\ rotating' = TRUE /\ UNCHANGED ending
  /\ AskStudio(c, "rotate")

----------------------------------------------------------------------------
Drawn(c) ==
  CASE call[c].op = "detail" -> [loaded |-> TRUE, live |-> call[c].row.live,
                                 ended |-> call[c].row.ended, keys |-> call[c].saw]
    [] call[c].op = "end" -> [view EXCEPT !.live = FALSE, !.ended = TRUE, !.keys = {}]
    [] call[c].op = "rotate" -> [view EXCEPT !.keys = call[c].saw]

Leave(c) ==
  /\ call' = [call EXCEPT ![c] = Idle]
  /\ ending' = (ending /\ call[c].op # "end")
  /\ rotating' = (rotating /\ call[c].op # "rotate")
  /\ UNCHANGED <<rows, failures, uncounted, unseen>>

StudioAnswered(c) ==
  /\ c \in OfStudio /\ call[c].at = "answered"
  /\ view' = (IF thrown THEN view ELSE Drawn(c))
  /\ Leave(c) /\ UNCHANGED thrown

\* A toast, or for a poll nothing; what is shown stays.  When the first poll fails the page
\* returns "Stream not found" before its last useState, which makes React throw.
StudioRefused(c) ==
  /\ c \in OfStudio /\ call[c].at = "refused"
  /\ Leave(c) /\ UNCHANGED view
  /\ thrown' = (thrown \/ (call[c].op = "detail" /\ ~view.loaded))

StudioStep(c) == Poll(c) \/ End(c) \/ Rotate(c) \/ StudioAnswered(c) \/ StudioRefused(c)
=============================================================================

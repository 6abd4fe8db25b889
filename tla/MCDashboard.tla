---------------------------- MODULE MCDashboard -----------------------------
(* Dashboard with two requests of a page at a time.                        *)
EXTENDS Dashboard

CONSTANTS c1, c2, t1, t2, a1, a2, l1, l2

\* The pages that share the keys by themselves and together; the others by themselves.
Tabs == {{"keys"}, {"studio"}, {"studio", "keys"}, {"panels"}, {"billing"}, {"explore"}, {"library"}, {"profile"}, {"watch"}}

\* Bound: with the keys page alone nobody else changes the keys; with both nothing fails
\* and the studio does not poll; of the panels, which share nothing, one is used.
FewEvents ==
  /\ scene = {"keys"} => live = {} /\ ~unseen
  /\ scene = {"keys", "studio"} => failures = 0 /\ Polls = {}
  /\ issued > 0 => store["bans"] = {} /\ store["words"] = {} /\ outdated \subseteq {"invites"}
=============================================================================

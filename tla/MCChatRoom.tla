----------------------------- MODULE MCChatRoom -----------------------------
(* ChatRoom with two tabs of one user, who owns one of two streams and is a  *)
(* viewer of the other.                                                      *)
EXTENDS ChatRoom, TLC

CONSTANTS s1, s2, viewer, c1, c2, r1, r2

OwnerOfTwo == s1 :> None @@ s2 :> viewer
OneUser == c1 :> viewer @@ c2 :> viewer

\* Bound: joins, messages and bans taken together.
FewInputs == joins + messages + banRows <= 6

\* The tabs, and the handlers, differ in nothing.
Alike == Permutations(Sockets) \cup Permutations(Requests)
=============================================================================

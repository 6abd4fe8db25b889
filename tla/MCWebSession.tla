---------------------------- MODULE MCWebSession ----------------------------
(* WebSession with two users.                                              *)
EXTENDS WebSession, TLC

CONSTANTS ann, bob, c1, c2, MaxSessions

Alike == Permutations({c1, c2}) \cup Permutations({ann, bob})

\* bound: connects and disconnects since the page was loaded.
FewSessions == session <= MaxSessions
=============================================================================

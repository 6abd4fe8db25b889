----------------------------- MODULE MCAudience -----------------------------
(* Audience with one viewer on two pages and another on one.               *)
EXTENDS Audience, TLC

CONSTANTS p1, p2, p3, r1, r2, owner, ann, bob, MaxInputs

Tabs == [p \in Pages |-> IF p = p3 THEN bob ELSE ann]
Alike == Permutations({r1, r2}) \cup Permutations({p1, p2})

\* bound: what comes from outside.
FewInputs == opens + pings + redeems + mishaps <= MaxInputs
=============================================================================

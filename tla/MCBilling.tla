----------------------------- MODULE MCBilling ------------------------------
(* Billing with two requests at a time; they differ in nothing.              *)
EXTENDS Billing, TLC

CONSTANTS h1, h2

Alike == Permutations(Handlers)

\* bound: what comes from outside, a failure counting twice; one more, and a fourth
\* event, for a single subscription that nobody touches.
Made == Cardinality({s \in Subs : remote[s] # NoRemote})
Inputs ==
  sent + cancels + 2 * failures + Made
    + Cardinality({s \in Subs : over[s] # 0}) + Cardinality({"ENTERPRISE"} \cap {plan})
FewInputs ==
  \/ Inputs <= 5 /\ sent <= 3
  \/ Inputs <= 6 /\ Made = 1 /\ cancels + failures = 0 /\ plan # "ENTERPRISE"
=============================================================================

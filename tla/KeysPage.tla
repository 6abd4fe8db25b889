------------------------------ MODULE KeysPage ------------------------------
(***************************************************************************)
(* The stream-keys page: a list that is loaded once and then patched with  *)
(* the answers of the page's own requests, in the order they come.         *)
(***************************************************************************)
EXTENDS KeyTable, Bags

VARIABLES
  listed,   \* keys: a bag, for a key could be listed twice
  loading,
  creating,
  maxKeys,  \* entitlements?.maxActiveStreamKeys ?? 1
  crossed   \* history: a reload or a rotation and another change were at work at once

keysPage == <<listed, loading, creating, maxKeys, crossed>>

Mine == {c \in Calls : call[c].by = "keys"}
Shown == BagToSet(listed)
Drop(B, k) == [x \in DOMAIN B \ {k} |-> B[x]]

KeysTypeOK ==
  /\ Shown \subseteq Made /\ listed \in [Shown -> Nat \ {0}]
  /\ maxKeys \in Nat /\ {loading, creating, crossed} \subseteq BOOLEAN

\* The page asks for its list when it is opened.
KeysInit(mounted) ==
  /\ listed = EmptyBag /\ creating = FALSE /\ crossed = FALSE
  /\ loading = mounted /\ maxKeys = 1

\* getEntitlements is answered; until then, and if it fails, the limit is that of FREE.
Entitled ==
  /\ maxKeys # MaxActiveKeys
  /\ maxKeys' = MaxActiveKeys
  /\ UNCHANGED <<table, listed, loading, creating, crossed>>

\* Patches of single keys may cross each other, but no answer that replaces the list.
Replaces(op) == op \in {"list", "regenerate"}
Ask(c, op, k) ==
  /\ call[c] = Idle
  /\ Request(c, "keys", op, k)
  /\ crossed' = (crossed \/ \E x \in Mine : Replaces(op) \/ Replaces(call[x].op))
  /\ UNCHANGED <<rows, failures, uncounted, unseen, listed, loading, maxKeys>>

----------------------------------------------------------------------------
(* What the page offers, and its handlers.                                 *)

AtKeyLimit == BagCardinality(listed) >= maxKeys

\* The button in the header, and the one of the empty list.
OffersCreate == ~creating \/ (~loading /\ listed = EmptyBag)
Create(c) ==
  /\ OffersCreate /\ ~AtKeyLimit
  /\ creating' = TRUE
  /\ Ask(c, "create", 0)

OffersRevoke(k) == ~loading /\ k \in Shown
Revoke(c, k) == OffersRevoke(k) /\ Ask(c, "revoke", k) /\ UNCHANGED creating

OffersRotateAll == listed # EmptyBag
RotateAll(c) == OffersRotateAll /\ Ask(c, "regenerate", 0) /\ UNCHANGED creating

----------------------------------------------------------------------------
(* Answers.                                                                *)

Patched(op, k, saw) ==
  CASE op \in {"list", "regenerate"} -> SetToBag(saw)
    [] op = "create" -> listed (+) SetToBag(saw)
    [] op = "revoke" -> Drop(listed, k)

Forget(c) == call' = [call EXCEPT ![c] = Idle]
Settled(c) ==
  /\ loading' = (loading /\ call[c].op # "list")
  /\ creating' = (creating /\ call[c].op # "create")
  /\ UNCHANGED <<rows, failures, uncounted, unseen, maxKeys>>

KeysAnswered(c) ==
  /\ c \in Mine /\ call[c].at = "answered"
  /\ listed' = Patched(call[c].op, call[c].arg, call[c].saw)
  /\ Forget(c) /\ Settled(c) /\ UNCHANGED crossed

\* A toast; a list that could not be loaded stays empty, and nothing loads it again.
KeysRefused(c) ==
  /\ c \in Mine /\ call[c].at = "refused"
  /\ crossed' = (crossed \/ call[c].op = "list")
  /\ Forget(c) /\ Settled(c) /\ UNCHANGED listed

KeysPageStep(c) ==
  \/ Create(c) \/ (\E k \in Made : Revoke(c, k)) \/ RotateAll(c)
  \/ KeysAnswered(c) \/ KeysRefused(c)
=============================================================================

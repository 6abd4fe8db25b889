-------------------------- MODULE Dashboard_proofs --------------------------
(***************************************************************************)
(* Proofs about the tabs of a creator and of a viewer, for any plan, number *)
(* of keys, requests, handlers and loads at a time, failures and changes    *)
(* made elsewhere: the keys stay within the plan and one is left, and a     *)
(* page at rest shows what is stored.                                       *)
(***************************************************************************)
EXTENDS Dashboard, FiniteSetTheorems, TLAPS

----------------------------------------------------------------------------
(* The keys.                                                               *)

\* Who has counted the keys and not been overtaken found room for one more.
RoomOK ==
  \A c \in Calls : Counted(c) /\ ~call[c].late => Cardinality(active \ uncounted) < MaxActiveKeys
\* Who is to revoke a key and has not been overtaken found that another is left.
LeftOK == \A c \in Calls : At(c, "revoke", "update") /\ ~call[c].late => Cardinality(active) > 1

PlanInv == TableTypeOK /\ RoomOK /\ KeysWithinPlan /\ LeftOK

\* What a request is when a part of it changes.
LEMMA CallParts ==
  ASSUME NEW r \in CallRecord
  PROVE  /\ r.at \in Steps /\ r.arg \in Nat /\ r.saw \subseteq Nat /\ r.late \in BOOLEAN
         /\ \A at \in Steps :
              /\ [r EXCEPT !.at = at] \in CallRecord
              /\ [r EXCEPT !.at = at].at = at /\ [r EXCEPT !.at = at].by = r.by
              /\ [r EXCEPT !.at = at].op = r.op /\ [r EXCEPT !.at = at].arg = r.arg
              /\ [r EXCEPT !.at = at].saw = r.saw /\ [r EXCEPT !.at = at].late = r.late
         /\ \A saw \in SUBSET Nat :
              /\ [r EXCEPT !.saw = saw] \in CallRecord
              /\ [r EXCEPT !.saw = saw].at = r.at /\ [r EXCEPT !.saw = saw].by = r.by
              /\ [r EXCEPT !.saw = saw].op = r.op /\ [r EXCEPT !.saw = saw].arg = r.arg
              /\ [r EXCEPT !.saw = saw].saw = saw /\ [r EXCEPT !.saw = saw].late = r.late
         /\ \A arg \in Nat :
              /\ [r EXCEPT !.arg = arg] \in CallRecord
              /\ [r EXCEPT !.arg = arg].at = r.at /\ [r EXCEPT !.arg = arg].by = r.by
              /\ [r EXCEPT !.arg = arg].op = r.op /\ [r EXCEPT !.arg = arg].arg = arg
              /\ [r EXCEPT !.arg = arg].saw = r.saw /\ [r EXCEPT !.arg = arg].late = r.late
         /\ \A late \in BOOLEAN :
              /\ [r EXCEPT !.late = late] \in CallRecord
              /\ [r EXCEPT !.late = late].at = r.at /\ [r EXCEPT !.late = late].by = r.by
              /\ [r EXCEPT !.late = late].op = r.op /\ [r EXCEPT !.late = late].arg = r.arg
              /\ [r EXCEPT !.late = late].saw = r.saw /\ [r EXCEPT !.late = late].late = late
         /\ \A row \in [live : BOOLEAN, ended : BOOLEAN] :
              /\ [r EXCEPT !.row = row] \in CallRecord
              /\ [r EXCEPT !.row = row].at = r.at /\ [r EXCEPT !.row = row].by = r.by
              /\ [r EXCEPT !.row = row].op = r.op
BY DEF CallRecord

LEMMA CallMoves ==
  ASSUME TableTypeOK, NEW c \in Calls, NEW at \in Steps
  PROVE  /\ call[c] \in CallRecord /\ Moved(c, at) \in CallRecord
         /\ Moved(c, at).at = at /\ Moved(c, at).by = call[c].by
         /\ Moved(c, at).op = call[c].op /\ Moved(c, at).arg = call[c].arg
         /\ Moved(c, at).saw = call[c].saw /\ Moved(c, at).late = call[c].late
<1>1. call[c] \in CallRecord
  BY DEF TableTypeOK
<1> QED
  BY <1>1, CallParts DEF Moved

\* The steps by name.
LEMMA StepNames ==
  {"idle", "find", "count", "stream", "keys", "update", "revoke", "insert", "answered", "refused"} \subseteq Steps
BY DEF Steps

LEMMA KeysFinite ==
  ASSUME TableTypeOK
  PROVE  /\ IsFiniteSet(active) /\ Cardinality(active) \in Nat
         /\ \A S : /\ IsFiniteSet(active \ S) /\ Cardinality(active \ S) \in Nat
                   /\ Cardinality(active \ S) <= Cardinality(active)
         /\ \A S, T : Cardinality((active \ S) \ T) <= Cardinality(active \ T)
<1>1. IsFiniteSet(Made)
  BY FS_Interval DEF TableTypeOK, Made
<1>2. IsFiniteSet(active)
  BY <1>1, FS_Subset DEF TableTypeOK
<1>3. ASSUME NEW S
      PROVE  IsFiniteSet(active \ S) /\ Cardinality(active \ S) <= Cardinality(active)
  BY <1>2, FS_Subset
<1>4. ASSUME NEW S, NEW T
      PROVE  Cardinality((active \ S) \ T) <= Cardinality(active \ T)
  <2>1. (active \ S) \ T \in SUBSET (active \ T)
    OBVIOUS
  <2> QED
    BY <1>3, <2>1, FS_Subset
<1> QED
  BY <1>2, <1>3, <1>4, FS_CardinalityType

LEMMA OneMore ==
  ASSUME NEW S, IsFiniteSet(S), NEW k
  PROVE  /\ Cardinality(S) \in Nat /\ Cardinality(S \cup {k}) \in Nat
         /\ Cardinality(S) <= Cardinality(S \cup {k})
         /\ Cardinality(S \cup {k}) <= Cardinality(S) + 1
<1>1. Cardinality(S) \in Nat
  BY FS_CardinalityType
<1>2. Cardinality(S \cup {k}) = IF k \in S THEN Cardinality(S) ELSE Cardinality(S) + 1
  BY FS_AddElement
<1> QED
  BY <1>1, <1>2

\* A request goes on; the keys stay as they are.
LEMMA AskedFrame ==
  ASSUME PlanInv, NEW c \in Calls, NEW r \in CallRecord,
         call' = [call EXCEPT ![c] = r], UNCHANGED <<rows, uncounted>>,
         failures' \in Nat, unseen' \in BOOLEAN,
         r.at = "insert" \/ (r.op = "create" /\ r.at = "stream") =>
           (Counted(c) /\ r.late = call[c].late) \/ Cardinality(active \ uncounted) < MaxActiveKeys,
         r.op = "revoke" /\ r.at = "update" => Cardinality(active) > 1
  PROVE  PlanInv'
<1>1. TableTypeOK'
  BY DEF PlanInv, TableTypeOK, rows, Made
<1>2. RoomOK'
  BY DEF PlanInv, TableTypeOK, RoomOK, rows, Counted, At
<1>3. LeftOK'
  BY DEF PlanInv, TableTypeOK, LeftOK, rows, At
<1>4. KeysWithinPlan'
  BY DEF PlanInv, KeysWithinPlan, rows
<1> QED
  BY <1>1, <1>2, <1>3, <1>4 DEF PlanInv

\* Keys are revoked, and whoever was about to revoke another is overtaken.
LEMMA RevokedFrame ==
  ASSUME PlanInv, NEW S, active' = active \ S, UNCHANGED <<keyOf, streams, uncounted, failures>>,
         call' \in [Calls -> CallRecord], unseen' \in BOOLEAN,
         live' \subseteq Nat, ended' \subseteq Nat,
         \A x \in Calls : At(x, "revoke", "update")' => call'[x].late,
         \A x \in Calls : Counted(x)' /\ ~call'[x].late =>
           (Counted(x) /\ ~call[x].late) \/ Cardinality(active' \ uncounted) < MaxActiveKeys
  PROVE  PlanInv'
<1>1. TableTypeOK'
  BY DEF PlanInv, TableTypeOK, Made
<1>2. /\ Cardinality(active' \ uncounted) <= Cardinality(active \ uncounted)
      /\ Cardinality(active' \ uncounted) \in Nat /\ Cardinality(active \ uncounted) \in Nat
      /\ MaxActiveKeys \in Nat
  <2>1. Cardinality((active \ S) \ uncounted) <= Cardinality(active \ uncounted)
    BY KeysFinite DEF PlanInv
  <2>2. Cardinality(active \ uncounted) \in Nat /\ Cardinality(active \ (S \cup uncounted)) \in Nat
    BY KeysFinite DEF PlanInv
  <2>3. active \ (S \cup uncounted) = active' \ uncounted
    OBVIOUS
  <2> QED
    BY <2>1, <2>2, <2>3, KeyTableAssumption
<1>3. RoomOK'
  BY <1>2 DEF PlanInv, RoomOK
<1>4. LeftOK'
  BY DEF LeftOK
<1>5. KeysWithinPlan'
  BY <1>2 DEF PlanInv, KeysWithinPlan
<1> QED
  BY <1>1, <1>3, <1>4, <1>5 DEF PlanInv

\* A key is made, and whoever has counted is overtaken.
LEMMA MadeFrame ==
  ASSUME PlanInv, NEW s \in Nat, NEW n \in Nat,
         keyOf' = Append(keyOf, s), active' = active \cup {Len(keyOf) + 1}, streams' = n,
         \/ uncounted' = uncounted \cup {Len(keyOf) + 1}
         \/ uncounted' = uncounted /\ Cardinality(active \ uncounted) < MaxActiveKeys,
         call' \in [Calls -> CallRecord], unseen' \in BOOLEAN, UNCHANGED <<live, ended, failures>>,
         \A x \in Calls : Counted(x)' => call'[x].late,
         \A x \in Calls : At(x, "revoke", "update")' =>
           At(x, "revoke", "update") /\ (call[x].late => call'[x].late)
  PROVE  PlanInv'
<1> DEFINE k == Len(keyOf) + 1
<1>1. TableTypeOK'
  <2>1. keyOf' \in Seq(Nat) /\ Len(keyOf') = k /\ Len(keyOf) \in Nat
    BY DEF PlanInv, TableTypeOK
  <2>2. Made \subseteq Made' /\ k \in Made'
    BY <2>1 DEF Made
  <2> QED
    BY <2>1, <2>2 DEF PlanInv, TableTypeOK
<1>2. RoomOK'
  BY DEF RoomOK
<1>3. LeftOK'
  <2>1. Cardinality(active) <= Cardinality(active') /\ Cardinality(active') \in Nat
    BY KeysFinite, OneMore DEF PlanInv
  <2>2. Cardinality(active) \in Nat
    BY KeysFinite DEF PlanInv
  <2> QED
    BY <2>1, <2>2 DEF PlanInv, LeftOK, At, TableTypeOK, CallRecord
<1>4. KeysWithinPlan'
  <2>1. Cardinality(active \ uncounted) \in Nat /\ IsFiniteSet(active \ uncounted) /\ MaxActiveKeys \in Nat
    BY KeysFinite, KeyTableAssumption DEF PlanInv
  <2>2. CASE uncounted' = uncounted \cup {k}
    <3>1. k \notin active /\ active' \ uncounted' = active \ uncounted
      BY <2>2 DEF PlanInv, TableTypeOK, Made
    <3> QED
      BY <3>1 DEF PlanInv, KeysWithinPlan
  <2>3. CASE uncounted' = uncounted /\ Cardinality(active \ uncounted) < MaxActiveKeys
    <3>1. active' \ uncounted' = (active \ uncounted) \cup {k}
      BY <2>3 DEF PlanInv, TableTypeOK, Made
    <3>2. /\ Cardinality(active' \ uncounted') <= Cardinality(active \ uncounted) + 1
          /\ Cardinality(active' \ uncounted') \in Nat
      BY <2>1, <3>1, OneMore
    <3> QED
      BY <2>1, <2>3, <3>2 DEF KeysWithinPlan
  <2> QED
    BY <2>2, <2>3
<1> QED
  BY <1>1, <1>2, <1>3, <1>4 DEF PlanInv

\* The steps of the requests.
LEMMA ProceedFrame ==
  ASSUME PlanInv, NEW c \in Calls, NEW at \in Steps, Proceed(c, at),
         at = "insert" \/ (call[c].op = "create" /\ at = "stream") =>
           Cardinality(active \ uncounted) < MaxActiveKeys,
         call[c].op = "revoke" /\ at = "update" => Cardinality(active) > 1
  PROVE  PlanInv'
<1>1. TableTypeOK /\ failures \in Nat /\ unseen \in BOOLEAN
  BY DEF PlanInv, TableTypeOK
<1>2. /\ Moved(c, at) \in CallRecord /\ Moved(c, at).at = at /\ Moved(c, at).op = call[c].op
  BY <1>1, CallMoves
<1> QED
  BY <1>1, <1>2, AskedFrame DEF Proceed

LEMMA PlainFrame ==
  ASSUME PlanInv, NEW c \in Calls,
         Refuse(c) \/ Proceed(c, "count") \/ Proceed(c, "revoke")
  PROVE  PlanInv'
BY ProceedFrame, StepNames DEF Refuse

LEMMA AnswerFrame ==
  ASSUME PlanInv, NEW c \in Calls, NEW saw \in SUBSET Nat, Answer(c, saw)
  PROVE  PlanInv'
<1> DEFINE m == Moved(c, "answered")
           r == [m EXCEPT !.saw = saw]
<1>1. TableTypeOK /\ failures \in Nat /\ unseen \in BOOLEAN
  BY DEF PlanInv, TableTypeOK
<1>2. m \in CallRecord /\ m.at = "answered"
  BY <1>1, CallMoves, StepNames
<1>3. r \in CallRecord /\ r.at = "answered"
  BY <1>2, CallParts
<1> HIDE DEF m
<1> QED
  BY <1>1, <1>3, AskedFrame DEF Answer, m

\* The request goes on for the stream of the newest key.
LEMMA NewestFrame ==
  ASSUME PlanInv, NEW c \in Calls, NEW at \in {"insert", "revoke"}, at = "insert" => Counted(c),
         call' = [call EXCEPT ![c] = [Moved(c, at) EXCEPT !.arg = StreamOfNewest]],
         UNCHANGED <<rows, failures, uncounted, unseen>>
  PROVE  PlanInv'
<1> DEFINE m == Moved(c, at)
           r == [m EXCEPT !.arg = StreamOfNewest]
<1>1. TableTypeOK /\ failures \in Nat /\ unseen \in BOOLEAN
  BY DEF PlanInv, TableTypeOK
<1>2. StreamOfNewest \in Nat
  <2>1. CASE keyOf = <<>>
    BY <1>1, <2>1 DEF StreamOfNewest, TableTypeOK
  <2>2. CASE keyOf # <<>>
    <3>1. Len(keyOf) \in 1 .. Len(keyOf) /\ keyOf \in [1 .. Len(keyOf) -> Nat]
      BY <1>1, <2>2 DEF TableTypeOK
    <3> QED
      BY <2>2, <3>1 DEF StreamOfNewest
  <2> QED
    BY <2>1, <2>2
<1>3. m \in CallRecord /\ m.at = at /\ m.late = call[c].late
  BY <1>1, CallMoves, StepNames
<1>4. r \in CallRecord /\ r.at = at /\ r.late = call[c].late
  BY <1>2, <1>3, CallParts
<1>5. call' = [call EXCEPT ![c] = r]
  OBVIOUS
<1> HIDE DEF r
<1> QED
  BY <1>1, <1>4, <1>5, AskedFrame

LEMMA ReadsKeepPlan ==
  ASSUME PlanInv, NEW c \in Calls,
         \/ ListKeys(c) \/ CountKeys(c) \/ CheckStream(c) \/ FindKey(c) \/ CountLeft(c)
         \/ CheckAll(c) \/ CheckRotate(c) \/ ReadStream(c) \/ ReadKeys(c) \/ Fail(c)
  PROVE  PlanInv'
<1>1. TableTypeOK /\ failures \in Nat /\ unseen \in BOOLEAN /\ call[c] \in CallRecord /\ active \subseteq Nat
  BY DEF PlanInv, TableTypeOK, Made
<1>2. CASE ListKeys(c)
  <2>1. CASE Answer(c, active)
    BY <1>1, <2>1, AnswerFrame
  <2>2. CASE active = {} /\ Proceed(c, "insert")
    <3>1. Cardinality(active \ uncounted) < MaxActiveKeys
      <4>1. Cardinality(active \ uncounted) = 0
        BY <2>2, FS_EmptySet
      <4> QED
        BY <4>1, KeyTableAssumption
    <3> QED
      BY <1>2, <2>2, <3>1, ProceedFrame, StepNames DEF ListKeys, At
  <2> QED
    BY <1>2, <2>1, <2>2 DEF ListKeys
<1>3. CASE CountKeys(c)
  <2>1. CASE ~AtLimit /\ Proceed(c, "stream")
    <3>1. Cardinality(active \ uncounted) < MaxActiveKeys
      <4>1. /\ Cardinality(active) \in Nat /\ Cardinality(active \ uncounted) \in Nat
            /\ Cardinality(active \ uncounted) <= Cardinality(active)
        BY <1>1, KeysFinite
      <4> QED
        BY <2>1, <4>1, KeyTableAssumption DEF AtLimit
    <3> QED
      BY <1>3, <2>1, <3>1, ProceedFrame, StepNames DEF CountKeys, At
  <2> QED
    BY <1>3, <2>1, PlainFrame DEF CountKeys
<1>4. CASE CheckStream(c)
  BY <1>4, NewestFrame, PlainFrame DEF CheckStream, Counted
<1>5. CASE FindKey(c)
  BY <1>5, PlainFrame DEF FindKey
<1>6. CASE CountLeft(c)
  <2>1. CASE ~LastOne /\ Proceed(c, "update")
    <3>1. Cardinality(active) > 1
      BY <1>1, <2>1, KeysFinite DEF LastOne
    <3> QED
      BY <2>1, <3>1, ProceedFrame, StepNames
  <2> QED
    BY <1>6, <2>1, PlainFrame DEF CountLeft
<1>7. CASE CheckAll(c)
  BY <1>7, NewestFrame, PlainFrame DEF CheckAll
<1>8. CASE CheckRotate(c)
  BY <1>8, PlainFrame DEF CheckRotate
<1>9. CASE ReadStream(c)
  <2> DEFINE m == Moved(c, "keys")
             row == [live |-> call[c].arg \in live, ended |-> call[c].arg \in ended]
             r == [m EXCEPT !.row = row]
  <2>1. m \in CallRecord /\ m.at = "keys"
    BY <1>1, CallMoves, StepNames
  <2>2. row \in [live : BOOLEAN, ended : BOOLEAN]
    OBVIOUS
  <2>3. r \in CallRecord /\ r.at = "keys"
    <3> HIDE DEF m, row
    <3> QED
      BY <2>1, <2>2, CallParts
  <2>4. call' = [call EXCEPT ![c] = r] /\ UNCHANGED <<rows, failures, uncounted, unseen>>
    BY <1>9 DEF ReadStream
  <2> HIDE DEF r
  <2> QED
    BY <1>1, <2>3, <2>4, AskedFrame
<1>10. CASE ReadKeys(c)
  <2>1. active \cap Of(call[c].arg) \in SUBSET Nat
    BY <1>1
  <2> QED
    BY <1>10, <2>1, AnswerFrame DEF ReadKeys
<1>11. CASE Fail(c)
  <2>1. Moved(c, "refused") \in CallRecord /\ Moved(c, "refused").at = "refused"
    BY <1>1, CallMoves, StepNames
  <2>2. failures' \in Nat /\ unseen' \in BOOLEAN
    BY <1>1, <1>11 DEF Fail
  <2> QED
    BY <1>11, <2>1, <2>2, AskedFrame DEF Fail
<1> QED
  BY <1>2, <1>3, <1>4, <1>5, <1>6, <1>7, <1>8, <1>9, <1>10, <1>11

\* What Warned makes of the requests.
LEMMA WarnedCalls ==
  ASSUME TableTypeOK, NEW c \in Calls,
         NEW at \in Steps
  PROVE  /\ Warned(c, at) \in [Calls -> CallRecord]
         /\ Warned(c, at)[c] = Moved(c, at)
         /\ \A x \in Calls \ {c} :
              /\ Warned(c, at)[x].op = call[x].op /\ Warned(c, at)[x].at = call[x].at
              /\ Warned(c, at)[x].by = call[x].by /\ Warned(c, at)[x].arg = call[x].arg
              /\ Warned(c, at)[x].saw = call[x].saw
              /\ Warned(c, at)[x].late = (call[x].late \/ At(x, "revoke", "update"))
<1> DEFINE late(x) == call[x].late \/ At(x, "revoke", "update")
<1>1. Moved(c, at) \in CallRecord
  BY CallMoves
<1>2. \A x \in Calls : Warned(c, at)[x] = IF x = c THEN Moved(c, at) ELSE [call[x] EXCEPT !.late = late(x)]
  BY DEF Warned
<1>3. \A x \in Calls : call[x] \in CallRecord /\ late(x) \in BOOLEAN
  BY CallParts DEF TableTypeOK, At
<1>4. \A x \in Calls \ {c} : Warned(c, at)[x] = [call[x] EXCEPT !.late = late(x)]
  BY <1>2
<1>5. \A x \in Calls \ {c} :
        /\ Warned(c, at)[x] \in CallRecord
        /\ Warned(c, at)[x].op = call[x].op /\ Warned(c, at)[x].at = call[x].at
        /\ Warned(c, at)[x].by = call[x].by /\ Warned(c, at)[x].arg = call[x].arg
        /\ Warned(c, at)[x].saw = call[x].saw /\ Warned(c, at)[x].late = late(x)
  <2> TAKE x \in Calls \ {c}
  <2> DEFINE r == call[x]
             l == late(x)
  <2>1. r \in CallRecord /\ l \in BOOLEAN /\ Warned(c, at)[x] = [r EXCEPT !.late = l]
    BY <1>3, <1>4
  <2> HIDE DEF l
  <2>2. /\ [r EXCEPT !.late = l] \in CallRecord
        /\ [r EXCEPT !.late = l].at = r.at /\ [r EXCEPT !.late = l].by = r.by
        /\ [r EXCEPT !.late = l].op = r.op /\ [r EXCEPT !.late = l].arg = r.arg
        /\ [r EXCEPT !.late = l].saw = r.saw /\ [r EXCEPT !.late = l].late = l
    BY <2>1, CallParts
  <2>3. /\ Warned(c, at)[x] \in CallRecord
        /\ Warned(c, at)[x].op = r.op /\ Warned(c, at)[x].at = r.at
        /\ Warned(c, at)[x].by = r.by /\ Warned(c, at)[x].arg = r.arg
        /\ Warned(c, at)[x].saw = r.saw /\ Warned(c, at)[x].late = l
    BY <2>1, <2>2
  <2> QED
    BY <2>3 DEF l
<1>6. Warned(c, at)[c] = Moved(c, at)
  BY <1>2
<1>7. Warned(c, at) \in [Calls -> CallRecord]
  BY <1>1, <1>5, <1>6 DEF Warned
<1> QED
  BY <1>5, <1>6, <1>7

\* Keys are revoked by a request that then goes on to another step.
LEMMA WarnedFrame ==
  ASSUME PlanInv, NEW c \in Calls, NEW S, NEW at \in {"answered", "insert"},
         active' = active \ S, UNCHANGED <<keyOf, streams, uncounted, failures>>,
         call' = Warned(c, at), unseen' \in BOOLEAN, live' \subseteq Nat, ended' \subseteq Nat,
         at = "insert" => Cardinality(active' \ uncounted) < MaxActiveKeys
  PROVE  PlanInv'
<1>1. TableTypeOK
  BY DEF PlanInv
<1>2. at \in Steps
  BY StepNames
<1>3. /\ call' \in [Calls -> CallRecord]
      /\ call'[c].at = at /\ call'[c].op = call[c].op
      /\ \A x \in Calls \ {c} :
              /\ call'[x].op = call[x].op /\ call'[x].at = call[x].at
              /\ call'[x].late = (call[x].late \/ At(x, "revoke", "update"))
  BY <1>1, <1>2, WarnedCalls, CallMoves
<1>4. \A x \in Calls : At(x, "revoke", "update")' => call'[x].late
  BY <1>3 DEF At
<1>5. \A x \in Calls : Counted(x)' /\ ~call'[x].late =>
        (Counted(x) /\ ~call[x].late) \/ Cardinality(active' \ uncounted) < MaxActiveKeys
  BY <1>3 DEF Counted, At
<1> QED
  BY <1>3, <1>4, <1>5, RevokedFrame

LEMMA RevokesKeepPlan ==
  ASSUME PlanInv, NEW c \in Calls,
         RevokeKey(c) \/ RevokeAll(c) \/ RevokeOfStream(c) \/ EndStream(c)
  PROVE  PlanInv'
<1>1. /\ TableTypeOK /\ call[c] \in CallRecord /\ call[c].arg \in Nat
      /\ live \subseteq Nat /\ ended \subseteq Nat /\ unseen \in BOOLEAN
  BY CallParts DEF PlanInv, TableTypeOK
<1>2. CASE RevokeKey(c)
  <2>1. unseen' \in BOOLEAN
    BY <1>1, <1>2 DEF RevokeKey, Unseen
  <2> QED
    BY <1>1, <1>2, <2>1, WarnedFrame DEF RevokeKey, Without
<1>3. CASE RevokeAll(c)
  <2>1. unseen' \in BOOLEAN
    BY <1>1, <1>3 DEF RevokeAll, Unseen
  <2>2. Cardinality(active' \ uncounted) < MaxActiveKeys
    <3>1. active' \ uncounted = {}
      BY <1>3 DEF RevokeAll, Without
    <3> QED
      BY <3>1, FS_EmptySet, KeyTableAssumption
  <2> QED
    BY <1>1, <1>3, <2>1, <2>2, WarnedFrame DEF RevokeAll, Without
<1>4. CASE RevokeOfStream(c)
  <2> DEFINE S == Of(call[c].arg)
             none == (active \ uncounted) \cap S = {}
             r == [Moved(c, "insert") EXCEPT !.late = none]
  <2>1. ~none => Cardinality(active' \ uncounted) < MaxActiveKeys
    <3> SUFFICES ASSUME ~none PROVE Cardinality(active' \ uncounted) < MaxActiveKeys
      OBVIOUS
    <3>1. PICK k \in active \ uncounted : k \in S
      OBVIOUS
    <3>2. active' \ uncounted \in SUBSET ((active \ uncounted) \ {k})
      BY <1>4, <3>1 DEF RevokeOfStream, Without
    <3>3. IsFiniteSet(active \ uncounted) /\ Cardinality(active \ uncounted) \in Nat
      BY <1>1, KeysFinite
    <3>4. /\ IsFiniteSet((active \ uncounted) \ {k})
          /\ Cardinality((active \ uncounted) \ {k}) = Cardinality(active \ uncounted) - 1
      BY <3>1, <3>3, FS_RemoveElement
    <3>5. /\ Cardinality(active' \ uncounted) <= Cardinality((active \ uncounted) \ {k})
          /\ Cardinality(active' \ uncounted) \in Nat
      BY <3>2, <3>4, FS_Subset, FS_CardinalityType
    <3> QED
      BY <3>3, <3>4, <3>5, KeyTableAssumption DEF PlanInv, KeysWithinPlan
  <2>2. Moved(c, "insert") \in CallRecord /\ Moved(c, "insert").at = "insert"
    BY <1>1, CallMoves, StepNames
  <2>3. r \in CallRecord /\ r.at = "insert" /\ r.late = none
    <3>1. none \in BOOLEAN
      OBVIOUS
    <3> HIDE DEF none
    <3> QED
      BY <2>2, <3>1, CallParts
  <2>4. call' = [Warned(c, "insert") EXCEPT ![c].late = none]
    BY <1>4 DEF RevokeOfStream
  <2>5. /\ Warned(c, "insert") \in [Calls -> CallRecord] /\ Warned(c, "insert")[c] = Moved(c, "insert")
        /\ \A x \in Calls \ {c} :
              /\ Warned(c, "insert")[x].op = call[x].op /\ Warned(c, "insert")[x].at = call[x].at
              /\ Warned(c, "insert")[x].late = (call[x].late \/ At(x, "revoke", "update"))
    BY <1>1, WarnedCalls, StepNames
  <2>6. /\ call' = [Warned(c, "insert") EXCEPT ![c] = r]
    BY <2>4, <2>5
  <2>7. /\ active' = active \ S /\ UNCHANGED <<keyOf, streams, uncounted, failures>>
        /\ live' \subseteq Nat /\ ended' \subseteq Nat /\ unseen' \in BOOLEAN
    BY <1>1, <1>4 DEF RevokeOfStream, Without, Unseen
  <2> HIDE DEF none, S, r
  <2>8. call' \in [Calls -> CallRecord] /\ call'[c] = r /\ \A x \in Calls \ {c} : call'[x] = Warned(c, "insert")[x]
    BY <2>3, <2>5, <2>6
  <2>9. \A x \in Calls : At(x, "revoke", "update")' => call'[x].late
    BY <2>3, <2>5, <2>8 DEF At
  <2>10. \A x \in Calls : Counted(x)' /\ ~call'[x].late =>
          (Counted(x) /\ ~call[x].late) \/ Cardinality(active' \ uncounted) < MaxActiveKeys
    BY <2>1, <2>3, <2>5, <2>8 DEF Counted, At
  <2> QED
    BY <2>7, <2>8, <2>9, <2>10, RevokedFrame
<1>5. CASE EndStream(c)
  <2>1. CASE Finalized(call[c].arg) /\ call' = Warned(c, "answered") /\ Unseen(c)
    <3>1. /\ unseen' \in BOOLEAN /\ live' \subseteq Nat /\ ended' \subseteq Nat
          /\ active' = active \ Of(call[c].arg) /\ UNCHANGED <<keyOf, streams, uncounted, failures>>
      BY <1>1, <2>1 DEF Finalized, Unseen
    <3> QED
      BY <1>1, <2>1, <3>1, WarnedFrame
  <2> QED
    BY <1>5, <2>1, PlainFrame DEF EndStream
<1> QED
  BY <1>2, <1>3, <1>4, <1>5

\* A key is made: whoever has counted is overtaken.
LEMMA LateCalls ==
  ASSUME TableTypeOK, NEW x \in Calls, NEW l \in BOOLEAN
  PROVE  LET r == [call[x] EXCEPT !.late = l] IN
         /\ r \in CallRecord /\ r.op = call[x].op /\ r.at = call[x].at /\ r.by = call[x].by
         /\ r.arg = call[x].arg /\ r.saw = call[x].saw /\ r.late = l
<1>1. call[x] \in CallRecord
  BY DEF TableTypeOK
<1> QED
  BY <1>1, CallParts

LEMMA InsertFacts ==
  ASSUME TableTypeOK, NEW c \in Calls, NEW s, Insert(c, s)
  PROVE  /\ call' \in [Calls -> CallRecord]
         /\ call'[c].by = call[c].by /\ call'[c].op = call[c].op /\ call'[c].at = "answered"
         /\ call'[c].arg = call[c].arg /\ call'[c].saw = {Len(keyOf) + 1}
         /\ \A x \in Calls \ {c} :
              /\ call'[x].op = call[x].op /\ call'[x].at = call[x].at /\ call'[x].by = call[x].by
              /\ call'[x].arg = call[x].arg /\ call'[x].saw = call[x].saw
              /\ call'[x].late = (call[x].late \/ Counted(x))
<1> DEFINE k == Len(keyOf) + 1
           m == Moved(c, "answered")
           r == [m EXCEPT !.saw = {k}]
           late(x) == call[x].late \/ Counted(x)
<1>1. m \in CallRecord /\ m.by = call[c].by /\ m.op = call[c].op /\ m.at = "answered" /\ m.arg = call[c].arg
  BY CallMoves, StepNames
<1>2. {k} \in SUBSET Nat
  BY DEF TableTypeOK
<1>3. r \in CallRecord /\ r.by = call[c].by /\ r.op = call[c].op /\ r.at = "answered" /\ r.arg = call[c].arg /\ r.saw = {k}
  <2> HIDE DEF m, k
  <2> QED
    BY <1>1, <1>2, CallParts
<1>4. call' = [x \in Calls |-> IF x = c THEN r ELSE [call[x] EXCEPT !.late = late(x)]]
  BY DEF Insert
<1> HIDE DEF r
<1>5. ASSUME NEW x \in Calls \ {c}
      PROVE  /\ call'[x] \in CallRecord
             /\ call'[x].op = call[x].op /\ call'[x].at = call[x].at /\ call'[x].by = call[x].by
             /\ call'[x].arg = call[x].arg /\ call'[x].saw = call[x].saw
             /\ call'[x].late = late(x)
  <2>1. late(x) \in BOOLEAN
    BY CallParts DEF TableTypeOK, Counted, At
  <2>2. call'[x] = [call[x] EXCEPT !.late = late(x)]
    BY <1>4
  <2> HIDE DEF late
  <2> QED
    BY <2>1, <2>2, LateCalls
<1>6. call'[c] = r
  BY <1>4
<1>7. call' \in [Calls -> CallRecord]
  BY <1>3, <1>4, <1>5, <1>6
<1> QED
  BY <1>3, <1>5, <1>6, <1>7

LEMMA InsertsKeepPlan ==
  ASSUME PlanInv, NEW c \in Calls, Bootstrap(c) \/ InsertKey(c)
  PROVE  PlanInv'
<1>1. TableTypeOK /\ call[c] \in CallRecord /\ call[c].arg \in Nat /\ streams \in Nat /\ unseen \in BOOLEAN
  BY CallParts DEF PlanInv, TableTypeOK
<1>2. PICK s \in Nat : Insert(c, s)
  BY <1>1 DEF Bootstrap, InsertKey
<1>3. Counted(c)
  BY DEF Bootstrap, InsertKey, Counted, At
<1>4. \/ uncounted' = uncounted \cup {Len(keyOf) + 1}
      \/ uncounted' = uncounted /\ Cardinality(active \ uncounted) < MaxActiveKeys
  BY <1>2, <1>3 DEF Insert, PlanInv, RoomOK
<1>5. /\ keyOf' = Append(keyOf, s) /\ active' = active \cup {Len(keyOf) + 1}
      /\ UNCHANGED <<live, ended, failures>> /\ unseen' \in BOOLEAN /\ streams' \in Nat
  BY <1>1, <1>2 DEF Insert, Unseen
<1>6. /\ call' \in [Calls -> CallRecord] /\ call'[c].at = "answered"
      /\ \A x \in Calls \ {c} :
           /\ call'[x].op = call[x].op /\ call'[x].at = call[x].at
           /\ call'[x].late = (call[x].late \/ Counted(x))
  BY <1>1, <1>2, InsertFacts
<1>7. \A x \in Calls : Counted(x)' => call'[x].late
  BY <1>6 DEF Counted, At
<1>8. \A x \in Calls : At(x, "revoke", "update")' =>
        At(x, "revoke", "update") /\ (call[x].late => call'[x].late)
  BY <1>6 DEF At
<1> QED
  BY <1>2, <1>4, <1>5, <1>6, <1>7, <1>8, MadeFrame

\* OBS, and the wizard in another tab.
LEMMA OthersKeepPlan ==
  ASSUME PlanInv, GoLive \/ GoOffline \/ NewStream
  PROVE  PlanInv'
<1>1. /\ TableTypeOK /\ unseen \in BOOLEAN /\ streams \in Nat /\ call \in [Calls -> CallRecord]
      /\ live \subseteq Nat /\ ended \subseteq Nat /\ \A x \in Calls : call[x].late \in BOOLEAN
  BY CallParts DEF PlanInv, TableTypeOK
<1>2. CASE GoLive
  <2>1. UNCHANGED <<keyOf, active, streams, ended, call, failures, uncounted, unseen>> /\ live' = live \cup {1}
    BY <1>2 DEF GoLive
  <2>2. TableTypeOK'
    BY <1>1, <2>1 DEF TableTypeOK, Made
  <2>3. RoomOK' /\ LeftOK' /\ KeysWithinPlan'
    BY <2>1 DEF PlanInv, RoomOK, KeysWithinPlan, LeftOK, Counted, At
  <2> QED
    BY <2>2, <2>3 DEF PlanInv
<1>3. CASE GoOffline
  <2> DEFINE late(x) == call[x].late \/ At(x, "revoke", "update")
  <2>1. call' = [x \in Calls |-> [call[x] EXCEPT !.late = late(x)]]
    BY <1>3 DEF GoOffline
  <2>2. ASSUME NEW x \in Calls
        PROVE  /\ call'[x] \in CallRecord /\ call'[x].op = call[x].op /\ call'[x].at = call[x].at
               /\ call'[x].late = late(x)
    <3>1. late(x) \in BOOLEAN /\ call'[x] = [call[x] EXCEPT !.late = late(x)]
      BY <1>1, <2>1 DEF At
    <3> HIDE DEF late
    <3> QED
      BY <1>1, <3>1, LateCalls
  <2>3. call' \in [Calls -> CallRecord]
    BY <2>1, <2>2
  <2>4. \A x \in Calls : At(x, "revoke", "update")' => call'[x].late
    BY <2>2 DEF At
  <2>5. \A x \in Calls : Counted(x)' /\ ~call'[x].late => Counted(x) /\ ~call[x].late
    BY <2>2 DEF Counted, At
  <2>6. /\ active' = active \ Of(1) /\ UNCHANGED <<keyOf, streams, uncounted, failures>>
        /\ live' \subseteq Nat /\ ended' \subseteq Nat /\ unseen' \in BOOLEAN
    BY <1>1, <1>3 DEF GoOffline, Finalized
  <2> QED
    BY <2>3, <2>4, <2>5, <2>6, RevokedFrame
<1>4. CASE NewStream
  <2> DEFINE late(x) == call[x].late \/ Counted(x)
  <2>1. call' = [x \in Calls |-> [call[x] EXCEPT !.late = late(x)]]
    BY <1>4 DEF NewStream
  <2>2. ASSUME NEW x \in Calls
        PROVE  /\ call'[x] \in CallRecord /\ call'[x].op = call[x].op /\ call'[x].at = call[x].at
               /\ call'[x].late = late(x)
    <3>1. late(x) \in BOOLEAN /\ call'[x] = [call[x] EXCEPT !.late = late(x)]
      BY <1>1, <2>1 DEF At, Counted
    <3> HIDE DEF late
    <3> QED
      BY <1>1, <3>1, LateCalls
  <2>3. call' \in [Calls -> CallRecord]
    BY <2>1, <2>2
  <2>4. \A x \in Calls : Counted(x)' => call'[x].late
    BY <2>2 DEF Counted, At
  <2>5. \A x \in Calls : At(x, "revoke", "update")' =>
          At(x, "revoke", "update") /\ (call[x].late => call'[x].late)
    BY <2>2 DEF At
  <2>6. /\ keyOf' = Append(keyOf, streams + 1) /\ active' = active \cup {Len(keyOf) + 1}
        /\ streams' = streams + 1 /\ uncounted' = uncounted \cup {Len(keyOf) + 1}
        /\ unseen' \in BOOLEAN /\ UNCHANGED <<live, ended, failures>> /\ streams + 1 \in Nat
    BY <1>1, <1>4 DEF NewStream
  <2> QED
    BY <2>3, <2>4, <2>5, <2>6, MadeFrame
<1> QED
  BY <1>2, <1>3, <1>4

\* What the pages ask, and what they take note of.
LEMMA IdleRecord == Idle \in CallRecord /\ Idle.at = "idle" /\ Idle.by = "nobody" /\ Idle.op = "none"
BY DEF Idle, CallRecord, Steps

LEMMA NewRequest ==
  ASSUME NEW by \in {"keys", "studio"},
         NEW op \in {"list", "create", "revoke", "regenerate", "rotate", "detail", "end"}, NEW arg \in Nat
  PROVE  LET r == NewCall(by, op, arg) IN
         /\ r \in CallRecord /\ r.by = by /\ r.op = op /\ r.at = FirstStep(op) /\ r.arg = arg
         /\ r.at \in {"find", "count", "stream"} /\ (op = "create" => r.at = "count")
         /\ (op = "revoke" => r.at = "find") /\ (op = "regenerate" => r.at = "stream")
BY DEF NewCall, Idle, CallRecord, Steps, FirstStep

LEMMA RequestFrame ==
  ASSUME PlanInv, NEW c \in Calls, NEW by \in {"keys", "studio"},
         NEW op \in {"list", "create", "revoke", "regenerate", "rotate", "detail", "end"}, NEW arg \in Nat,
         Request(c, by, op, arg), UNCHANGED <<rows, failures, uncounted, unseen>>
  PROVE  PlanInv'
<1> DEFINE r == NewCall(by, op, arg)
<1>1. /\ r \in CallRecord /\ r.op = op
      /\ r.at \in {"find", "count", "stream"} /\ (op = "create" => r.at = "count")
  BY NewRequest
<1>2. call' = [call EXCEPT ![c] = r]
  BY <1>1 DEF Request
<1>3. failures' \in Nat /\ unseen' \in BOOLEAN
  BY DEF PlanInv, TableTypeOK
<1> QED
  BY <1>1, <1>2, <1>3, AskedFrame

LEMMA ForgetFrame ==
  ASSUME PlanInv, NEW c \in Calls, call' = [call EXCEPT ![c] = Idle],
         UNCHANGED <<rows, failures, uncounted, unseen>>
  PROVE  PlanInv'
<1>1. failures' \in Nat /\ unseen' \in BOOLEAN
  BY DEF PlanInv, TableTypeOK
<1> QED
  BY <1>1, AskedFrame, IdleRecord

LEMMA PagesKeepPlan ==
  ASSUME PlanInv, NEW c \in Calls, KeysPageStep(c) \/ StudioStep(c)
  PROVE  PlanInv'
<1>1. ASSUME NEW op \in {"create", "revoke", "regenerate"}, NEW k \in Nat, Ask(c, op, k)
      PROVE  PlanInv'
  BY <1>1, RequestFrame DEF Ask
<1>2. ASSUME NEW op \in {"detail", "end", "rotate"}, AskStudio(c, op)
      PROVE  PlanInv'
  BY <1>2, RequestFrame DEF AskStudio
<1>3. Made \subseteq Nat
  BY DEF Made
<1>4. CASE KeysPageStep(c)
  BY <1>1, <1>3, <1>4, ForgetFrame
     DEF KeysPageStep, Create, Revoke, RotateAll, KeysAnswered, KeysRefused, Forget, Settled
<1>5. CASE StudioStep(c)
  BY <1>2, <1>5, ForgetFrame DEF StudioStep, Poll, End, Rotate, StudioAnswered, StudioRefused, Leave
<1> QED
  BY <1>4, <1>5

LEMMA PlanInit == Init => PlanInv
<1> SUFFICES ASSUME Init PROVE PlanInv
  OBVIOUS
<1>1. PICK n \in 0 .. MaxActiveKeys : keyOf = [k \in 1 .. n |-> 1]
  BY DEF Init, TableInit
<1>2. n \in Nat /\ MaxActiveKeys \in Nat /\ n <= MaxActiveKeys
  BY <1>1, KeyTableAssumption
<1>3. keyOf \in Seq(Nat) /\ Len(keyOf) = n /\ active = 1 .. n /\ Made = 1 .. n
  BY <1>1, <1>2 DEF Init, TableInit, Made
<1>4. /\ call \in [Calls -> CallRecord]
      /\ \A c \in Calls : call[c].at \in {"idle", "find"}
  <2> DEFINE r == [Idle EXCEPT !.by = "keys", !.op = "list", !.at = "find"]
  <2>1. r \in CallRecord /\ r.at = "find" /\ Idle \in CallRecord /\ Idle.at = "idle"
    BY DEF Idle, CallRecord, Steps
  <2>2. PICK d \in Calls : call = [x \in Calls |-> IF x = d /\ "keys" \in scene THEN r ELSE Idle]
    BY DEF Init
  <2> HIDE DEF r
  <2> QED
    BY <2>1, <2>2
<1>5. TableTypeOK
  BY <1>1, <1>3, <1>4 DEF Init, TableInit, TableTypeOK
<1>6. RoomOK /\ LeftOK
  BY <1>4 DEF RoomOK, LeftOK, Counted, At
<1>7. KeysWithinPlan
  <2>1. active \ uncounted = 1 .. n
    BY <1>3 DEF Init, TableInit
  <2>2. Cardinality(1 .. n) = n
    BY <1>2, FS_Interval
  <2> QED
    BY <1>2, <2>1, <2>2 DEF KeysWithinPlan
<1> QED
  BY <1>5, <1>6, <1>7 DEF PlanInv

LEMMA PlanNext == PlanInv /\ [Next]_vars => PlanInv'
<1> SUFFICES ASSUME PlanInv, [Next]_vars PROVE PlanInv'
  OBVIOUS
<1>1. ASSUME UNCHANGED table PROVE PlanInv'
  BY <1>1 DEF table, rows, PlanInv, TableTypeOK, Made, RoomOK, KeysWithinPlan, LeftOK, Counted, At
<1>2. CASE Server
  <2>1. ASSUME NEW c \in Calls, ServerStep(c) PROVE PlanInv'
    BY <2>1, ReadsKeepPlan, RevokesKeepPlan, InsertsKeepPlan DEF ServerStep
  <2> QED
    BY <1>2, <2>1, ReadsKeepPlan, OthersKeepPlan DEF Server
<1>3. CASE Keys
  <2>1. CASE Entitled
    BY <1>1, <2>1 DEF Entitled
  <2> QED
    BY <1>3, <2>1, PagesKeepPlan DEF Keys
<1>4. CASE Studio
  BY <1>4, PagesKeepPlan DEF Studio
<1>5. CASE InPanels \/ Paying \/ Browsing \/ UNCHANGED vars
  BY <1>1, <1>5 DEF InPanels, Paying, Browsing, vars
<1> QED
  BY <1>2, <1>3, <1>4, <1>5 DEF Next

\* stream-key.controller: whatever requests overlap, the keys that were counted stay
\* within the plan.
THEOREM KeysWithinPlanHolds == Spec => []KeysWithinPlan
<1>1. PlanInv => KeysWithinPlan
  BY DEF PlanInv
<1> QED
  BY <1>1, PlanInit, PlanNext, PTL DEF Spec

\* revokeStreamKey ("user must have at least one valid key"): no revocation takes the last
\* key, unless another one was revoked after the request had counted.
THEOREM LastKeyKeptHolds == Spec => LastKeyKept
<1>1. ASSUME PlanInv, [Next]_vars, NEW c \in Calls, At(c, "revoke", "update"),
             call'[c].at = "answered", active' = {}, active # {}, ~call[c].late
      PROVE  FALSE
  <2>1. Cardinality(active) > 1 /\ TableTypeOK /\ IsFiniteSet(active)
    BY <1>1, KeysFinite DEF PlanInv, LeftOK
  <2>2. ~RevokeKey(c)
    <3> SUFFICES ASSUME RevokeKey(c) PROVE FALSE
      OBVIOUS
    <3>1. active \ {call[c].arg} = {}
      BY <1>1 DEF RevokeKey, Without
    <3>2. Cardinality(active \ {call[c].arg}) =
            IF call[c].arg \in active THEN Cardinality(active) - 1 ELSE Cardinality(active)
      BY <2>1, FS_RemoveElement
    <3>3. Cardinality(active) \in Nat /\ Cardinality(active \ {call[c].arg}) = 0
      BY <2>1, <3>1, FS_EmptySet, FS_CardinalityType
    <3> QED
      BY <2>1, <3>2, <3>3
  \* Another step that revokes keys leaves this request where it is.
  <2>3. ASSUME NEW d \in Calls, NEW at \in Steps, call' = Warned(d, at), ~At(d, "revoke", "update")
        PROVE  FALSE
    <3>1. c # d
      BY <1>1, <2>3
    <3> QED
      BY <1>1, <2>1, <2>3, <3>1, WarnedCalls DEF At
  <2>4. ASSUME NEW d \in Calls, RevokeAll(d) \/ RevokeOfStream(d) \/ EndStream(d)
        PROVE  FALSE
    <3>1. CASE RevokeAll(d)
      BY <2>3, <3>1, StepNames DEF RevokeAll, At
    <3>2. CASE RevokeOfStream(d)
      <4>1. c # d
        BY <1>1, <3>2 DEF RevokeOfStream, At
      <4>2. call'[c].at = Warned(d, "insert")[c].at
        BY <2>1, <3>2, <4>1, WarnedCalls, StepNames DEF RevokeOfStream
      <4> QED
        BY <1>1, <2>1, <4>1, <4>2, WarnedCalls, StepNames DEF At
    <3>3. CASE EndStream(d)
      BY <1>1, <2>3, <3>3, StepNames DEF EndStream, Refuse, Proceed, rows, At
    <3> QED
      BY <2>4, <3>1, <3>2, <3>3
  <2>5. ASSUME NEW d \in Calls, RevokeKey(d) PROVE FALSE
    <3>1. c # d
      BY <2>2, <2>5
    <3> QED
      BY <1>1, <2>1, <2>5, <3>1, WarnedCalls, StepNames DEF RevokeKey, At
  \* No other step takes the last key.
  <2>6. ASSUME NEW d \in Calls, ServerStep(d) \/ Fail(d) PROVE FALSE
    <3>1. CASE Bootstrap(d) \/ InsertKey(d)
      <4>1. active' # {}
        BY <3>1 DEF Bootstrap, InsertKey, Insert
      <4> QED
        BY <1>1, <4>1
    <3> QED
      BY <1>1, <2>4, <2>5, <2>6, <3>1
         DEF ServerStep, ListKeys, CountKeys, CheckStream, FindKey, CountLeft, CheckAll, CheckRotate,
             ReadStream, ReadKeys, Fail, Refuse, Proceed, Answer, rows
  <2>7. CASE Server
    <3>1. ASSUME GoOffline PROVE FALSE
      <4>1. call'[c] = [call[c] EXCEPT !.late = @ \/ At(c, "revoke", "update")]
        BY <1>1, <3>1 DEF GoOffline
      <4>2. call'[c].at = "update"
        BY <1>1, <2>1, <4>1, LateCalls DEF At
      <4> QED
        BY <1>1, <4>2
    <3> QED
      BY <1>1, <2>6, <2>7, <3>1 DEF Server, GoLive, NewStream
  <2>8. CASE Keys \/ Studio \/ InPanels \/ Paying \/ Browsing \/ UNCHANGED vars
    <3>1. UNCHANGED rows
      BY <2>8 DEF Keys, Studio, InPanels, Paying, Browsing, vars, table, Entitled, KeysPageStep, Create, Revoke,
        RotateAll, Ask, KeysAnswered, KeysRefused, Settled, StudioStep, Poll, End, Rotate, AskStudio,
        StudioAnswered, StudioRefused, Leave
    <3> QED
      BY <1>1, <3>1 DEF rows
  <2> QED
    BY <1>1, <2>7, <2>8 DEF Next
<1>2. PlanInv /\ [Next]_vars =>
        [\A c \in Calls : At(c, "revoke", "update") /\ call'[c].at = "answered" /\ active # {} /\ active' = {}
           => call[c].late]_vars
  BY <1>1
<1> QED
  BY <1>2, PlanInit, PlanNext, PTL DEF Spec, LastKeyKept

----------------------------------------------------------------------------
(* The stream-keys page.                                                   *)

\* What the page asks for, and of which keys.
AsksOK ==
  \A c \in Mine :
    /\ call[c].op \in {"list", "create", "revoke", "regenerate"}
    /\ call[c].op = "create" /\ call[c].at = "answered" => \E k \in Made : call[c].saw = {k}
    /\ call[c].op = "revoke" => call[c].arg \in Made /\ call[c].at # "insert"
\* An answer that replaces the list comes alone.
AloneOK == \A c, d \in Mine : Replaces(call[c].op) => c = d

\* The keys made and revoked of which the page is yet to be told.
Added == {k \in Made : \E c \in Mine : At(c, "create", "answered") /\ k \in call[c].saw}
Gone == {k \in Made : \E c \in Mine : At(c, "revoke", "answered") /\ call[c].arg = k}
PatchOK ==
  /\ \A c \in Mine : ~Replaces(call[c].op)
  /\ listed = SetToBag(Shown) /\ Added \cap Shown = {}
  /\ active = (Shown \cup Added) \ Gone
  /\ \A c \in Mine : call[c].op = "revoke" => call[c].arg \notin Added
  /\ \A c, d \in Mine :
       At(c, "create", "answered") /\ At(d, "create", "answered") /\ c # d =>
         call[c].saw \cap call[d].saw = {}
\* The list is to be replaced by what is stored, or stays as it is.
Replacing(c) ==
  \/ At(c, "list", "find") \/ At(c, "list", "refused")
  \/ call[c].op \in {"list", "regenerate"} /\ call[c].at = "insert" /\ active = {}
  \/ call[c].op \in {"list", "regenerate"} /\ call[c].at = "answered" /\ call[c].saw = active
  \/ call[c].op = "regenerate" /\ call[c].at \in {"stream", "revoke", "refused"} /\ listed = SetToBag(active)
ReplaceOK == \E c \in Mine : Replacing(c)
KeysInv ==
  "keys" \in scene /\ ~crossed /\ ~unseen => AsksOK /\ AloneOK /\ (PatchOK \/ ReplaceOK)

\* A list without repetitions.
LEMMA ListOfSet ==
  /\ EmptyBag = SetToBag({})
  /\ \A S : BagToSet(SetToBag(S)) = S
BY DEF EmptyBag, SetToBag, BagToSet

LEMMA ListOneMore ==
  ASSUME NEW S, NEW k, k \notin S
  PROVE  SetToBag(S) (+) SetToBag({k}) = SetToBag(S \cup {k})
BY DEF SetToBag, (+)

LEMMA ListOneLess ==
  ASSUME NEW S, NEW k
  PROVE  Drop(SetToBag(S), k) = SetToBag(S \ {k})
BY DEF SetToBag, Drop

\* What the page knows of a request stays.
Kept(x) ==
  /\ call'[x].by = call[x].by /\ call'[x].op = call[x].op /\ call'[x].at = call[x].at
  /\ call'[x].arg = call[x].arg /\ call'[x].saw = call[x].saw

\* What becomes of a request in each kind of step.
LEMMA ProceedCalls ==
  ASSUME TableTypeOK, NEW c \in Calls, NEW at \in Steps, Proceed(c, at)
  PROVE  /\ call'[c].by = call[c].by /\ call'[c].op = call[c].op /\ call'[c].at = at
         /\ call'[c].arg = call[c].arg /\ call'[c].saw = call[c].saw
         /\ \A x \in Calls \ {c} : Kept(x)
<1>1. call \in [Calls -> CallRecord] /\ call' = [call EXCEPT ![c] = Moved(c, at)]
  BY DEF TableTypeOK, Proceed
<1>2. call'[c] = Moved(c, at) /\ \A x \in Calls \ {c} : call'[x] = call[x]
  BY <1>1
<1> QED
  BY <1>2, CallMoves DEF Kept

LEMMA AnswerCalls ==
  ASSUME TableTypeOK, NEW c \in Calls, NEW saw \in SUBSET Nat, Answer(c, saw)
  PROVE  /\ call'[c].by = call[c].by /\ call'[c].op = call[c].op /\ call'[c].at = "answered"
         /\ call'[c].arg = call[c].arg /\ call'[c].saw = saw /\ \A x \in Calls \ {c} : Kept(x)
<1> DEFINE m == Moved(c, "answered")
<1>1. call \in [Calls -> CallRecord] /\ call' = [call EXCEPT ![c] = [m EXCEPT !.saw = saw]]
  BY DEF TableTypeOK, Answer
<1>2. call'[c] = [m EXCEPT !.saw = saw] /\ \A x \in Calls \ {c} : call'[x] = call[x]
  BY <1>1
<1>3. m \in CallRecord /\ m.by = call[c].by /\ m.op = call[c].op /\ m.at = "answered" /\ m.arg = call[c].arg
  BY CallMoves, StepNames
<1> HIDE DEF m
<1> QED
  BY <1>2, <1>3, CallParts DEF Kept

LEMMA NewestCalls ==
  ASSUME TableTypeOK, NEW c \in Calls, NEW at \in {"insert", "revoke"},
         call' = [call EXCEPT ![c] = [Moved(c, at) EXCEPT !.arg = StreamOfNewest]]
  PROVE  /\ call'[c].by = call[c].by /\ call'[c].op = call[c].op /\ call'[c].at = at
         /\ call'[c].saw = call[c].saw
         /\ \A x \in Calls \ {c} : Kept(x)
<1> DEFINE m == Moved(c, at)
<1>1. call \in [Calls -> CallRecord]
  BY DEF TableTypeOK
<1>2. call'[c] = [m EXCEPT !.arg = StreamOfNewest] /\ \A x \in Calls \ {c} : call'[x] = call[x]
  BY <1>1
<1>3. m \in CallRecord /\ m.by = call[c].by /\ m.op = call[c].op /\ m.at = at /\ m.saw = call[c].saw
  BY CallMoves, StepNames
<1> HIDE DEF m
<1>4. call'[c].by = m.by /\ call'[c].op = m.op /\ call'[c].at = m.at /\ call'[c].saw = m.saw
  BY <1>2, <1>3 DEF CallRecord
<1> QED
  BY <1>2, <1>3, <1>4 DEF Kept

LEMMA WarnedKept ==
  ASSUME TableTypeOK, NEW c \in Calls, NEW at \in Steps, call' = Warned(c, at)
  PROVE  /\ call'[c].by = call[c].by /\ call'[c].op = call[c].op /\ call'[c].at = at
         /\ call'[c].arg = call[c].arg /\ call'[c].saw = call[c].saw
         /\ \A x \in Calls \ {c} : Kept(x)
BY WarnedCalls, CallMoves DEF Kept

LEMMA InsertKept ==
  ASSUME TableTypeOK, NEW c \in Calls, NEW s, Insert(c, s)
  PROVE  /\ call'[c].by = call[c].by /\ call'[c].op = call[c].op /\ call'[c].at = "answered"
         /\ call'[c].arg = call[c].arg /\ call'[c].saw = {Len(keyOf) + 1}
         /\ \A x \in Calls \ {c} : Kept(x)
BY InsertFacts DEF Kept

LEMMA OtherKept ==
  ASSUME TableTypeOK, NEW c \in Calls, ReadStream(c) \/ RevokeOfStream(c)
  PROVE  /\ call'[c].by = call[c].by /\ call'[c].op = call[c].op /\ call'[c].saw = call[c].saw
         /\ \A x \in Calls \ {c} : Kept(x)
<1>1. CASE ReadStream(c)
  <2> DEFINE m == Moved(c, "keys")
             row == [live |-> call[c].arg \in live, ended |-> call[c].arg \in ended]
  <2>1. call \in [Calls -> CallRecord] /\ call' = [call EXCEPT ![c] = [m EXCEPT !.row = row]]
    BY <1>1 DEF TableTypeOK, ReadStream
  <2>2. m \in CallRecord /\ m.by = call[c].by /\ m.op = call[c].op /\ m.saw = call[c].saw
    BY CallMoves, StepNames
  <2> HIDE DEF m, row
  <2>3. call'[c] = [m EXCEPT !.row = row] /\ \A x \in Calls \ {c} : call'[x] = call[x]
    BY <2>1
  <2> QED
    BY <2>2, <2>3 DEF CallRecord, Kept
<1>2. CASE RevokeOfStream(c)
  <2> DEFINE w == Warned(c, "insert")
             late == (active \ uncounted) \cap Of(call[c].arg) = {}
  <2>1. call' = [w EXCEPT ![c].late = late]
    BY <1>2 DEF RevokeOfStream
  <2>2. /\ w \in [Calls -> CallRecord] /\ w[c].by = call[c].by /\ w[c].op = call[c].op /\ w[c].saw = call[c].saw
        /\ \A x \in Calls \ {c} : /\ w[x].op = call[x].op /\ w[x].at = call[x].at /\ w[x].by = call[x].by
                                  /\ w[x].arg = call[x].arg /\ w[x].saw = call[x].saw
    BY WarnedCalls, CallMoves, StepNames
  <2> HIDE DEF w, late
  <2>3. call'[c] = [w[c] EXCEPT !.late = late] /\ \A x \in Calls \ {c} : call'[x] = w[x]
    BY <2>1, <2>2
  <2> QED
    BY <2>2, <2>3 DEF CallRecord, Kept
<1> QED
  BY <1>1, <1>2

LEMMA StepCalls ==
  ASSUME TableTypeOK, NEW c \in Calls, ServerStep(c) \/ Fail(c)
  PROVE  call'[c].by = call[c].by /\ \A x \in Calls \ {c} : Kept(x)
<1>1. active \in SUBSET Nat /\ active \cap Of(call[c].arg) \in SUBSET Nat
  <2>1. active \subseteq Nat
    BY DEF TableTypeOK, Made
  <2> QED
    BY <2>1
<1>2. CASE \/ ListKeys(c) \/ CountKeys(c) \/ FindKey(c) \/ CountLeft(c) \/ CheckRotate(c) \/ ReadKeys(c)
  BY <1>1, <1>2, ProceedCalls, AnswerCalls, StepNames
     DEF ListKeys, CountKeys, FindKey, CountLeft, CheckRotate, ReadKeys, Refuse
<1>3. CASE CheckStream(c) \/ CheckAll(c)
  BY <1>3, ProceedCalls, NewestCalls, StepNames DEF CheckStream, CheckAll, Refuse
<1>4. CASE Bootstrap(c) \/ InsertKey(c)
  BY <1>4, InsertKept DEF Bootstrap, InsertKey
<1>5. CASE RevokeKey(c) \/ RevokeAll(c) \/ EndStream(c)
  BY <1>5, WarnedKept, ProceedCalls, StepNames DEF RevokeKey, RevokeAll, EndStream, Refuse
<1>6. CASE RevokeOfStream(c) \/ ReadStream(c)
  BY <1>6, OtherKept
<1>7. CASE Fail(c)
  <2>1. call \in [Calls -> CallRecord] /\ call' = [call EXCEPT ![c] = Moved(c, "refused")]
    BY <1>7 DEF TableTypeOK, Fail
  <2>2. call'[c] = Moved(c, "refused") /\ \A x \in Calls \ {c} : call'[x] = call[x]
    BY <2>1
  <2> QED
    BY <2>2, CallMoves, StepNames DEF Kept
<1> QED
  BY <1>2, <1>3, <1>4, <1>5, <1>6, <1>7 DEF ServerStep

\* The requests of the page, and those that are not of the page.
LEMMA MineFacts ==
  /\ Mine \subseteq Calls /\ \A x \in Calls : x \in Mine <=> call[x].by = "keys"
  /\ Mine' \subseteq Calls /\ \A x \in Calls : x \in Mine' <=> call'[x].by = "keys"
BY DEF Mine

\* The page is told nothing that it would not be told anyway.
LEMMA KeptFrame ==
  ASSUME KeysInv, UNCHANGED <<scene, keyOf, active, listed, crossed>>, unseen => unseen',
         Mine' = Mine, \A x \in Mine : Kept(x)
  PROVE  KeysInv'
<1>1. SUFFICES ASSUME AsksOK, AloneOK, PatchOK \/ ReplaceOK
               PROVE  AsksOK' /\ AloneOK' /\ (PatchOK' \/ ReplaceOK')
  BY DEF KeysInv
<1>2. AsksOK' /\ AloneOK'
  <2>1. Made' = Made
    BY DEF Made
  <2>2. AsksOK'
    BY <1>1, <2>1 DEF AsksOK, Kept
  <2>3. AloneOK'
    BY <1>1 DEF AloneOK, Kept
  <2> QED
    BY <2>2, <2>3
<1>3. Added' = Added /\ Gone' = Gone /\ Shown' = Shown
  BY DEF Added, Gone, Shown, Made, Kept, At
<1>4. PatchOK => PatchOK'
  BY <1>3 DEF PatchOK, Kept, At
<1>5. ReplaceOK => ReplaceOK'
  BY DEF ReplaceOK, Replacing, Kept, At
<1> QED
  BY <1>1, <1>2, <1>4, <1>5

\* The keys are changed elsewhere.
LEMMA UnseenFrame == unseen' => KeysInv'
BY DEF KeysInv

LEMMA StrangersKeepPage ==
  ASSUME TableTypeOK, KeysInv, UNCHANGED <<scene, listed, crossed>>, NEW c \in Calls, c \notin Mine,
         ServerStep(c) \/ Fail(c)
  PROVE  KeysInv'
<1>1. /\ call[c].by # "keys" /\ call'[c].by = call[c].by /\ \A x \in Calls \ {c} : Kept(x)
  BY StepCalls, MineFacts
<1>2. Mine' = Mine /\ \A x \in Mine : Kept(x)
  BY <1>1, MineFacts DEF Kept
<1>3. unseen' \/ (UNCHANGED <<keyOf, active>> /\ (unseen => unseen'))
  <2>1. CASE Fail(c)
    BY <2>1 DEF Fail, rows
  <2>2. CASE Bootstrap(c) \/ InsertKey(c) \/ RevokeKey(c) \/ RevokeAll(c) \/ RevokeOfStream(c)
    BY <1>1, <2>2 DEF Bootstrap, InsertKey, Insert, RevokeKey, RevokeAll, RevokeOfStream, Unseen
  <2>3. CASE EndStream(c)
    BY <1>1, <2>3 DEF EndStream, Refuse, Proceed, rows, Unseen
  <2>4. CASE \/ ListKeys(c) \/ CountKeys(c) \/ CheckStream(c) \/ FindKey(c) \/ CountLeft(c) \/ CheckAll(c)
             \/ CheckRotate(c) \/ ReadStream(c) \/ ReadKeys(c)
    BY <2>4 DEF ListKeys, CountKeys, CheckStream, FindKey, CountLeft, CheckAll, CheckRotate, ReadStream,
       ReadKeys, Refuse, Proceed, Answer, rows
  <2> QED
    BY <2>1, <2>2, <2>3, <2>4 DEF ServerStep
<1> QED
  BY <1>2, <1>3, KeptFrame, UnseenFrame

\* A request that patches the list goes on, and has changed no key.
LEMMA PatchGoes ==
  ASSUME AsksOK, AloneOK, PatchOK, NEW c \in Mine, UNCHANGED <<keyOf, active, listed>>,
         call'[c].by = call[c].by, call'[c].op = call[c].op, \A x \in Calls \ {c} : Kept(x),
         call[c].at # "answered", call'[c].at # "answered",
         call[c].op = "revoke" => call'[c].arg = call[c].arg /\ call'[c].at # "insert"
  PROVE  AsksOK' /\ AloneOK' /\ PatchOK'
<1>1. Mine' = Mine /\ Mine \subseteq Calls /\ \A x \in Mine \ {c} : Kept(x)
  BY MineFacts DEF Kept
<1>2. AsksOK' /\ AloneOK'
  BY <1>1 DEF AsksOK, AloneOK, Kept, Made
<1>3. \A op, x : x \in Mine => (At(x, op, "answered")' <=> At(x, op, "answered"))
  BY <1>1 DEF At, Kept
<1>4. Added' = Added /\ Gone' = Gone /\ Shown' = Shown
  BY <1>1, <1>3 DEF Added, Gone, Shown, Made, Kept, At
<1>5. PatchOK'
  <2>1. \A x \in Mine : ~Replaces(call'[x].op)
    BY <1>1 DEF PatchOK, Kept
  <2>2. \A x \in Mine : call'[x].op = "revoke" => call'[x].arg \notin Added
    BY <1>1 DEF PatchOK, Kept
  <2>3. \A x, y \in Mine :
          At(x, "create", "answered")' /\ At(y, "create", "answered")' /\ x # y =>
            call'[x].saw \cap call'[y].saw = {}
    BY <1>1 DEF PatchOK, Kept, At
  <2> QED
    BY <1>1, <1>4, <2>1, <2>2, <2>3 DEF PatchOK
<1> QED
  BY <1>2, <1>5

\* A request that replaces the list is alone, and goes on.
LEMMA ReplaceGoes ==
  ASSUME AsksOK, AloneOK, PatchOK \/ ReplaceOK, NEW c \in Mine, Replaces(call[c].op)
  PROVE  /\ Mine = {c} /\ Replacing(c)
         /\ call'[c].by = call[c].by /\ call'[c].op = call[c].op /\ (\A x \in Calls \ {c} : Kept(x)) =>
              Mine' = {c} /\ AsksOK' /\ AloneOK' /\ (Replacing(c)' => ReplaceOK')
<1>1. Mine = {c}
  BY DEF AloneOK
<1>2. Replacing(c)
  BY <1>1 DEF PatchOK, ReplaceOK
<1>3. ASSUME call'[c].by = call[c].by, call'[c].op = call[c].op, \A x \in Calls \ {c} : Kept(x)
      PROVE  Mine' = {c} /\ AsksOK' /\ AloneOK' /\ (Replacing(c)' => ReplaceOK')
  <2>1. Mine' = {c}
    BY <1>1, <1>3, MineFacts DEF Kept
  <2> QED
    BY <1>1, <1>3, <2>1 DEF AsksOK, AloneOK, ReplaceOK, Replaces
<1> QED
  BY <1>1, <1>2, <1>3

\* What the page shows was made.
LEMMA ShownMade == PatchOK /\ TableTypeOK => Shown \subseteq Made /\ Added \subseteq Made /\ Gone \subseteq Made
BY DEF PatchOK, TableTypeOK, Added, Gone

\* A key is made for the page.
LEMMA MadeKeepsPage ==
  ASSUME TableTypeOK, AsksOK, AloneOK, PatchOK \/ ReplaceOK, UNCHANGED <<scene, listed, crossed>>,
         NEW c \in Mine, Bootstrap(c) \/ InsertKey(c)
  PROVE  AsksOK' /\ AloneOK' /\ (PatchOK' \/ ReplaceOK')
<1> DEFINE k == Len(keyOf) + 1
<1>1. c \in Calls /\ Mine \subseteq Calls /\ call[c].op \in {"list", "create", "revoke", "regenerate"} /\ call[c].at = "insert"
  BY MineFacts DEF AsksOK, Bootstrap, InsertKey, At
<1>2. PICK s : Insert(c, s)
  BY DEF Bootstrap, InsertKey
<1>3. /\ call'[c].by = call[c].by /\ call'[c].op = call[c].op /\ call'[c].at = "answered"
      /\ call'[c].arg = call[c].arg /\ call'[c].saw = {k} /\ \A x \in Calls \ {c} : Kept(x)
  BY <1>1, <1>2, InsertKept
<1>4. /\ keyOf' = Append(keyOf, s) /\ active' = active \cup {k}
      /\ k \notin Made /\ Made \subseteq Made' /\ k \in Made' /\ Made' \subseteq Made \cup {k}
  <2>1. keyOf' = Append(keyOf, s) /\ active' = active \cup {k}
    BY <1>2 DEF Insert
  <2>2. Len(keyOf) \in Nat /\ Len(keyOf') = Len(keyOf) + 1
    BY <2>1 DEF TableTypeOK
  <2> QED
    BY <2>1, <2>2 DEF Made
<1> HIDE DEF k
<1>5. CASE Replaces(call[c].op)
  <2>1. Replacing(c) /\ AsksOK' /\ AloneOK' /\ (Replacing(c)' => ReplaceOK')
    BY <1>3, <1>5, ReplaceGoes
  <2>2. active = {}
    BY <1>1, <2>1 DEF Replacing, At
  <2>3. call'[c].saw = active'
    BY <1>3, <1>4, <2>2
  <2>4. Replacing(c)'
    BY <1>3, <1>5, <2>3 DEF Replacing, Replaces
  <2> QED
    BY <2>1, <2>4
<1>6. CASE ~Replaces(call[c].op)
  <2>1. call[c].op = "create"
    BY <1>1, <1>6 DEF Replaces, AsksOK
  <2>2. PatchOK
    BY <1>6 DEF ReplaceOK, Replacing, Replaces, At, AloneOK
  <2>3. Mine' = Mine /\ \A x \in Mine \ {c} : Kept(x)
    BY <1>1, <1>3, MineFacts DEF Kept
  <2>4. AsksOK'
    <3> SUFFICES ASSUME NEW x \in Mine PROVE AsksOK!(x)'
      BY <2>3 DEF AsksOK
    <3>1. CASE x = c
      BY <1>3, <1>4, <2>1, <3>1
    <3>2. CASE x # c
      BY <1>4, <2>3, <3>2 DEF AsksOK, Kept
    <3> QED
      BY <3>1, <3>2
  <2>5. AloneOK'
    BY <1>3, <2>3 DEF AloneOK, Kept
  <2>6. Shown' = Shown /\ Shown \subseteq Made /\ Added \subseteq Made /\ Gone \subseteq Made
    BY <2>2, ShownMade DEF Shown
  <2>7. Added' = Added \cup {k}
    <3>1. ASSUME NEW j PROVE j \in Added' <=> j \in Added \cup {k}
      <4>1. j \in Added' <=> j \in Made' /\ \E x \in Mine : At(x, "create", "answered")' /\ j \in call'[x].saw
        BY <2>3 DEF Added
      <4>2. j \in Added <=> j \in Made /\ \E x \in Mine : At(x, "create", "answered") /\ j \in call[x].saw
        BY DEF Added
      <4>3. At(c, "create", "answered")' /\ ~At(c, "create", "answered")
        BY <1>1, <1>3, <2>1 DEF At
      <4>4. \A x \in Mine \ {c} : /\ At(x, "create", "answered")' <=> At(x, "create", "answered")
                                  /\ call'[x].saw = call[x].saw
        BY <2>3 DEF Kept, At
      <4>5. \A x \in Mine : At(x, "create", "answered") => call[x].saw \subseteq Made
        BY DEF AsksOK, At
      <4> QED
        BY <1>3, <1>4, <4>1, <4>2, <4>3, <4>4, <4>5
    <3> QED
      BY <3>1
  <2>8. Gone' = Gone
    <3>1. ASSUME NEW j PROVE j \in Gone' <=> j \in Gone
      <4>1. j \in Gone' <=> j \in Made' /\ \E x \in Mine : At(x, "revoke", "answered")' /\ call'[x].arg = j
        BY <2>3 DEF Gone
      <4>2. j \in Gone <=> j \in Made /\ \E x \in Mine : At(x, "revoke", "answered") /\ call[x].arg = j
        BY DEF Gone
      <4>3. \A x \in Mine : /\ At(x, "revoke", "answered")' <=> At(x, "revoke", "answered")
                            /\ call'[x].arg = call[x].arg
        BY <1>1, <1>3, <2>1, <2>3 DEF Kept, At
      <4>4. \A x \in Mine : At(x, "revoke", "answered") => call[x].arg \in Made
        BY DEF AsksOK, At
      <4> QED
        BY <1>4, <4>1, <4>2, <4>3, <4>4
    <3> QED
      BY <3>1
  <2>9. PatchOK'
    <3>1. \A x \in Mine : ~Replaces(call'[x].op)
      BY <1>3, <2>2, <2>3 DEF PatchOK, Kept
    <3>2. listed' = SetToBag(Shown') /\ Added' \cap Shown' = {} /\ active' = (Shown' \cup Added') \ Gone'
      BY <1>4, <2>2, <2>6, <2>7, <2>8 DEF PatchOK
    <3>3. \A x \in Mine : call'[x].op = "revoke" => call'[x].arg \notin Added'
      <4>1. \A x \in Mine : call[x].op = "revoke" => call[x].arg \in Made /\ call[x].arg \notin Added
        BY <2>2 DEF AsksOK, PatchOK
      <4>2. \A x \in Mine : call'[x].op = call[x].op /\ call'[x].arg = call[x].arg
        BY <1>3, <2>3 DEF Kept
      <4> QED
        BY <1>4, <2>7, <4>1, <4>2
    <3>4. ASSUME NEW x \in Mine, NEW y \in Mine, x # y,
                 At(x, "create", "answered")', At(y, "create", "answered")'
          PROVE  call'[x].saw \cap call'[y].saw = {}
      <4>1. \A z \in Mine \ {c} : /\ call'[z].saw = call[z].saw
                                  /\ At(z, "create", "answered")' => At(z, "create", "answered")
        BY <2>3 DEF Kept, At
      <4>2. \A z \in Mine : At(z, "create", "answered") => k \notin call[z].saw
        BY <1>4 DEF AsksOK, At
      <4>3. CASE x = c \/ y = c
        BY <1>3, <3>4, <4>1, <4>2, <4>3
      <4>4. CASE x # c /\ y # c
        BY <2>2, <3>4, <4>1, <4>4 DEF PatchOK
      <4> QED
        BY <4>3, <4>4
    <3> QED
      BY <2>3, <3>1, <3>2, <3>3, <3>4 DEF PatchOK
  <2> QED
    BY <2>4, <2>5, <2>9
<1> QED
  BY <1>5, <1>6

\* A key is revoked for the page, or all of them are.
LEMMA RevokedKeepsPage ==
  ASSUME TableTypeOK, AsksOK, AloneOK, PatchOK \/ ReplaceOK, UNCHANGED <<scene, listed, crossed>>,
         NEW c \in Mine, RevokeKey(c) \/ RevokeAll(c)
  PROVE  AsksOK' /\ AloneOK' /\ (PatchOK' \/ ReplaceOK')
<1>1. c \in Calls /\ Mine \subseteq Calls
  BY MineFacts
<1>2. CASE RevokeAll(c)
  <2>1. /\ call'[c].by = call[c].by /\ call'[c].op = call[c].op /\ call'[c].at = "insert"
        /\ call[c].op = "regenerate" /\ active' = {} /\ \A x \in Calls \ {c} : Kept(x)
    BY <1>1, <1>2, WarnedKept, StepNames DEF RevokeAll, Without, At
  <2>2. Replaces(call[c].op)
    BY <2>1 DEF Replaces
  <2>3. AsksOK' /\ AloneOK' /\ (Replacing(c)' => ReplaceOK')
    BY <2>1, <2>2, ReplaceGoes
  <2> QED
    BY <2>1, <2>3 DEF Replacing
<1>3. CASE RevokeKey(c)
  <2> DEFINE k == call[c].arg
  <2>1. /\ call'[c].by = call[c].by /\ call'[c].op = call[c].op /\ call'[c].at = "answered" /\ call'[c].arg = k
        /\ call[c].op = "revoke" /\ call[c].at = "update"
        /\ active' = active \ {k} /\ keyOf' = keyOf /\ \A x \in Calls \ {c} : Kept(x)
    BY <1>1, <1>3, WarnedKept, StepNames DEF RevokeKey, Without, At
  <2>2. PatchOK /\ k \in Made /\ k \notin Added
    <3>1. PatchOK
      BY <2>1 DEF ReplaceOK, Replacing, AloneOK, At, Replaces
    <3> QED
      BY <2>1, <3>1 DEF PatchOK, AsksOK
  <2>3. Mine' = Mine /\ Made' = Made /\ \A x \in Mine \ {c} : Kept(x)
    BY <1>1, <2>1, MineFacts DEF Kept, Made
  <2>4. AsksOK'
    <3> SUFFICES ASSUME NEW x \in Mine PROVE AsksOK!(x)'
      BY <2>3 DEF AsksOK
    <3>1. CASE x = c
      BY <2>1, <2>2, <2>3, <3>1
    <3>2. CASE x # c
      BY <2>3, <3>2 DEF AsksOK, Kept
    <3> QED
      BY <3>1, <3>2
  <2>5. AloneOK'
    BY <2>1, <2>3 DEF AloneOK, Kept
  <2>6. Shown' = Shown
    BY DEF Shown
  <2>7. Added' = Added
    <3>1. \A x \in Mine : /\ At(x, "create", "answered")' <=> At(x, "create", "answered")
                          /\ At(x, "create", "answered") => call'[x].saw = call[x].saw
      BY <2>1, <2>3 DEF Kept, At
    <3> QED
      BY <2>3, <3>1 DEF Added
  <2>8. Gone' = Gone \cup {k}
    <3>1. ASSUME NEW j PROVE j \in Gone' <=> j \in Gone \cup {k}
      <4>1. j \in Gone' <=> j \in Made /\ \E x \in Mine : At(x, "revoke", "answered")' /\ call'[x].arg = j
        BY <2>3 DEF Gone
      <4>2. j \in Gone <=> j \in Made /\ \E x \in Mine : At(x, "revoke", "answered") /\ call[x].arg = j
        BY DEF Gone
      <4>3. At(c, "revoke", "answered")' /\ ~At(c, "revoke", "answered") /\ call'[c].arg = k
        BY <2>1 DEF At
      <4>4. \A x \in Mine \ {c} : /\ At(x, "revoke", "answered")' <=> At(x, "revoke", "answered")
                                  /\ call'[x].arg = call[x].arg
        BY <2>3 DEF Kept, At
      <4> HIDE DEF k
      <4> QED
        BY <2>2, <4>1, <4>2, <4>3, <4>4
    <3> QED
      BY <3>1
  <2>9. PatchOK'
    <3>1. \A x \in Mine : call'[x].op = call[x].op /\ call'[x].arg = call[x].arg
      BY <2>1, <2>3 DEF Kept
    <3>2. \A x \in Mine : ~Replaces(call'[x].op)
      BY <2>2, <3>1 DEF PatchOK
    <3>3. listed' = SetToBag(Shown') /\ Added' \cap Shown' = {} /\ active' = (Shown' \cup Added') \ Gone'
      BY <2>1, <2>2, <2>6, <2>7, <2>8 DEF PatchOK
    <3>4. \A x \in Mine : call'[x].op = "revoke" => call'[x].arg \notin Added'
      BY <2>2, <2>7, <3>1 DEF PatchOK
    <3>5. \A x, y \in Mine :
            At(x, "create", "answered")' /\ At(y, "create", "answered")' /\ x # y =>
              call'[x].saw \cap call'[y].saw = {}
      BY <2>1, <2>2, <2>3 DEF PatchOK, Kept, At
    <3> QED
      BY <2>3, <3>2, <3>3, <3>4, <3>5 DEF PatchOK
  <2> QED
    BY <2>4, <2>5, <2>9
<1> QED
  BY <1>2, <1>3

\* A request of the page reads, is refused, or fails.
LEMMA ReadsKeepPage ==
  ASSUME TableTypeOK, AsksOK, AloneOK, PatchOK \/ ReplaceOK, UNCHANGED <<scene, listed, crossed>>,
         NEW c \in Mine,
         \/ ListKeys(c) \/ CountKeys(c) \/ CheckStream(c) \/ FindKey(c) \/ CountLeft(c) \/ CheckAll(c)
         \/ Fail(c) /\ ~unseen'
  PROVE  AsksOK' /\ AloneOK' /\ (PatchOK' \/ ReplaceOK')
<1>1. c \in Calls /\ Mine \subseteq Calls /\ UNCHANGED <<keyOf, active, listed>>
  BY MineFacts DEF ListKeys, CountKeys, CheckStream, FindKey, CountLeft, CheckAll, Fail, Refuse, Proceed, Answer, rows
<1>2. /\ call[c].op = "list" => Replaces(call[c].op)
      /\ call[c].op = "regenerate" => Replaces(call[c].op)
      /\ Replaces(call[c].op) => Replacing(c)
      /\ ~Replaces(call[c].op) => PatchOK
      /\ call[c].op \in {"list", "create", "revoke", "regenerate"}
  <2>1. Replaces(call[c].op) => Replacing(c)
    BY ReplaceGoes
  <2>2. ~Replaces(call[c].op) => PatchOK
    BY DEF ReplaceOK, Replacing, Replaces, At, AloneOK
  <2> QED
    BY <2>1, <2>2 DEF Replaces, AsksOK
\* It replaces the list.
<1>3. ASSUME Replaces(call[c].op), call'[c].by = call[c].by, call'[c].op = call[c].op,
             \A x \in Calls \ {c} : Kept(x), Replacing(c)'
      PROVE  AsksOK' /\ AloneOK' /\ (PatchOK' \/ ReplaceOK')
  BY <1>3, ReplaceGoes
\* It patches the list.
<1>4. ASSUME ~Replaces(call[c].op), call'[c].by = call[c].by, call'[c].op = call[c].op,
             \A x \in Calls \ {c} : Kept(x), call[c].at # "answered", call'[c].at # "answered",
             call[c].op = "revoke" => call'[c].arg = call[c].arg /\ call'[c].at # "insert"
      PROVE  AsksOK' /\ AloneOK' /\ (PatchOK' \/ ReplaceOK')
  BY <1>1, <1>2, <1>4, PatchGoes
<1>5. CASE ListKeys(c)
  <2>1. active \in SUBSET Nat
    BY DEF TableTypeOK, Made
  <2>2. CASE active # {} /\ Answer(c, active)
    <3>1. /\ call'[c].by = call[c].by /\ call'[c].op = call[c].op /\ call'[c].at = "answered"
          /\ call'[c].saw = active /\ \A x \in Calls \ {c} : Kept(x)
      BY <1>1, <2>1, <2>2, AnswerCalls
    <3>2. Replacing(c)'
      BY <1>1, <1>5, <3>1 DEF Replacing, ListKeys, At
    <3> QED
      BY <1>2, <1>3, <1>5, <3>1, <3>2 DEF ListKeys, At
  <2>3. CASE active = {} /\ Proceed(c, "insert")
    <3>1. /\ call'[c].by = call[c].by /\ call'[c].op = call[c].op /\ call'[c].at = "insert"
          /\ \A x \in Calls \ {c} : Kept(x)
      BY <1>1, <2>3, ProceedCalls, StepNames
    <3>2. Replacing(c)'
      BY <1>1, <1>5, <2>3, <3>1 DEF Replacing, ListKeys, At
    <3> QED
      BY <1>2, <1>3, <1>5, <3>1, <3>2 DEF ListKeys, At
  <2> QED
    BY <1>5, <2>2, <2>3 DEF ListKeys
<1>6. CASE CountKeys(c) \/ FindKey(c) \/ CountLeft(c)
  <2>1. PICK at \in {"refused", "stream", "count", "update"} : Proceed(c, at)
    BY <1>6 DEF CountKeys, FindKey, CountLeft, Refuse
  <2>2. /\ call'[c].by = call[c].by /\ call'[c].op = call[c].op /\ call'[c].at = at /\ call'[c].arg = call[c].arg
        /\ \A x \in Calls \ {c} : Kept(x)
    BY <1>1, <2>1, ProceedCalls, StepNames
  <2>3. call[c].op \in {"create", "revoke"} /\ call[c].at # "answered"
    BY <1>6 DEF CountKeys, FindKey, CountLeft, At
  <2> QED
    BY <1>4, <2>2, <2>3 DEF Replaces
<1>7. CASE CheckStream(c)
  <2>1. /\ call'[c].by = call[c].by /\ call'[c].op = call[c].op /\ call'[c].at \in {"refused", "insert"}
        /\ \A x \in Calls \ {c} : Kept(x)
    BY <1>1, <1>7, ProceedCalls, NewestCalls, StepNames DEF CheckStream, Refuse
  <2>2. call[c].op = "create" /\ call[c].at # "answered"
    BY <1>7 DEF CheckStream, At
  <2> QED
    BY <1>4, <2>1, <2>2 DEF Replaces
<1>8. CASE CheckAll(c)
  <2>1. /\ call'[c].by = call[c].by /\ call'[c].op = call[c].op /\ call'[c].at \in {"refused", "revoke"}
        /\ \A x \in Calls \ {c} : Kept(x)
    BY <1>1, <1>8, ProceedCalls, NewestCalls, StepNames DEF CheckAll, Refuse
  <2>2. call[c].op = "regenerate" /\ call[c].at = "stream"
    BY <1>8 DEF CheckAll, At
  <2>3. listed = SetToBag(active)
    BY <1>2, <2>2 DEF Replacing, At
  <2>4. Replacing(c)'
    BY <1>1, <2>1, <2>2, <2>3 DEF Replacing
  <2> QED
    BY <1>2, <1>3, <2>1, <2>2, <2>4
<1>9. CASE Fail(c) /\ ~unseen'
  <2>1. /\ call'[c].by = call[c].by /\ call'[c].op = call[c].op /\ call'[c].at = "refused"
        /\ call'[c].arg = call[c].arg /\ \A x \in Calls \ {c} : Kept(x)
    <3>1. call' = [call EXCEPT ![c] = Moved(c, "refused")] /\ call \in [Calls -> CallRecord]
      BY <1>9 DEF Fail, TableTypeOK
    <3>2. call'[c] = Moved(c, "refused") /\ \A x \in Calls \ {c} : call'[x] = call[x]
      BY <1>1, <3>1
    <3> QED
      BY <1>1, <3>2, CallMoves, StepNames DEF Kept
  <2>2. call[c].op = "list" \/ call[c].at \notin {"insert", "answered"}
    BY <1>9 DEF Fail
  <2>3. CASE call[c].op = "list"
    <3>1. Replacing(c)'
      BY <2>1, <2>3 DEF Replacing, At
    <3> QED
      BY <1>2, <1>3, <2>1, <2>3, <3>1
  <2>4. CASE call[c].op = "regenerate"
    <3>1. listed = SetToBag(active)
      BY <1>2, <2>2, <2>4 DEF Replacing, At
    <3>2. Replacing(c)'
      BY <1>1, <2>1, <2>4, <3>1 DEF Replacing
    <3> QED
      BY <1>2, <1>3, <2>1, <2>4, <3>2
  <2>5. CASE call[c].op \in {"create", "revoke"}
    BY <1>4, <2>1, <2>2, <2>5 DEF Replaces
  <2> QED
    BY <1>2, <2>3, <2>4, <2>5
<1> QED
  BY <1>5, <1>6, <1>7, <1>8, <1>9

\* auth-service.
LEMMA ServerKeepsPage ==
  ASSUME TableTypeOK, KeysInv, UNCHANGED <<scene, listed, crossed>>, NEW c \in Calls, ServerStep(c) \/ Fail(c)
  PROVE  KeysInv'
<1>1. CASE c \notin Mine
  BY <1>1, StrangersKeepPage
<1>2. CASE c \in Mine
  <2>2. SUFFICES ASSUME "keys" \in scene, ~crossed, ~unseen'
                 PROVE  AsksOK' /\ AloneOK' /\ (PatchOK' \/ ReplaceOK')
    BY DEF KeysInv
  <2>3. ~unseen
    BY <2>2 DEF ServerStep, ListKeys, Bootstrap, CountKeys, CheckStream, InsertKey, FindKey, CountLeft, RevokeKey,
       CheckAll, RevokeAll, CheckRotate, RevokeOfStream, ReadStream, ReadKeys, EndStream, Fail, Refuse,
       Proceed, Answer, Insert, Unseen
  <2>4. AsksOK /\ AloneOK /\ (PatchOK \/ ReplaceOK)
    BY <2>2, <2>3 DEF KeysInv
  <2>5. call[c].op \in {"list", "create", "revoke", "regenerate"}
    BY <1>2, <2>4 DEF AsksOK
  <2>6. ~(CheckRotate(c) \/ RevokeOfStream(c) \/ ReadStream(c) \/ ReadKeys(c) \/ EndStream(c))
    BY <2>5 DEF CheckRotate, RevokeOfStream, ReadStream, ReadKeys, EndStream, At
  <2> QED
    BY <1>2, <2>2, <2>4, <2>6, ReadsKeepPage, MadeKeepsPage, RevokedKeepsPage DEF ServerStep
<1> QED
  BY <1>1, <1>2

\* The page asks.
LEMMA AskedCalls ==
  ASSUME TableTypeOK, NEW c \in Calls, NEW by \in {"keys", "studio"},
         NEW op \in {"list", "create", "revoke", "regenerate", "rotate", "detail", "end"}, NEW arg \in Nat,
         call[c] = Idle, Request(c, by, op, arg)
  PROVE  /\ call'[c].by = by /\ call'[c].op = op /\ call'[c].arg = arg /\ call'[c].at = FirstStep(op)
         /\ call'[c].at \in {"find", "count", "stream"} /\ (op = "regenerate" => call'[c].at = "stream")
         /\ (op = "revoke" => call'[c].at = "find")
         /\ c \notin Mine /\ \A x \in Calls \ {c} : call'[x] = call[x]
<1> DEFINE r == NewCall(by, op, arg)
<1>1. call' = [call EXCEPT ![c] = r] /\ call \in [Calls -> CallRecord]
  BY DEF Request, TableTypeOK
<1>2. call'[c] = r /\ \A x \in Calls \ {c} : call'[x] = call[x]
  BY <1>1
<1>3. c \notin Mine
  BY IdleRecord DEF Mine
<1>4. /\ r.by = by /\ r.op = op /\ r.arg = arg /\ r.at = FirstStep(op)
      /\ r.at \in {"find", "count", "stream"} /\ (op = "regenerate" => r.at = "stream")
      /\ (op = "revoke" => r.at = "find")
  BY NewRequest
<1> HIDE DEF r
<1> QED
  BY <1>2, <1>3, <1>4

\* One more request that patches the list, of a key that is shown if it revokes.
LEMMA AsksKeepPage ==
  ASSUME TableTypeOK, KeysInv, UNCHANGED scene, NEW c \in Calls, NEW k \in Nat,
         NEW op \in {"create", "revoke", "regenerate"}, Ask(c, op, k),
         op = "revoke" => k \in Made /\ k \in Shown
  PROVE  KeysInv'
<1> SUFFICES ASSUME "keys" \in scene, ~crossed', ~unseen'
             PROVE  AsksOK' /\ AloneOK' /\ (PatchOK' \/ ReplaceOK')
  BY DEF KeysInv
<1>1. /\ call[c] = Idle /\ Request(c, "keys", op, k) /\ UNCHANGED <<keyOf, active, listed, unseen>>
      /\ crossed' = (crossed \/ \E x \in Mine : Replaces(op) \/ Replaces(call[x].op))
  BY DEF Ask, rows
<1>2. AsksOK /\ AloneOK /\ (PatchOK \/ ReplaceOK)
  BY <1>1 DEF KeysInv
<1>3. \A x \in Mine : ~Replaces(op) /\ ~Replaces(call[x].op)
  BY <1>1
<1>4. PatchOK
  BY <1>2, <1>3 DEF ReplaceOK, Replacing, Replaces, At
<1>5. /\ call'[c].by = "keys" /\ call'[c].op = op /\ call'[c].arg = k
      /\ call'[c].at \in {"find", "count", "stream"} /\ (op = "regenerate" => call'[c].at = "stream")
      /\ c \notin Mine /\ \A x \in Calls \ {c} : call'[x] = call[x]
  BY <1>1, AskedCalls
<1>6. Mine' = Mine \cup {c} /\ Mine \subseteq Calls /\ (\A x \in Mine : call'[x] = call[x]) /\ Made' = Made
  BY <1>1, <1>5, MineFacts DEF Made
<1>7. AsksOK'
  <2> SUFFICES ASSUME NEW x \in Mine' PROVE AsksOK!(x)'
    BY DEF AsksOK
  <2>1. CASE x = c
    BY <1>5, <1>6, <2>1
  <2>2. CASE x # c
    BY <1>2, <1>6, <2>2 DEF AsksOK
  <2> QED
    BY <2>1, <2>2
<1>8. CASE ~Replaces(op)
  <2>1. AloneOK'
    BY <1>3, <1>5, <1>6, <1>8 DEF AloneOK
  <2>2. Shown' = Shown
    BY <1>1 DEF Shown
  <2>3. \A o : \A x \in Mine' : /\ At(x, o, "answered")' <=> (x \in Mine /\ At(x, o, "answered"))
                                /\ x \in Mine => call'[x] = call[x]
    BY <1>5, <1>6 DEF At
  <2>4. Added' = Added
    BY <1>6, <2>3 DEF Added
  <2>5. Gone' = Gone
    BY <1>6, <2>3 DEF Gone
  <2>6. \A x \in Mine' : ~Replaces(call'[x].op)
    BY <1>3, <1>5, <1>6, <1>8
  <2>7. \A x \in Mine' : call'[x].op = "revoke" => call'[x].arg \notin Added'
    <3>1. op = "revoke" => k \notin Added
      BY <1>4 DEF PatchOK
    <3> QED
      BY <1>4, <1>5, <1>6, <2>4, <3>1 DEF PatchOK
  <2>8. \A x, y \in Mine' :
          At(x, "create", "answered")' /\ At(y, "create", "answered")' /\ x # y =>
            call'[x].saw \cap call'[y].saw = {}
    BY <1>4, <2>3 DEF PatchOK
  <2>9. PatchOK'
    BY <1>1, <1>4, <2>2, <2>4, <2>5, <2>6, <2>7, <2>8 DEF PatchOK
  <2> QED
    BY <1>7, <2>1, <2>9
<1>9. CASE Replaces(op)
  <2>1. Mine = {} /\ Mine' = {c} /\ op = "regenerate"
    BY <1>3, <1>6, <1>9 DEF Replaces
  <2>2. Added = {} /\ Gone = {}
    BY <2>1 DEF Added, Gone
  <2>3. active = Shown /\ listed = SetToBag(active)
    BY <1>4, <2>2 DEF PatchOK
  <2>4. Replacing(c)'
    BY <1>1, <1>5, <2>1, <2>3 DEF Replacing
  <2>5. ReplaceOK' /\ AloneOK'
    BY <2>1, <2>4 DEF ReplaceOK, AloneOK
  <2> QED
    BY <1>7, <2>5
<1> QED
  BY <1>8, <1>9

\* The page is told, and shows it.
LEMMA AnswersKeepPage ==
  ASSUME TableTypeOK, KeysInv, UNCHANGED scene, NEW c \in Calls, KeysAnswered(c) \/ KeysRefused(c)
  PROVE  KeysInv'
<1> SUFFICES ASSUME "keys" \in scene, ~crossed', ~unseen'
             PROVE  AsksOK' /\ AloneOK' /\ (PatchOK' \/ ReplaceOK')
  BY DEF KeysInv
<1>0. Forget(c) /\ Settled(c)
  BY DEF KeysAnswered, KeysRefused
<1>1. /\ c \in Mine /\ call' = [call EXCEPT ![c] = Idle] /\ UNCHANGED <<keyOf, active, unseen>>
      /\ call[c].at \in {"answered", "refused"} /\ (crossed => crossed')
  <2>1. UNCHANGED <<keyOf, active, unseen>>
    BY <1>0 DEF Settled, rows
  <2>2. call' = [call EXCEPT ![c] = Idle]
    BY <1>0 DEF Forget
  <2>3. c \in Mine /\ call[c].at \in {"answered", "refused"}
    BY DEF KeysAnswered, KeysRefused
  <2>4. crossed => crossed'
    BY DEF KeysAnswered, KeysRefused
  <2> QED
    BY <2>1, <2>2, <2>3, <2>4
<1>2. AsksOK /\ AloneOK /\ (PatchOK \/ ReplaceOK)
  BY <1>1 DEF KeysInv
<1>3. call'[c] = Idle /\ \A x \in Calls \ {c} : call'[x] = call[x]
  BY <1>1 DEF TableTypeOK
<1>4. Mine' = Mine \ {c} /\ Made' = Made /\ \A x \in Mine' : call'[x] = call[x]
  BY <1>1, <1>3, MineFacts, IdleRecord DEF Made
<1>5. AsksOK' /\ AloneOK'
  BY <1>2, <1>4 DEF AsksOK, AloneOK
<1>6. CASE Replaces(call[c].op)
  <2>1. Mine' = {} /\ Replacing(c)
    BY <1>1, <1>2, <1>4, <1>6, ReplaceGoes
  <2>2. listed' = SetToBag(active)
    <3>1. CASE KeysAnswered(c)
      <4>1. call[c].at = "answered" /\ listed' = Patched(call[c].op, call[c].arg, call[c].saw)
        BY <3>1 DEF KeysAnswered
      <4>2. call[c].saw = active
        BY <2>1, <4>1 DEF Replacing, At
      <4> QED
        BY <1>6, <4>1, <4>2 DEF Patched, Replaces
    <3>2. CASE KeysRefused(c)
      <4>1. call[c].at = "refused" /\ listed' = listed /\ call[c].op # "list"
        BY <3>2 DEF KeysRefused
      <4> QED
        BY <1>6, <2>1, <4>1 DEF Replacing, At, Replaces
    <3> QED
      BY <3>1, <3>2
  <2>3. Shown' = active /\ Added' = {} /\ Gone' = {}
    BY <2>1, <2>2, ListOfSet DEF Shown, Added, Gone
  <2>4. PatchOK'
    BY <1>1, <2>1, <2>2, <2>3 DEF PatchOK
  <2> QED
    BY <1>5, <2>4
<1>7. CASE ~Replaces(call[c].op)
  <2>1. PatchOK /\ call[c].op \in {"create", "revoke"}
    BY <1>1, <1>2, <1>7 DEF ReplaceOK, Replacing, AloneOK, At, AsksOK, Replaces
  <2>2. \A x \in Mine' : /\ ~Replaces(call'[x].op)
                         /\ call'[x].op = "revoke" => call'[x].arg \notin Added
    BY <1>4, <2>1 DEF PatchOK
  <2>3. \A x, y \in Mine' :
          At(x, "create", "answered")' /\ At(y, "create", "answered")' /\ x # y =>
            call'[x].saw \cap call'[y].saw = {}
    BY <1>4, <2>1 DEF PatchOK, At
  <2>4. /\ listed = SetToBag(Shown) /\ Added \cap Shown = {} /\ active = (Shown \cup Added) \ Gone
    BY <2>1 DEF PatchOK
  <2>5. \A j : /\ j \in Added' <=> j \in Made /\ \E x \in Mine \ {c} : At(x, "create", "answered") /\ j \in call[x].saw
               /\ j \in Gone' <=> j \in Made /\ \E x \in Mine \ {c} : At(x, "revoke", "answered") /\ call[x].arg = j
    BY <1>4 DEF Added, Gone, At
  <2>6. \A j : /\ j \in Added <=> j \in Made /\ \E x \in Mine : At(x, "create", "answered") /\ j \in call[x].saw
               /\ j \in Gone <=> j \in Made /\ \E x \in Mine : At(x, "revoke", "answered") /\ call[x].arg = j
    BY DEF Added, Gone
  <2>7. CASE KeysRefused(c)
    <3>1. call[c].at = "refused" /\ listed' = listed
      BY <2>7 DEF KeysRefused
    <3>2. Added' = Added /\ Gone' = Gone
      <4>1. \A op : ~At(c, op, "answered")
        BY <3>1 DEF At
      <4>2. \A j : j \in Added' <=> j \in Added
        BY <2>5, <2>6, <4>1
      <4>3. \A j : j \in Gone' <=> j \in Gone
        BY <2>5, <2>6, <4>1
      <4>4. Added' = Added
        BY <4>2
      <4>5. Gone' = Gone
        BY <4>3
      <4> QED
        BY <4>4, <4>5
    <3>3. Shown' = Shown
      BY <3>1 DEF Shown
    <3>4. PatchOK'
      BY <1>1, <2>2, <2>3, <2>4, <3>1, <3>2, <3>3 DEF PatchOK
    <3> QED
      BY <1>5, <3>4
  <2>8. CASE KeysAnswered(c) /\ call[c].op = "create"
    <3>1. call[c].at = "answered" /\ listed' = listed (+) SetToBag(call[c].saw)
      BY <2>8 DEF KeysAnswered, Patched
    <3>2. PICK k \in Made : call[c].saw = {k}
      BY <1>1, <1>2, <2>8, <3>1 DEF AsksOK
    <3>3. k \in Added /\ k \notin Shown
      BY <1>1, <2>4, <2>6, <2>8, <3>1, <3>2 DEF At
    <3>4. listed' = SetToBag(Shown \cup {k})
      BY <2>4, <3>1, <3>2, <3>3, ListOneMore
    <3>5. Shown' = Shown \cup {k}
      BY <3>4, ListOfSet DEF Shown
    <3>6. Gone' = Gone
      BY <2>5, <2>6, <2>8 DEF At
    <3>7. Added' = Added \ {k}
      <4>1. \A x \in Mine \ {c} : At(x, "create", "answered") => k \notin call[x].saw
        BY <1>1, <2>1, <2>8, <3>1, <3>2 DEF PatchOK, At
      <4>2. \A j : j \in Added' <=> j \in Added \ {k}
        BY <2>5, <2>6, <3>2, <4>1
      <4> QED
        BY <4>2
    <3>8. PatchOK'
      <4>1. listed' = SetToBag(Shown') /\ Added' \cap Shown' = {} /\ active' = (Shown' \cup Added') \ Gone'
        BY <1>1, <2>4, <3>3, <3>4, <3>5, <3>6, <3>7
      <4>2. \A x \in Mine' : call'[x].op = "revoke" => call'[x].arg \notin Added'
        BY <2>2, <3>7
      <4> QED
        BY <2>2, <2>3, <4>1, <4>2 DEF PatchOK
    <3> QED
      BY <1>5, <3>8
  <2>9. CASE KeysAnswered(c) /\ call[c].op = "revoke"
    <3> DEFINE k == call[c].arg
    <3>1. call[c].at = "answered" /\ listed' = Drop(listed, k) /\ k \in Made /\ k \notin Added
      BY <1>1, <1>2, <2>1, <2>9 DEF KeysAnswered, Patched, AsksOK, PatchOK
    <3>2. listed' = SetToBag(Shown \ {k})
      BY <2>4, <3>1, ListOneLess
    <3>3. Shown' = Shown \ {k}
      BY <3>2, ListOfSet DEF Shown
    <3>4. Added' = Added
      BY <2>5, <2>6, <2>9 DEF At
    <3>5. k \in Gone
      BY <1>1, <2>6, <2>9, <3>1 DEF At
    <3>6. \A j : j \in Gone <=> j \in Gone' \cup {k}
      BY <2>5, <2>6, <3>5
    <3>7. PatchOK'
      <4> HIDE DEF k
      <4>1. listed' = SetToBag(Shown') /\ Added' \cap Shown' = {} /\ active' = (Shown' \cup Added') \ Gone'
        BY <1>1, <2>4, <3>1, <3>2, <3>3, <3>4, <3>6
      <4> QED
        BY <2>2, <2>3, <3>4, <4>1 DEF PatchOK
    <3> QED
      BY <1>5, <3>7
  <2> QED
    BY <2>1, <2>7, <2>8, <2>9
<1> QED
  BY <1>6, <1>7

LEMMA StudioKeepsPage ==
  ASSUME TableTypeOK, KeysInv, UNCHANGED <<scene, listed, crossed>>, NEW c \in Calls, StudioStep(c)
  PROVE  KeysInv'
<1>1. CASE \E op \in {"detail", "end", "rotate"} : AskStudio(c, op)
  <2>1. PICK op \in {"detail", "end", "rotate"} : AskStudio(c, op)
    BY <1>1
  <2>2. call[c] = Idle /\ Request(c, "studio", op, 1) /\ UNCHANGED <<keyOf, active, unseen>>
    BY <2>1 DEF AskStudio, rows
  <2>3. call'[c].by = "studio" /\ c \notin Mine /\ \A x \in Calls \ {c} : call'[x] = call[x]
    BY <2>2, AskedCalls
  <2>4. Mine' = Mine /\ \A x \in Mine : Kept(x)
    BY <2>3, MineFacts DEF Kept
  <2> QED
    BY <2>2, <2>4, KeptFrame
<1>2. CASE StudioAnswered(c) \/ StudioRefused(c)
  <2>1. /\ call[c].by = "studio" /\ call' = [call EXCEPT ![c] = Idle] /\ UNCHANGED <<keyOf, active, unseen>>
    BY <1>2 DEF StudioAnswered, StudioRefused, Leave, OfStudio, rows
  <2>2. call'[c] = Idle /\ \A x \in Calls \ {c} : call'[x] = call[x]
    BY <2>1 DEF TableTypeOK
  <2>3. Mine' = Mine /\ \A x \in Mine : Kept(x)
    BY <2>1, <2>2, MineFacts, IdleRecord DEF Kept
  <2> QED
    BY <2>1, <2>3, KeptFrame
<1> QED
  BY <1>1, <1>2 DEF StudioStep, Poll, End, Rotate

LEMMA KeysNext == PlanInv /\ KeysInv /\ [Next]_vars => KeysInv'
<1> SUFFICES ASSUME PlanInv, KeysInv, [Next]_vars PROVE KeysInv'
  OBVIOUS
<1>1. TableTypeOK /\ Made \subseteq Nat
  BY DEF PlanInv, Made
<1>2. CASE Server
  <2>1. UNCHANGED <<scene, listed, crossed>>
    BY <1>2 DEF Server, keyPages, keysPage, others
  <2>2. CASE GoLive
    <3>1. Mine' = Mine /\ \A x \in Mine : Kept(x)
      BY <2>2 DEF GoLive, Mine, Kept
    <3> QED
      BY <2>1, <2>2, <3>1, KeptFrame DEF GoLive
  <2> QED
    BY <1>1, <1>2, <2>1, <2>2, ServerKeepsPage, UnseenFrame DEF Server, GoOffline, NewStream
<1>3. CASE Keys
  <2>1. UNCHANGED scene
    BY <1>3 DEF Keys, others
  <2>2. CASE Entitled
    <3>1. Mine' = Mine /\ \A x \in Mine : Kept(x)
      BY <2>2 DEF Entitled, table, Mine, Kept
    <3> QED
      BY <2>1, <2>2, <3>1, KeptFrame DEF Entitled, table, rows
  <2>3. ASSUME NEW c \in Calls, KeysPageStep(c) PROVE KeysInv'
    BY <1>1, <2>1, <2>3, AsksKeepPage, AnswersKeepPage
       DEF KeysPageStep, Create, Revoke, RotateAll, OffersRevoke
  <2> QED
    BY <1>3, <2>2, <2>3 DEF Keys
<1>4. CASE Studio
  <2>1. UNCHANGED <<scene, listed, crossed>>
    BY <1>4 DEF Studio, keysPage, others
  <2> QED
    BY <1>1, <1>4, <2>1, StudioKeepsPage DEF Studio
<1>5. CASE UNCHANGED <<scene, table, keyPages>>
  <2>1. UNCHANGED <<scene, keyOf, active, listed, crossed, unseen, call>>
    BY <1>5 DEF table, rows, keyPages, keysPage
  <2>2. Mine' = Mine /\ \A x \in Mine : Kept(x)
    BY <2>1 DEF Mine, Kept
  <2> QED
    BY <2>1, <2>2, KeptFrame
<1>6. CASE InPanels \/ Paying \/ Browsing
  <2>1. CASE Browsing
    BY <1>5, <2>1 DEF Browsing
  <2> QED
    BY <1>5, <1>6, <2>1 DEF InPanels, Paying
<1> QED
  BY <1>2, <1>3, <1>4, <1>5, <1>6 DEF Next, vars, keyPages

LEMMA KeysStart == Init => KeysInv
<1> SUFFICES ASSUME Init, "keys" \in scene PROVE AsksOK /\ AloneOK /\ ReplaceOK
  BY DEF KeysInv
<1> DEFINE r == [Idle EXCEPT !.by = "keys", !.op = "list", !.at = "find"]
<1>1. PICK c \in Calls : call = [x \in Calls |-> IF x = c /\ "keys" \in scene THEN r ELSE Idle]
  BY DEF Init
<1>2. r.by = "keys" /\ r.op = "list" /\ r.at = "find"
  BY DEF Idle
<1> HIDE DEF r
<1>3. call[c] = r /\ \A x \in Calls \ {c} : call[x] = Idle
  BY <1>1
<1>4. Mine = {c}
  BY <1>2, <1>3, IdleRecord DEF Mine
<1> QED
  BY <1>2, <1>3, <1>4 DEF AsksOK, AloneOK, ReplaceOK, Replacing, At

\* At rest nothing is left to be told.
LEMMA KeysRest == KeysInv => KeysAsShown
<1> SUFFICES ASSUME KeysInv, "keys" \in scene, Mine = {}, ~crossed, ~unseen PROVE listed = SetToBag(active)
  BY DEF KeysAsShown
<1>1. PatchOK
  BY DEF KeysInv, ReplaceOK
<1>2. Added = {} /\ Gone = {}
  BY DEF Added, Gone
<1> QED
  BY <1>1, <1>2 DEF PatchOK

----------------------------------------------------------------------------
(* The panels of the studio.                                               *)

\* Handler t of the panel of list l is yet to read l, has read what is stored and nothing
\* newer, or will say that it was overtaken.
HasRead(t, l) == Stands(t, "answered") \/ (Stands(t, "load") /\ l \notin task[t].todo)
ToRead(t, l) == Stands(t, "changed") \/ (Stands(t, "load") /\ l \in task[t].todo)
\* Who reads comes after those that have read.
TasksOK ==
  \A t \in Tasks :
    /\ task[t].panel = "none" <=> task[t].at = "idle"
    /\ task[t].panel = "none" => task[t] = Free
    /\ task[t].late => task[t].at \in {"load", "answered"}
    /\ task[t].list # "none" => PanelOf(task[t].list) = task[t].panel
    /\ task[t].at \in {"change", "changed"} => task[t].list # "none"
    /\ task[t].todo \subseteq ListsOf(task[t].panel)
    /\ \A x \in task[t].after : task[x].at \in {"load", "answered"}
\* Whoever has read an old list is followed by one that will read it, or has read the new.
FollowedOK ==
  \A l \in Lists : \A x \in HandlersOf(PanelOf(l)) :
    PanelOf(l) \notin outdated /\ HasRead(x, l) /\ ~task[x].late /\ task[x].saw[l] # store[l] =>
      \E t \in HandlersOf(PanelOf(l)) \ {x} :
        \/ ToRead(t, l) \/ task[t].late
        \/ HasRead(t, l) /\ task[t].saw[l] = store[l] /\ x \in task[t].after
\* What is shown is stored, or will be.
ShownOK ==
  \A l \in Lists :
    PanelOf(l) \notin outdated /\ shown[l] # store[l] =>
      \E t \in HandlersOf(PanelOf(l)) :
        \/ ToRead(t, l) \/ task[t].late
        \/ HasRead(t, l) /\ task[t].saw[l] = store[l]
PanelsInv == PanelsTypeOK /\ TasksOK /\ FollowedOK /\ ShownOK

LEMMA PanelsAndLists ==
  /\ \A l \in Lists : PanelOf(l) \in Panels /\ l \in ListsOf(PanelOf(l))
  /\ \A p \in Panels : ListsOf(p) \subseteq Lists /\ p # "none"
  /\ \A p \in Panels, l \in Lists : l \in ListsOf(p) <=> PanelOf(l) = p
  /\ "none" \notin Lists
BY DEF Lists, Panels, PanelOf, ListsOf

LEMMA FreeRecord ==
  /\ Free \in TaskRecord /\ Free.panel = "none" /\ Free.at = "idle" /\ Free.list = "none"
  /\ Free.todo = {} /\ Free.after = {} /\ ~Free.late /\ Nothing \in [Lists -> SUBSET Nat]
BY DEF Free, TaskRecord, Nothing, Lists, Panels

\* What a handler is when a part of it changes.
LEMMA TaskParts ==
  ASSUME NEW r \in TaskRecord
  PROVE  /\ r.panel \in Panels \cup {"none"} /\ r.list \in Lists \cup {"none"} /\ r.item \in Nat
         /\ r.add \in BOOLEAN /\ r.todo \subseteq Lists /\ r.saw \in [Lists -> SUBSET Nat] /\ r.after \subseteq Tasks
         /\ r.at \in {"idle", "change", "changed", "load", "answered"} /\ r.late \in BOOLEAN
BY DEF TaskRecord

LEMMA SameTask ==
  ASSUME NEW r \in TaskRecord, NEW after, after = r.after, NEW late, late = r.late
  PROVE  [r EXCEPT !.after = after, !.late = late] = r
BY DEF TaskRecord

\* A handler is started.
LEMMA StartFrame ==
  ASSUME PanelsInv, NEW t \in Tasks, NEW j \in TaskRecord, Starts(t, j),
         UNCHANGED <<store, shown, outdated>>, issued' \in Nat, lapses' \in Nat,
         waiting' \in [Panels -> BOOLEAN], busy' \in [Panels -> BOOLEAN],
         j.panel \in Panels, ~j.late, j.after = {},
         \/ j.at = "change" /\ j.list \in Lists /\ PanelOf(j.list) = j.panel /\ j.todo = {}
         \/ j.at = "load" /\ j.list = "none" /\ j.todo = ListsOf(j.panel)
  PROVE  PanelsInv'
<1>1. /\ task' = [task EXCEPT ![t] = j] /\ task \in [Tasks -> TaskRecord] /\ task[t] = Free
  BY DEF Starts, PanelsInv, PanelsTypeOK
<1>2. PanelsTypeOK'
  BY <1>1 DEF PanelsInv, PanelsTypeOK
<1>3. task'[t] = j /\ \A x \in Tasks \ {t} : task'[x] = task[x]
  BY <1>1
<1>4. TasksOK'
  <2>1. \A x \in Tasks : t \notin task[x].after
    BY <1>1, FreeRecord DEF PanelsInv, TasksOK
  <2>2. ASSUME NEW x \in Tasks PROVE TasksOK!(x)'
    <3>1. CASE x = t
      BY <1>3, <3>1, PanelsAndLists DEF Stands
    <3>2. CASE x # t
      <4>1. task'[x] = task[x] /\ \A y \in task[x].after : y \in Tasks \ {t}
        BY <1>1, <1>3, <2>1, <3>2, TaskParts
      <4> QED
        BY <1>3, <4>1 DEF PanelsInv, TasksOK
    <3> QED
      BY <3>1, <3>2
  <2> QED
    BY <2>2 DEF TasksOK
<1>5. \A l \in Lists : /\ ~HasRead(t, l)'
                       \/ l \notin ListsOf(j.panel)
  BY <1>3 DEF HasRead, Stands
<1>6. \A l \in Lists : \A x \in Tasks : x \in HandlersOf(PanelOf(l))' =>
        (x = t /\ ~HasRead(t, l)') \/ (x # t /\ x \in HandlersOf(PanelOf(l)))
  BY <1>3, <1>5, PanelsAndLists DEF HandlersOf
<1>7. \A l \in Lists : t \notin HandlersOf(PanelOf(l))
  BY <1>1, FreeRecord, PanelsAndLists DEF HandlersOf
<1>8. \A l \in Lists, x \in Tasks \ {t} :
        /\ x \in HandlersOf(PanelOf(l))' <=> x \in HandlersOf(PanelOf(l))
        /\ HasRead(x, l)' <=> HasRead(x, l)
        /\ ToRead(x, l)' <=> ToRead(x, l)
  BY <1>3 DEF HandlersOf, HasRead, ToRead, Stands
<1>9. HandlersOf("invites") \subseteq Tasks /\ \A l \in Lists : HandlersOf(PanelOf(l)) \subseteq Tasks /\ HandlersOf(PanelOf(l))' \subseteq Tasks
  BY DEF HandlersOf
<1>10. FollowedOK'
  BY <1>3, <1>6, <1>7, <1>8, <1>9 DEF PanelsInv, FollowedOK
<1>11. ShownOK'
  BY <1>3, <1>7, <1>8, <1>9 DEF PanelsInv, ShownOK
<1> QED
  BY <1>2, <1>4, <1>10, <1>11 DEF PanelsInv

\* The handlers that start.
LEMMA ChangeRecord ==
  ASSUME NEW l \in Lists, NEW add \in BOOLEAN, NEW i \in Nat
  PROVE  LET j == Change(PanelOf(l), l, add, i) IN
         /\ j \in TaskRecord /\ j.panel = PanelOf(l) /\ j.list = l /\ j.at = "change" /\ j.todo = {}
         /\ j.after = {} /\ ~j.late
BY DEF Change, Free, TaskRecord, Nothing, Lists, Panels, PanelOf

LEMMA ReadingRecord ==
  ASSUME NEW p \in Panels
  PROVE  LET j == Reading(p) IN
         /\ j \in TaskRecord /\ j.panel = p /\ j.list = "none" /\ j.at = "load" /\ j.todo = ListsOf(p)
         /\ j.after = {} /\ ~j.late
BY DEF Reading, Free, TaskRecord, Nothing, Lists, Panels, ListsOf

LEMMA StartsInv ==
  ASSUME PanelsInv, NEW t \in Tasks, NEW i \in Nat,
         \/ CreateInvite(t) \/ Refresh(t) \/ RevokeInvite(t, i) \/ AddWord(t, i)
         \/ RemoveWord(t, i) \/ Unban(t, i) \/ BanFromChat(t, i)
  PROVE  PanelsInv'
<1> DEFINE Same == /\ UNCHANGED <<store, shown, outdated>> /\ issued' \in Nat /\ lapses' \in Nat
                   /\ waiting' \in [Panels -> BOOLEAN] /\ busy' \in [Panels -> BOOLEAN]
<1>1. /\ waiting \in [Panels -> BOOLEAN] /\ busy \in [Panels -> BOOLEAN]
      /\ issued \in Nat /\ lapses \in Nat /\ i \in Nat /\ 0 \in Nat
      /\ "invites" \in Panels /\ "moderation" \in Panels
      /\ "invites" \in Lists /\ "bans" \in Lists /\ "words" \in Lists
      /\ PanelOf("invites") = "invites" /\ PanelOf("bans") = "moderation" /\ PanelOf("words") = "moderation"
  BY DEF PanelsInv, PanelsTypeOK, Items, Panels, Lists, PanelOf
<1>2. Same
  BY <1>1 DEF CreateInvite, Refresh, RevokeInvite, AddWord, RemoveWord, Unban, BanFromChat, Moderate
<1>3. ASSUME NEW l \in Lists, NEW add \in BOOLEAN, NEW k \in Nat, Starts(t, Change(PanelOf(l), l, add, k))
      PROVE  PanelsInv'
  <2> DEFINE j == Change(PanelOf(l), l, add, k)
  <2>1. /\ j \in TaskRecord /\ j.panel = PanelOf(l) /\ j.list = l /\ j.at = "change" /\ j.todo = {}
        /\ j.after = {} /\ ~j.late /\ Starts(t, j)
    BY <1>3, ChangeRecord
  <2>2. PanelOf(l) \in Panels
    BY PanelsAndLists
  <2> HIDE DEF j
  <2> QED
    BY <1>2, <2>1, <2>2, StartFrame
<1>4. CASE Refresh(t)
  <2> DEFINE j == Reading("moderation")
  <2>1. /\ j \in TaskRecord /\ j.panel = "moderation" /\ j.list = "none" /\ j.at = "load"
        /\ j.todo = ListsOf("moderation") /\ j.after = {} /\ ~j.late /\ Starts(t, j)
    BY <1>1, <1>4, ReadingRecord DEF Refresh
  <2> HIDE DEF j
  <2> QED
    BY <1>1, <1>2, <2>1, StartFrame
<1>5. CASE CreateInvite(t)
  <2>1. Starts(t, Change(PanelOf("invites"), "invites", TRUE, 0))
    BY <1>1, <1>5 DEF CreateInvite
  <2> QED
    BY <1>1, <1>3, <2>1
<1>6. CASE RevokeInvite(t, i)
  <2>1. Starts(t, Change(PanelOf("invites"), "invites", FALSE, i))
    BY <1>1, <1>6 DEF RevokeInvite
  <2> QED
    BY <1>1, <1>3, <2>1
<1>7. CASE AddWord(t, i)
  <2>1. Starts(t, Change(PanelOf("words"), "words", TRUE, i))
    BY <1>1, <1>7 DEF AddWord, Moderate
  <2> QED
    BY <1>1, <1>3, <2>1
<1>8. CASE RemoveWord(t, i)
  <2>1. Starts(t, Change(PanelOf("words"), "words", FALSE, i))
    BY <1>1, <1>8 DEF RemoveWord, Moderate
  <2> QED
    BY <1>1, <1>3, <2>1
<1>9. CASE Unban(t, i)
  <2>1. Starts(t, Change(PanelOf("bans"), "bans", FALSE, i))
    BY <1>1, <1>9 DEF Unban, Moderate
  <2> QED
    BY <1>1, <1>3, <2>1
<1>10. CASE BanFromChat(t, i)
  <2>1. Starts(t, Change(PanelOf("bans"), "bans", TRUE, i))
    BY <1>1, <1>10 DEF BanFromChat
  <2> QED
    BY <1>1, <1>3, <2>1
<1> QED
  BY <1>4, <1>5, <1>6, <1>7, <1>8, <1>9, <1>10

\* A handler goes on from its change, and is to read all its lists: the others are told nothing.
LEMMA GoesFrame ==
  ASSUME PanelsInv, NEW t \in Tasks, NEW j \in TaskRecord, task' = [task EXCEPT ![t] = j],
         UNCHANGED <<shown, outdated>>, store' \in [Lists -> SUBSET Nat],
         issued' \in Nat, waiting' \in [Panels -> BOOLEAN], UNCHANGED <<busy, lapses>>,
         task[t].at \in {"change", "changed"},
         j.panel = task[t].panel, j.list = task[t].list, j.late = task[t].late, j.after = task[t].after,
         \/ j.at = "changed" /\ j.todo = task[t].todo
            /\ \A l \in Lists \ {j.list} : store'[l] = store[l]
         \/ j.at = "load" /\ j.todo = ListsOf(j.panel) /\ store' = store
  PROVE  PanelsInv'
<1>1. /\ task \in [Tasks -> TaskRecord] /\ task'[t] = j /\ \A x \in Tasks \ {t} : task'[x] = task[x]
  BY DEF PanelsInv, PanelsTypeOK
<1>2. /\ j.panel \in Panels /\ j.list \in Lists /\ PanelOf(j.list) = j.panel /\ ~j.late
  BY <1>1, TaskParts DEF PanelsInv, TasksOK
<1>3. PanelsTypeOK'
  BY DEF PanelsInv, PanelsTypeOK
<1>4. TasksOK'
  <2>1. \A x \in Tasks : t \notin task[x].after
    BY DEF PanelsInv, TasksOK
  <2>2. ASSUME NEW x \in Tasks PROVE TasksOK!(x)'
    <3>1. CASE x = t
      <4>1. \A y \in j.after : y \in Tasks \ {t} /\ task[y].at \in {"load", "answered"}
        BY <1>1, <2>1, TaskParts DEF PanelsInv, TasksOK
      <4>2. j.todo \subseteq ListsOf(j.panel)
        BY DEF PanelsInv, TasksOK
      <4> QED
        BY <1>1, <1>2, <3>1, <4>1, <4>2, PanelsAndLists DEF Stands
    <3>2. CASE x # t
      <4>1. task'[x] = task[x] /\ \A y \in task[x].after : y \in Tasks \ {t}
        BY <1>1, <2>1, <3>2, TaskParts
      <4> QED
        BY <1>1, <4>1 DEF PanelsInv, TasksOK
    <3> QED
      BY <3>1, <3>2
  <2> QED
    BY <2>2 DEF TasksOK
<1>5. \A l \in Lists, x \in Tasks :
        /\ x \in HandlersOf(PanelOf(l))' <=> x \in HandlersOf(PanelOf(l))
        /\ x # t => (HasRead(x, l)' <=> HasRead(x, l)) /\ (ToRead(x, l)' <=> ToRead(x, l))
  BY <1>1 DEF HandlersOf, HasRead, ToRead, Stands
<1>6. ASSUME NEW l \in Lists, t \in HandlersOf(PanelOf(l))
      PROVE  ~HasRead(t, l) /\ ~HasRead(t, l)' /\ ToRead(t, l)' /\ ~task[t].late
  <2>1. PanelOf(l) = j.panel /\ l \in ListsOf(j.panel)
    BY <1>6, PanelsAndLists DEF HandlersOf
  <2> QED
    BY <1>1, <1>2, <2>1 DEF HasRead, ToRead, Stands
<1>7. ASSUME NEW l \in Lists, store'[l] # store[l] PROVE t \in HandlersOf(PanelOf(l))
  BY <1>2, <1>7 DEF HandlersOf
<1>8. \A l \in Lists : HandlersOf(PanelOf(l)) \subseteq Tasks
  BY DEF HandlersOf
<1>9. FollowedOK'
  <2> SUFFICES ASSUME NEW l \in Lists, NEW x \in HandlersOf(PanelOf(l))',
                      PanelOf(l) \notin outdated, HasRead(x, l)', ~task'[x].late, task'[x].saw[l] # store'[l]
               PROVE  \E u \in HandlersOf(PanelOf(l))' \ {x} :
                        \/ ToRead(u, l)' \/ task'[u].late
                        \/ HasRead(u, l)' /\ task'[u].saw[l] = store'[l] /\ x \in task'[u].after
    BY DEF FollowedOK
  <2>1. x \in Tasks /\ x \in HandlersOf(PanelOf(l))
    BY <1>5 DEF HandlersOf
  <2>2. x # t
    BY <1>6, <2>1
  <2>3. CASE t \in HandlersOf(PanelOf(l))
    BY <1>5, <1>6, <2>2, <2>3
  <2>4. CASE t \notin HandlersOf(PanelOf(l))
    <3>1. PICK u \in HandlersOf(PanelOf(l)) \ {x} :
            \/ ToRead(u, l) \/ task[u].late
            \/ HasRead(u, l) /\ task[u].saw[l] = store[l] /\ x \in task[u].after
      BY <1>1, <1>5, <1>7, <2>1, <2>2, <2>4 DEF PanelsInv, FollowedOK
    <3>2. u # t /\ u \in Tasks
      BY <1>8, <2>4, <3>1
    <3> QED
      BY <1>1, <1>5, <1>7, <2>4, <3>1, <3>2
  <2> QED
    BY <2>3, <2>4
<1>10. ShownOK'
  <2> SUFFICES ASSUME NEW l \in Lists, PanelOf(l) \notin outdated, shown[l] # store'[l]
               PROVE  \E u \in HandlersOf(PanelOf(l))' :
                        \/ ToRead(u, l)' \/ task'[u].late
                        \/ HasRead(u, l)' /\ task'[u].saw[l] = store'[l]
    BY DEF ShownOK
  <2>1. CASE t \in HandlersOf(PanelOf(l))
    BY <1>5, <1>6, <2>1
  <2>2. CASE t \notin HandlersOf(PanelOf(l))
    <3>1. PICK u \in HandlersOf(PanelOf(l)) :
            \/ ToRead(u, l) \/ task[u].late
            \/ HasRead(u, l) /\ task[u].saw[l] = store[l]
      BY <1>7, <2>2 DEF PanelsInv, ShownOK
    <3>2. u # t /\ u \in Tasks
      BY <1>8, <2>2, <3>1
    <3> QED
      BY <1>1, <1>5, <1>7, <2>2, <3>1, <3>2
  <2> QED
    BY <2>1, <2>2
<1> QED
  BY <1>3, <1>4, <1>9, <1>10 DEF PanelsInv

\* A row is changed.
LEMMA AppliedInv ==
  ASSUME PanelsInv, NEW t \in Tasks, NEW l \in Lists, NEW items \in SUBSET Nat, Applied(t, l, items),
         issued' \in Nat, lapses' = lapses
  PROVE  PanelsInv'
<1> DEFINE j == [task[t] EXCEPT !.at = "changed"]
<1>1. task[t] \in TaskRecord /\ store \in [Lists -> SUBSET Nat] /\ waiting \in [Panels -> BOOLEAN]
  BY DEF PanelsInv, PanelsTypeOK
<1>2. /\ j \in TaskRecord /\ j.at = "changed" /\ j.panel = task[t].panel /\ j.list = task[t].list
      /\ j.late = task[t].late /\ j.after = task[t].after /\ j.todo = task[t].todo
  BY <1>1 DEF TaskRecord
<1>3. /\ task' = [task EXCEPT ![t] = j] /\ store' = [store EXCEPT ![l] = items] /\ task[t].list = l
      /\ task[t].at = "change" /\ UNCHANGED <<shown, waiting, busy, outdated>>
  BY DEF Applied, Stands
<1>4. store' \in [Lists -> SUBSET Nat] /\ \A m \in Lists \ {l} : store'[m] = store[m]
  BY <1>1, <1>3
<1> HIDE DEF j
<1> QED
  BY <1>1, <1>2, <1>3, <1>4, GoesFrame

LEMMA RowsInv ==
  ASSUME PanelsInv, NEW t \in Tasks,
         StoreInvite(t) \/ WithdrawInvite(t) \/ StoreBan(t) \/ LiftBan(t) \/ StoreWord(t) \/ DropWord(t)
  PROVE  PanelsInv'
<1>1. /\ store \in [Lists -> SUBSET Nat] /\ issued \in Nat /\ task[t] \in TaskRecord
      /\ "invites" \in Lists /\ "bans" \in Lists /\ "words" \in Lists
  BY DEF PanelsInv, PanelsTypeOK, Lists
<1>2. task[t].item \in Nat
  BY <1>1, TaskParts
<1>3. /\ \A l \in Lists : Plus(t, l) \in SUBSET Nat /\ Less(t, l) \in SUBSET Nat /\ store[l] \in SUBSET Nat
      /\ store["invites"] \cup {issued + 1} \in SUBSET Nat
  BY <1>1, <1>2 DEF Plus, Less
<1>4. lapses' = lapses /\ issued' \in Nat
  BY <1>1 DEF StoreInvite, WithdrawInvite, StoreBan, LiftBan, StoreWord, DropWord, Applied
<1>5. \E l \in Lists : \E items \in SUBSET Nat : Applied(t, l, items)
  BY <1>1, <1>3 DEF StoreInvite, WithdrawInvite, StoreBan, LiftBan, StoreWord, DropWord
<1> QED
  BY <1>4, <1>5, AppliedInv

\* The list is to be loaded again.
LEMMA ChangedInv ==
  ASSUME PanelsInv, NEW t \in Tasks, Changed(t)
  PROVE  PanelsInv'
<1> DEFINE j == Reload(t)
<1>1. /\ task[t] \in TaskRecord /\ store \in [Lists -> SUBSET Nat] /\ waiting \in [Panels -> BOOLEAN]
      /\ issued \in Nat /\ task[t].at = "changed" /\ "moderation" \in Panels
  BY DEF PanelsInv, PanelsTypeOK, Changed, Stands, Panels
<1>2. task[t].panel \in Panels
  BY <1>1, TaskParts DEF PanelsInv, TasksOK
<1>3. ListsOf(task[t].panel) \subseteq Lists
  BY <1>2, PanelsAndLists
<1>4. /\ j \in TaskRecord /\ j.at = "load" /\ j.panel = task[t].panel /\ j.list = task[t].list
      /\ j.late = task[t].late /\ j.after = task[t].after /\ j.todo = ListsOf(task[t].panel)
  BY <1>1, <1>3 DEF TaskRecord, Reload
<1>5. /\ task' = [task EXCEPT ![t] = j] /\ waiting' \in [Panels -> BOOLEAN]
      /\ UNCHANGED <<store, issued, shown, busy, lapses, outdated>>
  BY <1>1 DEF Changed
<1> HIDE DEF j
<1> QED
  BY <1>1, <1>4, <1>5, GoesFrame

\* A list is read: what was read before is older.
LEMMA ListedInv ==
  ASSUME PanelsInv, NEW t \in Tasks, NEW m \in Lists, Listed(t, m)
  PROVE  PanelsInv'
<1> DEFINE before == {x \in HandlersOf(task[t].panel) \ {t} :
                        x \notin task[t].after /\ (Stands(x, "answered") \/ (Stands(x, "load") /\ m \notin task[x].todo))}
           j == [task[t] EXCEPT !.saw[m] = store[m], !.todo = @ \ {m},
                                !.at = IF task[t].todo = {m} THEN "answered" ELSE "load",
                                !.after = @ \cup before]
<1>1. /\ task \in [Tasks -> TaskRecord] /\ task[t] \in TaskRecord /\ store \in [Lists -> SUBSET Nat]
      /\ task[t].at = "load" /\ m \in task[t].todo
  BY DEF PanelsInv, PanelsTypeOK, Listed, Stands
<1>2. before \subseteq Tasks
  BY DEF HandlersOf
<1>3. /\ j \in TaskRecord /\ j.panel = task[t].panel /\ j.list = task[t].list /\ j.late = task[t].late
      /\ j.todo = task[t].todo \ {m} /\ j.after = task[t].after \cup before
      /\ j.at = (IF task[t].todo = {m} THEN "answered" ELSE "load")
      /\ j.saw[m] = store[m] /\ \A l \in Lists \ {m} : j.saw[l] = task[t].saw[l]
  <2> HIDE DEF before
  <2> QED
    BY <1>1, <1>2 DEF TaskRecord
<1>4. task' = [task EXCEPT ![t] = j] /\ UNCHANGED <<store, issued, shown, waiting, busy, lapses, outdated>>
  BY <1>1 DEF Listed
<1>5. \A x \in Tasks : x \in HandlersOf(task[t].panel) \ {t} /\ HasRead(x, m) => x \in j.after
  BY <1>3 DEF HasRead
<1>6. \A x \in before : task[x].at \in {"load", "answered"} /\ x # t
  BY DEF Stands
<1> HIDE DEF j, before
<1>7. task'[t] = j /\ \A x \in Tasks \ {t} : task'[x] = task[x]
  BY <1>1, <1>4
<1>8. PanelsTypeOK'
  BY <1>1, <1>3, <1>4 DEF PanelsInv, PanelsTypeOK
<1>9. \A x \in Tasks : /\ task'[x].panel = task[x].panel /\ task'[x].list = task[x].list
                       /\ task'[x].late = task[x].late /\ task'[x].todo \subseteq task[x].todo
                       /\ task[x].at \in {"load", "answered"} => task'[x].at \in {"load", "answered"}
  BY <1>1, <1>3, <1>7
<1>10. TasksOK'
  <2> SUFFICES ASSUME NEW x \in Tasks PROVE TasksOK!(x)'
    BY DEF TasksOK
  <2>1. TasksOK!(x)
    BY DEF PanelsInv, TasksOK
  <2>2. \A y \in task'[x].after : task'[y].at \in {"load", "answered"}
    <3>1. \A y \in task'[x].after : y \in Tasks /\ task[y].at \in {"load", "answered"}
      BY <1>1, <1>2, <1>3, <1>6, <1>7, <2>1, TaskParts DEF PanelsInv, TasksOK
    <3> QED
      BY <1>9, <3>1
  <2>3. CASE x = t
    <3>1. task[t].panel # "none" /\ j.at \in {"load", "answered"}
      BY <1>1, <1>3, <2>1, <2>3
    <3> QED
      BY <1>3, <1>7, <2>1, <2>2, <2>3, <3>1
  <2>4. CASE x # t
    <3>1. task'[x] = task[x]
      BY <1>7, <2>4
    <3> QED
      BY <2>1, <2>2, <3>1
  <2> QED
    BY <2>3, <2>4
<1>11. \A l \in Lists, x \in Tasks :
        /\ x \in HandlersOf(PanelOf(l))' <=> x \in HandlersOf(PanelOf(l))
        /\ x # t => (HasRead(x, l)' <=> HasRead(x, l)) /\ (ToRead(x, l)' <=> ToRead(x, l))
  BY <1>7, <1>9 DEF HandlersOf, HasRead, ToRead, Stands
<1>12. HasRead(t, m)' /\ task'[t].saw[m] = store'[m] /\ ToRead(t, m) /\ ~HasRead(t, m)
  BY <1>1, <1>3, <1>4, <1>7 DEF HasRead, ToRead, Stands
<1>13. ASSUME NEW l \in Lists \ {m}
       PROVE  /\ ToRead(t, l) => ToRead(t, l)'
              /\ t \in HandlersOf(PanelOf(l)) => (HasRead(t, l)' => HasRead(t, l))
              /\ HasRead(t, l) => HasRead(t, l)' /\ task'[t].saw[l] = task[t].saw[l]
  <2>1. task'[t].saw[l] = task[t].saw[l]
    BY <1>3, <1>7
  <2>2. task'[t].todo = task[t].todo \ {m} /\ task'[t].at = (IF task[t].todo = {m} THEN "answered" ELSE "load")
    BY <1>3, <1>7
  <2> QED
    BY <1>1, <2>1, <2>2 DEF HasRead, ToRead, Stands
<1>14. \A l \in Lists : HandlersOf(PanelOf(l)) \subseteq Tasks
  BY DEF HandlersOf
<1>15. ASSUME NEW l \in Lists, NEW u \in HandlersOf(PanelOf(l)),
              ToRead(u, l) \/ task[u].late \/ (HasRead(u, l) /\ task[u].saw[l] = store[l])
       PROVE  ToRead(u, l)' \/ task'[u].late \/ (HasRead(u, l)' /\ task'[u].saw[l] = store'[l])
  <2>1. u \in Tasks
    BY <1>14
  <2>2. CASE u # t
    BY <1>4, <1>7, <1>11, <1>15, <2>1, <2>2
  <2>3. CASE u = t
    BY <1>4, <1>9, <1>12, <1>13, <1>15, <2>1, <2>3
  <2> QED
    BY <2>2, <2>3
<1>16. ShownOK'
  <2> SUFFICES ASSUME NEW l \in Lists, PanelOf(l) \notin outdated, shown[l] # store[l]
               PROVE  \E u \in HandlersOf(PanelOf(l))' :
                        \/ ToRead(u, l)' \/ task'[u].late
                        \/ HasRead(u, l)' /\ task'[u].saw[l] = store'[l]
    BY <1>4 DEF ShownOK
  <2>1. PICK u \in HandlersOf(PanelOf(l)) :
            \/ ToRead(u, l) \/ task[u].late
            \/ HasRead(u, l) /\ task[u].saw[l] = store[l]
    BY DEF PanelsInv, ShownOK
  <2> QED
    BY <1>11, <1>14, <1>15, <2>1
<1>17. FollowedOK'
  <2> SUFFICES ASSUME NEW l \in Lists, NEW x \in HandlersOf(PanelOf(l))',
                      PanelOf(l) \notin outdated, HasRead(x, l)', ~task'[x].late, task'[x].saw[l] # store'[l]
               PROVE  \E u \in HandlersOf(PanelOf(l))' \ {x} :
                        \/ ToRead(u, l)' \/ task'[u].late
                        \/ HasRead(u, l)' /\ task'[u].saw[l] = store'[l] /\ x \in task'[u].after
    BY <1>4 DEF FollowedOK
  <2>1. x \in Tasks /\ x \in HandlersOf(PanelOf(l)) /\ ~task[x].late
    BY <1>9, <1>11 DEF HandlersOf
  <2>2. HasRead(x, l) /\ task[x].saw[l] # store[l]
    <3>1. CASE x # t
      BY <1>4, <1>7, <1>11, <2>1, <3>1
    <3>2. CASE x = t
      <4>1. l # m
        BY <1>12, <3>2
      <4> QED
        BY <1>4, <1>13, <2>1, <3>2, <4>1
    <3> QED
      BY <3>1, <3>2
  <2>3. PICK u \in HandlersOf(PanelOf(l)) \ {x} :
            \/ ToRead(u, l) \/ task[u].late
            \/ HasRead(u, l) /\ task[u].saw[l] = store[l] /\ x \in task[u].after
    BY <2>1, <2>2 DEF PanelsInv, FollowedOK
  <2>4. u \in Tasks /\ u \in HandlersOf(PanelOf(l))' \ {x}
    BY <1>11, <1>14, <2>3
  <2>5. ToRead(u, l)' \/ task'[u].late \/ (HasRead(u, l)' /\ task'[u].saw[l] = store'[l])
    BY <1>15, <2>3
  <2>6. x \in task[u].after => x \in task'[u].after
    BY <1>3, <1>7, <2>4
  <2>7. CASE ToRead(u, l) /\ u = t /\ l = m
    <3>1. x \in HandlersOf(task[t].panel) \ {t}
      BY <2>1, <2>3, <2>7 DEF HandlersOf
    <3>2. x \in task'[t].after
      BY <1>5, <1>7, <2>1, <2>2, <2>7, <3>1
    <3> QED
      BY <2>4, <2>5, <2>7, <3>2
  <2>8. CASE ToRead(u, l) /\ ~(u = t /\ l = m)
    <3>1. ToRead(u, l)'
      BY <1>11, <1>13, <2>4, <2>8
    <3> QED
      BY <2>4, <3>1
  <2>9. CASE ~ToRead(u, l)
    <3>1. task[u].late \/ x \in task[u].after
      BY <2>3, <2>9
    <3> QED
      BY <1>9, <2>4, <2>5, <2>6, <3>1
  <2> QED
    BY <2>7, <2>8, <2>9
<1> QED
  BY <1>8, <1>10, <1>16, <1>17 DEF PanelsInv

\* A handler is over.
LEMMA OverFacts ==
  ASSUME PanelsTypeOK, NEW t \in Tasks, task' = Over(t) \/ task' = [Over(t) EXCEPT ![t] = Free]
  PROVE  /\ task' \in [Tasks -> TaskRecord] /\ task'[t] = Free
         /\ \A x \in Tasks \ {t} :
              /\ task'[x].panel = task[x].panel /\ task'[x].list = task[x].list
              /\ task'[x].at = task[x].at /\ task'[x].todo = task[x].todo /\ task'[x].saw = task[x].saw
              /\ task'[x].after = task[x].after \ {t}
              /\ task'[x].late = (task[x].late \/ x \in task[t].after)
<1>1. task \in [Tasks -> TaskRecord]
  BY DEF PanelsTypeOK
<1>2. task'[t] = Free /\ DOMAIN task' = Tasks
  BY DEF Over
<1>3. task' = [x \in Tasks |-> task'[x]]
  BY <1>2 DEF Over
<1>4. ASSUME NEW x \in Tasks \ {t}
      PROVE  /\ task'[x] \in TaskRecord
             /\ task'[x].panel = task[x].panel /\ task'[x].list = task[x].list
             /\ task'[x].at = task[x].at /\ task'[x].todo = task[x].todo /\ task'[x].saw = task[x].saw
             /\ task'[x].after = task[x].after \ {t}
             /\ task'[x].late = (task[x].late \/ x \in task[t].after)
  <2> DEFINE l == task[x].late \/ x \in task[t].after
  <2>1. l \in BOOLEAN /\ task[x] \in TaskRecord
    BY <1>1, TaskParts
  <2>2. task'[x] = [task[x] EXCEPT !.after = task[x].after \ {t}, !.late = l]
    BY DEF Over
  <2> HIDE DEF l
  <2>3. /\ task'[x] \in TaskRecord
        /\ task'[x].panel = task[x].panel /\ task'[x].list = task[x].list
        /\ task'[x].at = task[x].at /\ task'[x].todo = task[x].todo /\ task'[x].saw = task[x].saw
        /\ task'[x].after = task[x].after \ {t} /\ task'[x].late = l
    BY <2>1, <2>2 DEF TaskRecord
  <2> QED
    BY <2>3 DEF l
<1>5. task' \in [Tasks -> TaskRecord]
  BY <1>2, <1>3, <1>4, FreeRecord
<1> QED
  BY <1>2, <1>4, <1>5

LEMMA OverFrame ==
  ASSUME PanelsInv, NEW t \in Tasks, task[t] # Free,
         task' = Over(t) \/ task' = [Over(t) EXCEPT ![t] = Free],
         store' = store, shown' \in [Lists -> SUBSET Nat], waiting' \in [Panels -> BOOLEAN],
         busy' \in [Panels -> BOOLEAN], issued' \in Nat, lapses' \in Nat, outdated' \subseteq Panels,
         outdated \subseteq outdated',
         \A l \in Lists \ ListsOf(task[t].panel) : shown'[l] = shown[l],
         \/ task[t].panel \in outdated'
         \/ task[t].at = "change" /\ shown' = shown
         \/ /\ task[t].at = "answered" /\ ~task[t].late
            /\ \A l \in ListsOf(task[t].panel) : shown'[l] = task[t].saw[l]
  PROVE  PanelsInv'
<1>1. /\ task \in [Tasks -> TaskRecord] /\ store \in [Lists -> SUBSET Nat]
      /\ task[t].panel \in Panels /\ TasksOK!(t)
  BY TaskParts DEF PanelsInv, PanelsTypeOK, TasksOK
<1>2. /\ task' \in [Tasks -> TaskRecord] /\ task'[t] = Free
      /\ \A x \in Tasks \ {t} :
           /\ task'[x].panel = task[x].panel /\ task'[x].list = task[x].list
           /\ task'[x].at = task[x].at /\ task'[x].todo = task[x].todo /\ task'[x].saw = task[x].saw
           /\ task'[x].after = task[x].after \ {t}
           /\ task'[x].late = (task[x].late \/ x \in task[t].after)
  BY OverFacts DEF PanelsInv
<1>3. PanelsTypeOK'
  BY <1>2 DEF PanelsInv, PanelsTypeOK
<1>4. TasksOK'
  <2> SUFFICES ASSUME NEW x \in Tasks PROVE TasksOK!(x)'
    BY DEF TasksOK
  <2>1. CASE x = t
    BY <1>2, <2>1, FreeRecord, PanelsAndLists
  <2>2. CASE x # t
    <3>1. TasksOK!(x)
      BY DEF PanelsInv, TasksOK
    <3>2. x \in task[t].after => task[x].at \in {"load", "answered"}
      BY <1>1
    <3>3. \A y \in task'[x].after : y \in Tasks \ {t} /\ task[y].at \in {"load", "answered"}
      BY <1>1, <1>2, <2>2, <3>1, TaskParts
    <3>4. task[x].panel # "none"
          \/ (task'[x].panel = "none" /\ task'[x] = task[x])
      <4>1. CASE task[x].panel = "none"
        <5>1. task[x] = Free /\ x \notin task[t].after
          BY <1>1, <3>1, <4>1, FreeRecord
        <5>2. task'[x] \in TaskRecord /\ task[x] \in TaskRecord
          BY <1>1, <1>2
        <5>3. task'[x] = [task[x] EXCEPT !.after = @ \ {t}, !.late = @ \/ x \in task[t].after]
          BY <2>2 DEF Over
        <5> DEFINE r == task[x]
                   after == r.after \ {t}
                   late == r.late \/ x \in task[t].after
        <5>4. after = r.after /\ late = r.late
          <6>1. r.after = {} /\ ~r.late /\ r.late \in BOOLEAN /\ x \notin task[t].after
            BY <5>1, <5>2, FreeRecord, TaskParts
          <6> HIDE DEF r
          <6>2. after = r.after
            BY <6>1
          <6>3. late = r.late
            BY <6>1
          <6> QED
            BY <6>2, <6>3
        <5>5. task'[x] = [r EXCEPT !.after = after, !.late = late]
          BY <5>3
        <5>6. r \in TaskRecord
          BY <5>2
        <5> HIDE DEF r, after, late
        <5>7. task'[x] = r
          BY <5>4, <5>5, <5>6, SameTask
        <5> QED
          BY <4>1, <5>7 DEF r
      <4> QED
        BY <4>1
    <3>5. task'[x].panel = "none" => task'[x] = Free
      BY <1>2, <2>2, <3>1, <3>4
    <3> QED
      BY <1>2, <2>2, <3>1, <3>2, <3>3, <3>5
  <2> QED
    BY <2>1, <2>2
<1>5. \A l \in Lists : /\ HandlersOf(PanelOf(l))' = HandlersOf(PanelOf(l)) \ {t}
                       /\ HandlersOf(PanelOf(l)) \subseteq Tasks
  BY <1>2, FreeRecord, PanelsAndLists DEF HandlersOf
<1>6. \A l \in Lists, x \in Tasks \ {t} :
        /\ HasRead(x, l)' <=> HasRead(x, l)
        /\ ToRead(x, l)' <=> ToRead(x, l)
        /\ task[x].late => task'[x].late
  BY <1>2 DEF HasRead, ToRead, Stands
\* The handler that is over was nobody's witness any more.
<1>7. ASSUME NEW l \in Lists, PanelOf(l) \notin outdated', t \in HandlersOf(PanelOf(l))
      PROVE  /\ ~ToRead(t, l) /\ ~task[t].late
             /\ HasRead(t, l) => shown'[l] = task[t].saw[l]
             /\ ~HasRead(t, l) => shown'[l] = shown[l]
  <2>1. task[t].panel = PanelOf(l) /\ l \in ListsOf(task[t].panel)
    BY <1>7, PanelsAndLists DEF HandlersOf
  <2> QED
    BY <1>1, <1>7, <2>1 DEF ToRead, HasRead, Stands
<1>8. \A l \in Lists : t \notin HandlersOf(PanelOf(l)) => shown'[l] = shown[l]
  BY <1>1, PanelsAndLists DEF HandlersOf
<1>9. FollowedOK'
  <2> SUFFICES ASSUME NEW l \in Lists, NEW x \in HandlersOf(PanelOf(l))',
                      PanelOf(l) \notin outdated', HasRead(x, l)', ~task'[x].late, task'[x].saw[l] # store[l]
               PROVE  \E u \in HandlersOf(PanelOf(l))' \ {x} :
                        \/ ToRead(u, l)' \/ task'[u].late
                        \/ HasRead(u, l)' /\ task'[u].saw[l] = store[l] /\ x \in task'[u].after
    BY DEF FollowedOK
  <2>1. x \in Tasks \ {t} /\ x \in HandlersOf(PanelOf(l)) /\ x \notin task[t].after /\ ~task[x].late
    BY <1>2, <1>5
  <2>2. PICK u \in HandlersOf(PanelOf(l)) \ {x} :
            \/ ToRead(u, l) \/ task[u].late
            \/ HasRead(u, l) /\ task[u].saw[l] = store[l] /\ x \in task[u].after
    BY <1>2, <1>6, <2>1 DEF PanelsInv, FollowedOK
  <2>3. u # t
    BY <1>7, <2>1, <2>2
  <2>4. u \in Tasks \ {t} /\ u \in HandlersOf(PanelOf(l))' \ {x}
    BY <1>5, <2>2, <2>3
  <2>5. x \in task[u].after => x \in task'[u].after
    BY <1>2, <2>1, <2>4
  <2> QED
    BY <1>2, <1>6, <2>2, <2>4, <2>5
<1>10. ShownOK'
  <2> SUFFICES ASSUME NEW l \in Lists, PanelOf(l) \notin outdated', shown'[l] # store[l]
               PROVE  \E u \in HandlersOf(PanelOf(l))' :
                        \/ ToRead(u, l)' \/ task'[u].late
                        \/ HasRead(u, l)' /\ task'[u].saw[l] = store[l]
    BY DEF ShownOK
  <2>1. PICK u \in HandlersOf(PanelOf(l)) \ {t} :
          ToRead(u, l) \/ task[u].late \/ (HasRead(u, l) /\ task[u].saw[l] = store[l])
    <3>1. CASE t \in HandlersOf(PanelOf(l)) /\ HasRead(t, l)
      BY <1>7, <3>1 DEF PanelsInv, FollowedOK
    <3>2. CASE ~(t \in HandlersOf(PanelOf(l)) /\ HasRead(t, l))
      <4>1. shown'[l] = shown[l]
        BY <1>7, <1>8, <3>2
      <4>2. PICK u \in HandlersOf(PanelOf(l)) :
              ToRead(u, l) \/ task[u].late \/ (HasRead(u, l) /\ task[u].saw[l] = store[l])
        BY <4>1 DEF PanelsInv, ShownOK
      <4> QED
        BY <1>7, <3>2, <4>2
    <3> QED
      BY <3>1, <3>2
  <2> QED
    BY <1>2, <1>5, <1>6, <2>1
<1> QED
  BY <1>3, <1>4, <1>9, <1>10 DEF PanelsInv

LEMMA ShowInv ==
  ASSUME PanelsInv, NEW t \in Tasks, Show(t) \/ Lapse(t)
  PROVE  PanelsInv'
<1> DEFINE p == task[t].panel
<1>1. /\ task[t] \in TaskRecord /\ waiting \in [Panels -> BOOLEAN] /\ busy \in [Panels -> BOOLEAN]
      /\ shown \in [Lists -> SUBSET Nat] /\ issued \in Nat /\ lapses \in Nat /\ outdated \subseteq Panels
      /\ task[t].saw \in [Lists -> SUBSET Nat]
  BY TaskParts DEF PanelsInv, PanelsTypeOK
<1>2. task[t] # Free
  BY FreeRecord DEF Show, Lapse, Stands
<1>3. p \in Panels /\ ListsOf(p) \subseteq Lists
  BY <1>1, <1>2, TaskParts, PanelsAndLists DEF PanelsInv, TasksOK
<1>4. busy' \in [Panels -> BOOLEAN] /\ waiting' \in [Panels -> BOOLEAN]
  BY <1>1, <1>3 DEF Show, Lapse, Idles
<1>5. CASE Show(t)
  <2>1. /\ shown' \in [Lists -> SUBSET Nat] /\ outdated' \subseteq Panels /\ outdated \subseteq outdated'
        /\ store' = store /\ issued' = issued /\ lapses' = lapses /\ task' = Over(t)
        /\ \A l \in Lists \ ListsOf(p) : shown'[l] = shown[l]
        /\ \A l \in ListsOf(p) : shown'[l] = task[t].saw[l]
    BY <1>1, <1>3, <1>5 DEF Show
  <2>2. task[t].at = "answered" /\ (p \in outdated' \/ ~task[t].late)
    BY <1>5 DEF Show, Stands
  <2> QED
    BY <1>1, <1>2, <1>4, <2>1, <2>2, OverFrame
<1>6. CASE Lapse(t)
  <2>1. /\ shown' = shown /\ outdated' \subseteq Panels /\ outdated \subseteq outdated'
        /\ store' = store /\ issued' = issued /\ lapses' \in Nat /\ task' = [Over(t) EXCEPT ![t] = Free]
        /\ task[t].at = "change" \/ p \in outdated'
    BY <1>1, <1>3, <1>6 DEF Lapse, Stands
  <2> QED
    BY <1>1, <1>2, <1>4, <2>1, OverFrame
<1> QED
  BY <1>5, <1>6

LEMMA PanelsNext == PanelsInv /\ [Next]_vars => PanelsInv'
<1> SUFFICES ASSUME PanelsInv, [Next]_vars PROVE PanelsInv'
  OBVIOUS
<1>1. CASE InPanels
  <2>1. PICK t \in Tasks : PanelStep(t)
    BY <1>1 DEF InPanels
  <2>2. ASSUME ReadInvites(t) \/ ReadBans(t) \/ ReadWords(t) PROVE PanelsInv'
    BY <2>2, ListedInv DEF ReadInvites, ReadBans, ReadWords, Lists
  <2>3. ASSUME ServiceStep(t) PROVE PanelsInv'
    BY <2>2, <2>3, RowsInv DEF ServiceStep
  <2>4. CASE CreateInvite(t) \/ Refresh(t)
    <3>1. 0 \in Nat
      OBVIOUS
    <3> QED
      BY <2>4, <3>1, StartsInv
  <2>5. Items \subseteq Nat
    BY DEF Items
  <2> QED
    BY <2>1, <2>3, <2>4, <2>5, StartsInv, ChangedInv, ShowInv DEF PanelStep
<1>2. CASE UNCHANGED panels
  BY <1>2 DEF panels, PanelsInv, PanelsTypeOK, TasksOK, FollowedOK, ShownOK, HandlersOf, HasRead, ToRead, Stands
<1> QED
  BY <1>1, <1>2 DEF Next, Server, Keys, Studio, Paying, Browsing, others, vars

LEMMA PanelsStart == Init => PanelsInv
<1> SUFFICES ASSUME Init PROVE PanelsInv
  OBVIOUS
<1> DEFINE mounted == "panels" \in scene
<1>1. PanelsInit(mounted)
  BY DEF Init
<1> HIDE DEF mounted
<1>2. PICK t, u \in Tasks : task = [x \in Tasks |-> IF mounted /\ x = t THEN Reading("invites")
                                    ELSE IF mounted /\ x = u THEN Reading("moderation") ELSE Free]
  BY <1>1 DEF PanelsInit
<1>3. "invites" \in Panels /\ "moderation" \in Panels
  BY DEF Panels
<1>4. \A x \in Tasks : task[x] = Free \/ \E p \in Panels : task[x] = Reading(p)
  BY <1>2, <1>3
<1>5. ASSUME NEW x \in Tasks
      PROVE  /\ task[x] \in TaskRecord
             /\ task[x].at \in {"idle", "load"} /\ task[x].list = "none" /\ ~task[x].late /\ task[x].after = {}
             /\ task[x].at = "idle" => task[x] = Free
             /\ task[x].at = "load" => task[x].panel \in Panels /\ task[x].todo = ListsOf(task[x].panel)
  BY <1>4, FreeRecord, ReadingRecord
<1>6. /\ shown = store /\ store = Nothing /\ issued = 0 /\ lapses = 0 /\ outdated = {}
      /\ waiting \in [Panels -> BOOLEAN] /\ busy \in [Panels -> BOOLEAN]
  BY <1>1 DEF PanelsInit, mounted
<1>7. task \in [Tasks -> TaskRecord]
  BY <1>2, <1>5
<1>8. PanelsTypeOK
  BY <1>6, <1>7, FreeRecord DEF PanelsTypeOK
<1>9. TasksOK
  BY <1>5, FreeRecord, PanelsAndLists DEF TasksOK
<1>10. \A l \in Lists : \A x \in HandlersOf(PanelOf(l)) : ~HasRead(x, l)
  <2> SUFFICES ASSUME NEW l \in Lists, NEW x \in HandlersOf(PanelOf(l)) PROVE ~HasRead(x, l)
    OBVIOUS
  <2>1. x \in Tasks /\ task[x].panel = PanelOf(l) /\ PanelOf(l) \in Panels /\ l \in ListsOf(PanelOf(l))
    BY PanelsAndLists DEF HandlersOf
  <2> QED
    BY <1>5, <2>1, FreeRecord, PanelsAndLists DEF HasRead, Stands
<1>11. FollowedOK /\ ShownOK
  BY <1>6, <1>10 DEF FollowedOK, ShownOK
<1> QED
  BY <1>8, <1>9, <1>11 DEF PanelsInv

\* At rest there is nobody to follow.
LEMMA PanelsRest == PanelsInv => PanelsAsShown
<1> SUFFICES ASSUME PanelsInv, NEW l \in Lists, HandlersOf(PanelOf(l)) = {}, PanelOf(l) \notin outdated
             PROVE  shown[l] = store[l]
  BY DEF PanelsAsShown
<1> QED
  BY DEF PanelsInv, ShownOK

----------------------------------------------------------------------------
(* The billing page.                                                       *)

\* The handler has changed the plan, and is going to load it.
Changing == pay.at \in {"told", "refresh", "reload"} /\ pay.what # "subscribe"
PayOK ==
  /\ pay.at = "idle" => pay = NotPaying
  /\ pay.at # "idle" => pay.what # "none"
  /\ pay.at = "script" \/ pay.at = "checkout" => pay.what = "subscribe"
  /\ pay.at \in {"refresh", "reload", "load"} => pay.what # "subscribe"
  /\ tag = "fetching" => pay.at = "script"
LoadsOK ==
  \A l \in Loads :
    /\ load[l].at = "idle" => load[l] = NotLoading
    /\ load[l].mine => pay.at = "load" /\ \A m \in Loads \ {l} : ~load[m].mine
\* No change is under way: who loads and is not late has seen, or will see, the plan.
QuietOK ==
  /\ planShown = owned \/ Loading # {}
  /\ \A l \in Loading : load[l].late \/ load[l].at = "sent" \/ load[l].saw = owned
\* The load of the handler is the newest.
NewestOK ==
  \E l \in Loading :
    /\ load[l].mine /\ ~load[l].older /\ ~load[l].late
    /\ load[l].at = "sent" \/ load[l].saw = owned
    /\ \A m \in Loading \ {l} : load[m].older /\ ~load[m].mine
BillsInv ==
  /\ BillsTypeOK /\ PayOK /\ LoadsOK
  /\ ~misled /\ ~signedOut => Changing \/ (PayAt("load") /\ NewestOK) \/ (~PayAt("load") /\ QuietOK)

\* What a load and a handler are when a part of them changes.
LEMMA LoadParts ==
  ASSUME NEW r \in LoadRecord
  PROVE  /\ r.at \in {"idle", "sent", "read"} /\ r.saw \in Plan
         /\ {r.userPro, r.older, r.late, r.mine} \subseteq BOOLEAN
BY DEF LoadRecord

LEMMA OlderLoad ==
  ASSUME NEW r \in LoadRecord, NEW s, s = [r EXCEPT !.older = TRUE]
  PROVE  s \in LoadRecord /\ s.at = r.at /\ s.saw = r.saw /\ s.older /\ s.late = r.late /\ s.mine = r.mine
BY DEF LoadRecord

LEMMA LateLoad ==
  ASSUME NEW r \in LoadRecord, NEW late \in BOOLEAN, NEW s, s = [r EXCEPT !.late = late]
  PROVE  /\ s \in LoadRecord /\ s.at = r.at /\ s.saw = r.saw /\ s.older = r.older
         /\ s.late = late /\ s.mine = r.mine /\ (late = r.late => s = r)
BY DEF LoadRecord

LEMMA MineLoad ==
  ASSUME NEW r \in LoadRecord, NEW s, s = [r EXCEPT !.mine = TRUE]
  PROVE  s \in LoadRecord /\ s.at = r.at /\ s.saw = r.saw /\ s.older = r.older /\ s.late = r.late /\ s.mine
BY DEF LoadRecord

LEMMA ReadLoad ==
  ASSUME NEW r \in LoadRecord, NEW saw \in Plan, NEW s, s = [r EXCEPT !.at = "read", !.saw = saw]
  PROVE  /\ s \in LoadRecord /\ s.at = "read" /\ s.saw = saw /\ s.older = r.older
         /\ s.late = r.late /\ s.mine = r.mine
BY DEF LoadRecord

LEMMA NewLoad ==
  /\ Unpaid \in Plan /\ NotLoading \in LoadRecord /\ NotLoading.at = "idle"
  /\ ~NotLoading.mine /\ ~NotLoading.late /\ ~NotLoading.older
  /\ \A pro \in BOOLEAN : LET s == [NotLoading EXCEPT !.at = "sent", !.userPro = pro] IN
       s \in LoadRecord /\ s.at = "sent" /\ ~s.older /\ ~s.late /\ ~s.mine
BY DEF NotLoading, LoadRecord, Unpaid, Plan

LEMMA PayParts ==
  ASSUME NEW r \in PayRecord
  PROVE  /\ r.at \in {"idle", "confirm", "ask", "told", "refresh", "reload", "load", "script", "checkout"}
         /\ r.what \in {"none", "subscribe", "verify", "cancel"} /\ {r.pro, r.userPro} \subseteq BOOLEAN
BY DEF PayRecord

LEMMA PayGoes ==
  ASSUME NEW r \in PayRecord, NEW at \in {"ask", "refresh", "reload", "load", "script", "checkout"},
         NEW s, s = [r EXCEPT !.at = at]
  PROVE  s \in PayRecord /\ s.at = at /\ s.what = r.what
BY DEF PayRecord

LEMMA PayVerifies ==
  ASSUME NEW r \in PayRecord, NEW s, s = [r EXCEPT !.what = "verify", !.at = "ask"]
  PROVE  s \in PayRecord /\ s.at = "ask" /\ s.what = "verify"
BY DEF PayRecord

LEMMA PayIsTold ==
  ASSUME NEW r \in PayRecord, NEW pro \in BOOLEAN, NEW s, s = [r EXCEPT !.at = "told", !.pro = pro]
  PROVE  s \in PayRecord /\ s.at = "told" /\ s.what = r.what
BY DEF PayRecord

LEMMA NewPay ==
  /\ NotPaying \in PayRecord /\ NotPaying.at = "idle" /\ NotPaying.what = "none"
  /\ \A what \in {"subscribe", "cancel"}, pro \in BOOLEAN :
       LET s == [NotPaying EXCEPT !.at = "confirm", !.what = what, !.userPro = pro] IN
       s \in PayRecord /\ s.at = "confirm" /\ s.what = what
BY DEF NotPaying, PayRecord

\* The loads in flight, and those after one more has begun or ended.
LEMMA InLoading ==
  ASSUME BillsTypeOK, LoadsOK
  PROVE  \A l \in Loads : /\ l \in Loading <=> load[l].at # "idle"
                          /\ load[l] \in LoadRecord
                          /\ l \notin Loading => load[l] = NotLoading
BY NewLoad DEF BillsTypeOK, LoadsOK, Loading

LEMMA BegunFacts ==
  ASSUME BillsTypeOK, LoadsOK, NEW l \in Loads, NEW pro \in BOOLEAN
  PROVE  LET b == Begun(l, pro) IN
         /\ b \in [Loads -> LoadRecord]
         /\ b[l].at = "sent" /\ ~b[l].older /\ ~b[l].late /\ ~b[l].mine
         /\ \A x \in Loads \ {l} :
              /\ x \notin Loading => b[x] = NotLoading
              /\ x \in Loading => /\ b[x].at = load[x].at /\ b[x].older
                                  /\ b[x].mine = load[x].mine
<1> DEFINE b == Begun(l, pro)
<1>1. b[l] = [NotLoading EXCEPT !.at = "sent", !.userPro = pro]
  BY DEF Begun
<1>2. b[l] \in LoadRecord /\ b[l].at = "sent" /\ ~b[l].older /\ ~b[l].late /\ ~b[l].mine
  BY <1>1, NewLoad
<1>3. ASSUME NEW x \in Loads \ {l}
      PROVE  /\ b[x] \in LoadRecord
             /\ x \notin Loading => b[x] = NotLoading
             /\ x \in Loading => b[x].at = load[x].at /\ b[x].older /\ b[x].mine = load[x].mine
  <2>1. CASE x \in Loading
    <3> DEFINE r == load[x]
    <3>1. b[x] = [r EXCEPT !.older = TRUE]
      BY <2>1 DEF Begun
    <3>2. r \in LoadRecord
      BY InLoading
    <3> HIDE DEF r, b
    <3>3. b[x] \in LoadRecord /\ b[x].at = r.at /\ b[x].older /\ b[x].mine = r.mine
      BY <3>1, <3>2, OlderLoad
    <3> QED
      BY <2>1, <3>3 DEF r
  <2>2. CASE x \notin Loading
    <3>1. b[x] = load[x]
      BY <2>2 DEF Begun
    <3> QED
      BY <2>2, <3>1, InLoading
  <2> QED
    BY <2>1, <2>2
<1>4. b = [x \in Loads |-> b[x]]
  BY DEF Begun
<1> HIDE DEF b
<1>5. b \in [Loads -> LoadRecord]
  BY <1>2, <1>3, <1>4
<1> QED
  BY <1>2, <1>3, <1>5 DEF b

LEMMA LoadOverFacts ==
  ASSUME BillsTypeOK, LoadsOK, NEW l \in Loads, LoadOver(l)
  PROVE  /\ load' \in [Loads -> LoadRecord]
         /\ load'[l] = NotLoading
         /\ \A x \in Loads \ {l} :
              /\ x \notin Loading => load'[x] = NotLoading
              /\ x \in Loading => /\ load'[x].at = load[x].at /\ load'[x].saw = load[x].saw
                                  /\ load'[x].older = load[x].older /\ load'[x].mine = load[x].mine
                                  /\ load'[x].late = (load[x].late \/ (load[x].older /\ ~load[l].older))
<1>1. load' = [x \in Loads |->
                IF x = l THEN NotLoading
                ELSE [load[x] EXCEPT !.late = @ \/ (load[x].older /\ ~load[l].older)]]
  BY DEF LoadOver
<1>2. ASSUME NEW x \in Loads \ {l}
      PROVE  /\ load'[x] \in LoadRecord
             /\ x \notin Loading => load'[x] = NotLoading
             /\ load'[x].at = load[x].at /\ load'[x].saw = load[x].saw
             /\ load'[x].older = load[x].older /\ load'[x].mine = load[x].mine
             /\ load'[x].late = (load[x].late \/ (load[x].older /\ ~load[l].older))
  <2> DEFINE late == load[x].late \/ (load[x].older /\ ~load[l].older)
  <2>1. load[x] \in LoadRecord /\ load[l] \in LoadRecord
    BY InLoading
  <2>2. late \in BOOLEAN /\ (x \notin Loading => late = load[x].late)
    <3>1. load[x].late \in BOOLEAN
      BY <2>1, LoadParts
    <3>2. x \notin Loading => ~load[x].older
      BY InLoading, NewLoad
    <3> QED
      BY <3>1, <3>2
  <2>3. load'[x] = [load[x] EXCEPT !.late = late]
    BY <1>1
  <2> DEFINE r == load[x]
  <2> HIDE DEF late
  <2>4. /\ load'[x] \in LoadRecord
        /\ load'[x].at = load[x].at /\ load'[x].saw = load[x].saw
        /\ load'[x].older = load[x].older /\ load'[x].mine = load[x].mine
        /\ load'[x].late = late
        /\ late = load[x].late => load'[x] = load[x]
    <3>1. r \in LoadRecord /\ late \in BOOLEAN /\ load'[x] = [r EXCEPT !.late = late]
      BY <2>1, <2>2, <2>3
    <3> HIDE DEF r
    <3>2. /\ load'[x] \in LoadRecord
          /\ load'[x].at = r.at /\ load'[x].saw = r.saw /\ load'[x].older = r.older
          /\ load'[x].mine = r.mine /\ load'[x].late = late
          /\ late = r.late => load'[x] = r
      BY <3>1, LateLoad
    <3> QED
      BY <3>2 DEF r
  <2>5. x \notin Loading => load'[x] = NotLoading
    BY <2>2, <2>4, InLoading
  <2> QED
    BY <2>4, <2>5 DEF late
<1>3. load'[l] = NotLoading
  BY <1>1
<1>4. load' \in [Loads -> LoadRecord]
  BY <1>1, <1>2, <1>3, NewLoad
<1> QED
  BY <1>2, <1>3, <1>4

\* The handler goes on, or the script, before the plan has changed or once it is loaded.
LEMMA QuietFrame ==
  ASSUME BillsInv, UNCHANGED <<owned, planShown, load>>,
         userPro' \in BOOLEAN, planLoading' \in BOOLEAN, signedOut' \in BOOLEAN, misled' = misled, ~signedOut,
         tag' \in {"none", "fetching", "ready", "failed"},
         orders' \in Nat, slips' \in Nat, elsewhere' \in Nat,
         pay' \in PayRecord, PayOK', ~Changing, ~PayAt("load"), ~PayAt("load")'
  PROVE  BillsInv'
<1>1. BillsTypeOK'
  BY DEF BillsInv, BillsTypeOK
<1>2. LoadsOK'
  BY DEF BillsInv, LoadsOK, PayAt
<1>3. ~misled' /\ ~signedOut' => QuietOK'
  BY DEF BillsInv, QuietOK, Loading
<1> QED
  BY <1>1, <1>2, <1>3 DEF BillsInv

\* The handler is on its way to change and to load the plan, or the page is excused.
LEMMA ExcusedFrame ==
  ASSUME BillsInv, owned' \in Plan, planShown' \in Plan,
         userPro' \in BOOLEAN, planLoading' \in BOOLEAN, signedOut' \in BOOLEAN, misled' \in BOOLEAN,
         tag' \in {"none", "fetching", "ready", "failed"},
         orders' \in Nat, slips' \in Nat, elsewhere' \in Nat,
         pay' \in PayRecord, PayOK', load' \in [Loads -> LoadRecord], LoadsOK',
         Changing' \/ misled' \/ signedOut'
  PROVE  BillsInv'
<1>1. BillsTypeOK'
  BY DEF BillsTypeOK
<1> QED
  BY <1>1 DEF BillsInv

LEMMA BillsTypes ==
  ASSUME BillsTypeOK
  PROVE  /\ owned \in Plan /\ planShown \in Plan
         /\ userPro \in BOOLEAN /\ planLoading \in BOOLEAN /\ signedOut \in BOOLEAN /\ misled \in BOOLEAN
         /\ load \in [Loads -> LoadRecord] /\ pay \in PayRecord
         /\ tag \in {"none", "fetching", "ready", "failed"}
         /\ orders \in Nat /\ slips \in Nat /\ elsewhere \in Nat
         /\ orders + 1 \in Nat /\ slips + 1 \in Nat /\ elsewhere + 1 \in Nat
BY DEF BillsTypeOK

\* A plan is a record of two flags.
LEMMA Plans ==
  /\ \A p \in Plan : p.pro \in BOOLEAN
  /\ [pro |-> TRUE, leaving |-> FALSE] \in Plan /\ Unpaid \in Plan
  /\ \A p \in Plan : [p EXCEPT !.leaving = TRUE] \in Plan /\ \A b \in BOOLEAN : [p EXCEPT !.pro = b] \in Plan
BY DEF Plan, Unpaid

\* Clicks, and what the handler asks for.
LEMMA HandlerKeepsBills ==
  ASSUME BillsInv, ~signedOut,
         Upgrade \/ CancelPro \/ Confirm \/ AskBilling \/ PayTold \/ NotTold \/ Checkout \/ OpenCheckout
  PROVE  BillsInv'
<1> USE DEF counts
<1>1. /\ BillsTypeOK /\ PayOK /\ LoadsOK /\ pay.pro \in BOOLEAN /\ pay.userPro \in BOOLEAN
      /\ owned \in Plan /\ planShown \in Plan
      /\ userPro \in BOOLEAN /\ planLoading \in BOOLEAN /\ signedOut \in BOOLEAN /\ misled \in BOOLEAN
      /\ load \in [Loads -> LoadRecord] /\ pay \in PayRecord
      /\ tag \in {"none", "fetching", "ready", "failed"}
      /\ orders \in Nat /\ slips \in Nat /\ elsewhere \in Nat
      /\ orders + 1 \in Nat /\ slips + 1 \in Nat /\ elsewhere + 1 \in Nat
  BY BillsTypes, PayParts DEF BillsInv
<1>2. ASSUME NEW what \in {"subscribe", "cancel"}, Click(what) PROVE BillsInv'
  <2>1. pay' = [NotPaying EXCEPT !.at = "confirm", !.what = what, !.userPro = userPro]
    BY <1>2 DEF Click
  <2>2. pay' \in PayRecord /\ pay'.at = "confirm" /\ pay'.what = what
    BY <1>1, <2>1, NewPay
  <2> QED
    BY <1>1, <1>2, <2>2, QuietFrame DEF Click, PayOK, PayAt, Changing
<1>3. CASE Upgrade \/ CancelPro
  BY <1>2, <1>3 DEF Upgrade, CancelPro
<1>4. CASE Confirm
  <2>1. /\ PayAt("confirm") /\ OnlyHandler /\ UNCHANGED <<counts, misled>>
        /\ pay' = NotPaying \/ pay' = [pay EXCEPT !.at = "ask"]
    BY <1>4 DEF Confirm
  <2>2. pay' \in PayRecord /\ (pay' = NotPaying \/ (pay'.at = "ask" /\ pay'.what = pay.what))
    <3>1. pay' = [pay EXCEPT !.at = "ask"] => pay' \in PayRecord /\ pay'.at = "ask" /\ pay'.what = pay.what
      BY <1>1, PayGoes
    <3> QED
      BY <2>1, <3>1, NewPay
  <2> QED
    BY <1>1, <2>1, <2>2, NewPay, QuietFrame DEF OnlyHandler, PayOK, PayAt, Changing
<1>5. CASE AskBilling
  <2>1. /\ PayAt("ask") /\ UNCHANGED <<userPro, planShown, planLoading, load, tag, counts, signedOut, misled>>
        /\ owned' = CASE pay.what = "subscribe" -> owned
                      [] pay.what = "verify" -> [pro |-> TRUE, leaving |-> FALSE]
                      [] pay.what = "cancel" -> [owned EXCEPT !.leaving = TRUE]
        /\ pay' = [pay EXCEPT !.at = "told", !.pro = owned'.pro]
    BY <1>5 DEF AskBilling
  <2>2. pay.what \in {"subscribe", "verify", "cancel"}
    BY <1>1, <2>1, PayParts DEF PayOK, PayAt
  <2>3. owned' \in Plan /\ (pay.what = "subscribe" => owned' = owned)
    BY <1>1, <2>1, <2>2, Plans
  <2>4. pay' \in PayRecord /\ pay'.at = "told" /\ pay'.what = pay.what
    BY <1>1, <2>1, <2>3, Plans, PayIsTold
  <2>5. PayOK' /\ ~PayAt("load") /\ ~PayAt("load")' /\ ~Changing
    BY <1>1, <2>1, <2>2, <2>4 DEF PayOK, PayAt, Changing
  <2>6. CASE pay.what = "subscribe"
    BY <1>1, <2>1, <2>3, <2>4, <2>5, <2>6, QuietFrame
  <2>7. CASE pay.what # "subscribe"
    <3>1. LoadsOK' /\ Changing'
      BY <1>1, <2>1, <2>4, <2>7 DEF LoadsOK, Changing, PayAt
    <3> QED
      BY <1>1, <2>1, <2>3, <2>4, <2>5, <3>1, ExcusedFrame
  <2> QED
    BY <2>6, <2>7
<1>6. CASE PayTold
  <2>1. PayAt("told") /\ UNCHANGED <<owned, userPro, planLoading, load, tag, counts, signedOut, misled>>
    BY <1>6 DEF PayTold
  <2>2. CASE pay.what = "subscribe"
    <3>1. pay' = [pay EXCEPT !.at = "script"] /\ UNCHANGED planShown
      BY <1>6, <2>2 DEF PayTold
    <3>2. pay' \in PayRecord /\ pay'.at = "script" /\ pay'.what = pay.what
      BY <1>1, <3>1, PayGoes
    <3> QED
      BY <1>1, <2>1, <2>2, <3>1, <3>2, QuietFrame DEF PayOK, PayAt, Changing
  <2>3. CASE pay.what # "subscribe"
    <3>1. pay' = [pay EXCEPT !.at = "refresh"] /\ planShown' = [planShown EXCEPT !.pro = pay.pro]
      BY <1>6, <2>3 DEF PayTold
    <3>2. pay' \in PayRecord /\ pay'.at = "refresh" /\ pay'.what = pay.what
      BY <1>1, <3>1, PayGoes
    <3>3. planShown' \in Plan
      BY <1>1, <3>1, Plans
    <3>4. LoadsOK' /\ Changing' /\ PayOK'
      BY <1>1, <2>1, <2>3, <3>2 DEF LoadsOK, Changing, PayAt, PayOK
    <3> QED
      BY <1>1, <2>1, <3>2, <3>3, <3>4, ExcusedFrame
  <2> QED
    BY <2>2, <2>3
<1>7. CASE NotTold
  <2>1. LoadsOK' /\ PayOK'
    BY <1>1, <1>7, NewPay DEF LoadsOK, NotTold, OnlyHandler, PayOK
  <2> QED
    BY <1>1, <1>7, <2>1, NewPay, ExcusedFrame DEF NotTold, OnlyHandler, Slips
<1>8. CASE Checkout
  <2>1. /\ PayAt("checkout") /\ OnlyHandler /\ UNCHANGED <<counts, misled>>
        /\ pay' = NotPaying \/ pay' = [pay EXCEPT !.what = "verify", !.at = "ask"]
    BY <1>8 DEF Checkout
  <2>2. pay' \in PayRecord /\ (pay' = NotPaying \/ (pay'.at = "ask" /\ pay'.what = "verify"))
    BY <1>1, <2>1, PayVerifies, NewPay
  <2> QED
    BY <1>1, <2>1, <2>2, NewPay, QuietFrame DEF OnlyHandler, PayOK, PayAt, Changing
<1>9. CASE OpenCheckout
  <2>1. /\ PayAt("script") /\ tag = "ready" /\ OnlyHandler /\ UNCHANGED <<counts, misled>>
        /\ pay' = [pay EXCEPT !.at = "checkout"]
    BY <1>9 DEF OpenCheckout
  <2>2. pay' \in PayRecord /\ pay'.at = "checkout" /\ pay'.what = pay.what
    BY <1>1, <2>1, PayGoes
  <2> QED
    BY <1>1, <2>1, <2>2, QuietFrame DEF OnlyHandler, PayOK, PayAt, Changing
<1> QED
  BY <1>3, <1>4, <1>5, <1>6, <1>7, <1>8, <1>9

\* The script, and changes elsewhere.
LEMMA OthersKeepBills ==
  ASSUME BillsInv, ~signedOut, FetchScript \/ ScriptArrives \/ ScriptFails \/ PlanChanges
  PROVE  BillsInv'
<1> USE DEF counts
<1>1. /\ BillsTypeOK /\ PayOK /\ LoadsOK /\ pay.pro \in BOOLEAN /\ pay.userPro \in BOOLEAN
      /\ owned \in Plan /\ planShown \in Plan
      /\ userPro \in BOOLEAN /\ planLoading \in BOOLEAN /\ signedOut \in BOOLEAN /\ misled \in BOOLEAN
      /\ load \in [Loads -> LoadRecord] /\ pay \in PayRecord
      /\ tag \in {"none", "fetching", "ready", "failed"}
      /\ orders \in Nat /\ slips \in Nat /\ elsewhere \in Nat
      /\ orders + 1 \in Nat /\ slips + 1 \in Nat /\ elsewhere + 1 \in Nat
  BY BillsTypes, PayParts DEF BillsInv
<1>2. CASE FetchScript \/ ScriptArrives
  BY <1>1, <1>2, QuietFrame DEF FetchScript, ScriptArrives, PayOK, PayAt, Changing
<1>3. CASE ScriptFails
  BY <1>1, <1>3, NewPay, QuietFrame DEF ScriptFails, Slips, PayOK, PayAt, Changing
<1>4. CASE PlanChanges
  <2>1. owned' \in Plan
    BY <1>4, Plans DEF PlanChanges
  <2>2. LoadsOK' /\ PayOK'
    BY <1>1, <1>4 DEF LoadsOK, PayOK, PlanChanges
  <2> QED
    BY <1>1, <1>4, <2>1, <2>2, ExcusedFrame DEF PlanChanges
<1> QED
  BY <1>2, <1>3, <1>4

LEMMA RefreshKeepsBills ==
  ASSUME BillsInv, ~signedOut, RefreshUser \/ RefreshFails
  PROVE  BillsInv'
<1> USE DEF counts
<1>1. /\ BillsTypeOK /\ PayOK /\ LoadsOK /\ pay.pro \in BOOLEAN /\ pay.userPro \in BOOLEAN
      /\ owned \in Plan /\ planShown \in Plan
      /\ userPro \in BOOLEAN /\ planLoading \in BOOLEAN /\ signedOut \in BOOLEAN /\ misled \in BOOLEAN
      /\ load \in [Loads -> LoadRecord] /\ pay \in PayRecord
      /\ tag \in {"none", "fetching", "ready", "failed"}
      /\ orders \in Nat /\ slips \in Nat /\ elsewhere \in Nat
      /\ orders + 1 \in Nat /\ slips + 1 \in Nat /\ elsewhere + 1 \in Nat
  BY BillsTypes, PayParts DEF BillsInv
<1>2. CASE RefreshUser
  <2>1. /\ PayAt("refresh") /\ pay' = [pay EXCEPT !.at = "reload"] /\ userPro' = owned.pro
        /\ UNCHANGED <<owned, planShown, tag, counts, signedOut, misled>>
        /\ \/ UNCHANGED <<load, planLoading>>
           \/ \E l \in Loads \ Loading : load' = Begun(l, userPro') /\ planLoading' = TRUE
    BY <1>2 DEF RefreshUser
  <2>2. pay' \in PayRecord /\ pay'.at = "reload" /\ pay'.what = pay.what
    BY <1>1, <2>1, PayGoes
  <2>3. PayOK' /\ Changing' /\ userPro' \in BOOLEAN
    BY <1>1, <2>1, <2>2, Plans DEF PayOK, Changing, PayAt
  <2>4. CASE UNCHANGED <<load, planLoading>>
    <3>1. LoadsOK'
      BY <1>1, <2>1, <2>2, <2>4 DEF LoadsOK, PayAt
    <3> QED
      BY <1>1, <2>1, <2>2, <2>3, <2>4, <3>1, ExcusedFrame
  <2>5. CASE \E l \in Loads \ Loading : load' = Begun(l, userPro') /\ planLoading' = TRUE
    <3>1. PICK l \in Loads \ Loading : load' = Begun(l, userPro') /\ planLoading' = TRUE
      BY <2>5
    <3>2. /\ load' \in [Loads -> LoadRecord] /\ load'[l].at = "sent" /\ ~load'[l].mine
          /\ \A x \in Loads \ {l} :
               /\ x \notin Loading => load'[x] = NotLoading
               /\ x \in Loading => load'[x].at = load[x].at /\ load'[x].mine = load[x].mine
      BY <1>1, <2>3, <3>1, BegunFacts
    <3>3. LoadsOK'
      <4> SUFFICES ASSUME NEW x \in Loads
                   PROVE  (load'[x].at = "idle" => load'[x] = NotLoading) /\ ~load'[x].mine
        BY DEF LoadsOK
      <4> QED
        BY <1>1, <2>1, <3>2, InLoading DEF LoadsOK, PayAt
    <3> QED
      BY <1>1, <2>1, <2>2, <2>3, <3>1, <3>2, <3>3, ExcusedFrame
  <2> QED
    BY <2>1, <2>4, <2>5
<1>3. CASE RefreshFails
  <2>1. LoadsOK' /\ PayOK' /\ load' \in [Loads -> LoadRecord]
    BY <1>1, <1>3, NewPay, NewLoad DEF RefreshFails, LoadsOK, PayOK, PayAt
  <2> QED
    BY <1>1, <1>3, <2>1, NewPay, ExcusedFrame DEF RefreshFails, Slips
<1> QED
  BY <1>2, <1>3

LEMMA AnewKeepsBills ==
  ASSUME BillsInv, ~signedOut, NEW l \in Loads, LoadAnew(l)
  PROVE  BillsInv'
<1> USE DEF counts
<1>1. /\ BillsTypeOK /\ PayOK /\ LoadsOK /\ pay.pro \in BOOLEAN /\ pay.userPro \in BOOLEAN
      /\ owned \in Plan /\ planShown \in Plan
      /\ userPro \in BOOLEAN /\ planLoading \in BOOLEAN /\ signedOut \in BOOLEAN /\ misled \in BOOLEAN
      /\ load \in [Loads -> LoadRecord] /\ pay \in PayRecord
      /\ tag \in {"none", "fetching", "ready", "failed"}
      /\ orders \in Nat /\ slips \in Nat /\ elsewhere \in Nat
      /\ orders + 1 \in Nat /\ slips + 1 \in Nat /\ elsewhere + 1 \in Nat
  BY BillsTypes, PayParts DEF BillsInv
<1> DEFINE b == Begun(l, pay.userPro)
<1>2. /\ PayAt("reload") /\ l \notin Loading
      /\ load' = [b EXCEPT ![l].mine = TRUE]
      /\ pay' = [pay EXCEPT !.at = "load"] /\ planLoading' = TRUE
      /\ UNCHANGED <<owned, userPro, planShown, tag, counts, signedOut, misled>>
  BY DEF LoadAnew
<1>3. pay' \in PayRecord /\ pay'.at = "load" /\ pay'.what = pay.what
  BY <1>1, <1>2, PayGoes
<1>4. /\ b \in [Loads -> LoadRecord]
      /\ b[l].at = "sent" /\ ~b[l].older /\ ~b[l].late
      /\ \A x \in Loads \ {l} :
           /\ x \notin Loading => b[x] = NotLoading
           /\ x \in Loading => b[x].at = load[x].at /\ b[x].older /\ b[x].mine = load[x].mine
  BY <1>1, BegunFacts
<1> HIDE DEF b
<1>5. /\ load'[l] \in LoadRecord /\ load'[l].at = "sent" /\ ~load'[l].older /\ ~load'[l].late /\ load'[l].mine
      /\ \A x \in Loads \ {l} : load'[x] = b[x]
  <2>1. load'[l] = [b[l] EXCEPT !.mine = TRUE] /\ b[l] \in LoadRecord
    BY <1>2, <1>4
  <2> QED
    BY <1>2, <1>4, <2>1, MineLoad
<1>6. load' \in [Loads -> LoadRecord]
  BY <1>2, <1>4, <1>5
<1>7. LoadsOK' /\ PayOK'
  <2>1. PayOK'
    BY <1>1, <1>2, <1>3 DEF PayOK, PayAt
  <2>2. ASSUME NEW x \in Loads, load'[x].at = "idle" PROVE load'[x] = NotLoading
    BY <1>1, <1>4, <1>5, <2>2, InLoading
  <2> QED
    BY <1>1, <1>2, <1>3, <1>4, <1>5, <2>1, <2>2, NewLoad DEF LoadsOK, PayAt
<1>8. NewestOK'
  <2>1. \A x \in Loads : ~load[x].mine
    BY <1>1, <1>2 DEF LoadsOK, PayAt
  <2>2. ASSUME NEW x \in Loads \ {l}, x \in Loading'
        PROVE  load'[x].older /\ ~load'[x].mine
    <3>1. x \in Loading
      BY <1>4, <1>5, <2>2, NewLoad DEF Loading
    <3> QED
      BY <1>4, <1>5, <2>1, <3>1
  <2>3. l \in Loading'
    BY <1>5, NewLoad DEF Loading
  <2> QED
    BY <1>5, <2>2, <2>3 DEF NewestOK, Loading
<1>9. BillsTypeOK'
  BY <1>1, <1>2, <1>3, <1>6 DEF BillsTypeOK
<1> QED
  BY <1>3, <1>7, <1>8, <1>9 DEF BillsInv, PayAt

\* A load is answered, and over.
LEMMA ReadKeepsBills ==
  ASSUME BillsInv, ~signedOut, NEW l \in Loads, ReadPlan(l)
  PROVE  BillsInv'
<1> USE DEF counts
<1>1. /\ BillsTypeOK /\ PayOK /\ LoadsOK /\ owned \in Plan /\ planShown \in Plan
      /\ load \in [Loads -> LoadRecord] /\ load[l] \in LoadRecord /\ load[l].at = "sent"
      /\ load[l].userPro \in BOOLEAN /\ slips + 1 \in Nat
  BY BillsTypes, LoadParts DEF BillsInv, ReadPlan
<1>2. PICK saw \in Plan :
        /\ load' = [load EXCEPT ![l].at = "read", ![l].saw = saw]
        /\ (saw = owned /\ UNCHANGED <<counts, misled>>) \/ (Slips /\ misled' = TRUE)
  <2>1. CASE load' = [load EXCEPT ![l].at = "read", ![l].saw = owned] /\ UNCHANGED <<counts, misled>>
    BY <1>1, <2>1
  <2>2. CASE /\ Slips /\ misled' = TRUE
             /\ load' = [load EXCEPT ![l].at = "read", ![l].saw = [planShown EXCEPT !.pro = load[l].userPro]]
    <3>1. [planShown EXCEPT !.pro = load[l].userPro] \in Plan
      BY <1>1, Plans
    <3> QED
      BY <2>2, <3>1
  <2> QED
    BY <2>1, <2>2 DEF ReadPlan
<1>3. /\ load'[l] \in LoadRecord /\ load'[l].at = "read" /\ load'[l].saw = saw
      /\ load'[l].older = load[l].older /\ load'[l].late = load[l].late /\ load'[l].mine = load[l].mine
  <2>1. load'[l] = [load[l] EXCEPT !.at = "read", !.saw = saw]
    BY <1>1, <1>2
  <2> DEFINE r == load[l]
  <2>2. r \in LoadRecord /\ saw \in Plan /\ load'[l] = [r EXCEPT !.at = "read", !.saw = saw]
    BY <1>1, <1>2, <2>1
  <2> HIDE DEF r
  <2>3. /\ load'[l] \in LoadRecord /\ load'[l].at = "read" /\ load'[l].saw = saw
        /\ load'[l].older = r.older /\ load'[l].late = r.late /\ load'[l].mine = r.mine
    BY <2>2 DEF LoadRecord
  <2> QED
    BY <2>3 DEF r
<1>4. load' \in [Loads -> LoadRecord] /\ \A x \in Loads \ {l} : load'[x] = load[x]
  BY <1>1, <1>2, <1>3
<1>5. UNCHANGED <<owned, userPro, planShown, planLoading, pay, tag, signedOut>>
  BY DEF ReadPlan
<1>6. Loading' = Loading /\ Loading \subseteq Loads
  BY <1>1, <1>3, <1>4, NewLoad DEF Loading
<1>7. BillsTypeOK'
  BY <1>1, <1>2, <1>4, <1>5 DEF BillsTypeOK, Slips
<1>8. PayOK' /\ LoadsOK'
  BY <1>1, <1>3, <1>4, <1>5 DEF PayOK, LoadsOK
<1>9. ASSUME ~misled', ~signedOut'
      PROVE  Changing' \/ (PayAt("load")' /\ NewestOK') \/ (~PayAt("load")' /\ QuietOK')
  <2>1. saw = owned /\ ~misled
    BY <1>2, <1>9
  <2>2. CASE Changing
    BY <1>5, <2>2 DEF Changing
  <2>3. CASE PayAt("load") /\ NewestOK
    <3>1. NewestOK'
      BY <1>3, <1>4, <1>5, <1>6, <2>1, <2>3 DEF NewestOK
    <3> QED
      BY <1>5, <2>3, <3>1 DEF PayAt
  <2>4. CASE ~PayAt("load") /\ QuietOK
    <3>1. QuietOK'
      BY <1>3, <1>4, <1>5, <1>6, <2>1, <2>4 DEF QuietOK
    <3> QED
      BY <1>5, <2>4, <3>1 DEF PayAt
  <2> QED
    BY <2>1, <2>2, <2>3, <2>4 DEF BillsInv
<1> QED
  BY <1>7, <1>8, <1>9 DEF BillsInv

LEMMA OverKeepsBills ==
  ASSUME BillsInv, ~signedOut, NEW l \in Loads, ShowPlan(l) \/ LoadFails(l)
  PROVE  BillsInv'
<1> USE DEF counts
<1>1. /\ BillsTypeOK /\ PayOK /\ LoadsOK /\ owned \in Plan /\ planShown \in Plan /\ pay \in PayRecord
      /\ misled \in BOOLEAN /\ load \in [Loads -> LoadRecord]
      /\ \A x \in Loads : load[x] \in LoadRecord /\ load[x].late \in BOOLEAN /\ load[x].saw \in Plan
  BY BillsTypes, LoadParts DEF BillsInv
<1>2. LoadOver(l) /\ l \in Loading
  BY <1>1, InLoading DEF ShowPlan, LoadFails
<1>3. /\ load' \in [Loads -> LoadRecord]
      /\ load'[l] = NotLoading
      /\ \A x \in Loads \ {l} :
           /\ x \notin Loading => load'[x] = NotLoading
           /\ x \in Loading => /\ load'[x].at = load[x].at /\ load'[x].saw = load[x].saw
                               /\ load'[x].older = load[x].older /\ load'[x].mine = load[x].mine
                               /\ load'[x].late = (load[x].late \/ (load[x].older /\ ~load[l].older))
  BY <1>1, <1>2, LoadOverFacts
<1>4. /\ planLoading' = FALSE /\ UNCHANGED <<owned, userPro, tag, signedOut>>
      /\ pay' = IF load[l].mine THEN NotPaying ELSE pay
  BY <1>2 DEF LoadOver
<1>5. Loading' = Loading \ {l}
  <2>1. ASSUME NEW x \in Loads PROVE x \in Loading' <=> x \in Loading \ {l}
    <3>1. x \in Loading' <=> load'[x] # NotLoading
      BY DEF Loading
    <3>2. x # l /\ x \in Loading => load'[x].at # "idle"
      BY <1>1, <1>3, InLoading
    <3> QED
      BY <1>3, <3>1, <3>2, NewLoad
  <2> QED
    BY <2>1 DEF Loading
<1>6. ~load[l].mine \/ PayAt("load")
  BY <1>1 DEF LoadsOK, PayAt
<1>7. BillsTypeOK'
  <2>1. planShown' \in Plan /\ misled' \in BOOLEAN /\ orders' \in Nat /\ slips' \in Nat /\ elsewhere' \in Nat
    BY <1>1, BillsTypes DEF ShowPlan, LoadFails, Slips
  <2>2. pay' \in PayRecord
    BY <1>1, <1>4, NewPay
  <2> QED
    BY <1>1, <1>3, <1>4, <2>1, <2>2 DEF BillsTypeOK
<1>8. PayOK'
  BY <1>1, <1>4, <1>6, NewPay DEF PayOK, PayAt
<1>9. LoadsOK'
  <2>1. \A x \in Loads : load'[x].at = "idle" => load'[x] = NotLoading
    BY <1>1, <1>3, InLoading
  <2>2. \A x \in Loads : load'[x].mine => x # l /\ load[x].mine
    BY <1>1, <1>3, NewLoad
  <2>3. \A x \in Loads : load'[x].mine => pay'.at = "load"
    BY <1>1, <1>4, <2>2 DEF LoadsOK
  <2>4. \A x, y \in Loads : load'[x].mine /\ load'[y].mine => x = y
    BY <1>1, <2>2 DEF LoadsOK
  <2> QED
    BY <2>1, <2>3, <2>4 DEF LoadsOK
<1>10. ASSUME ShowPlan(l), ~misled'
       PROVE  Changing' \/ (PayAt("load")' /\ NewestOK') \/ (~PayAt("load")' /\ QuietOK')
  <2>1. ~misled /\ ~load[l].late /\ load[l].at = "read" /\ planShown' = load[l].saw
    BY <1>10 DEF ShowPlan
  <2>2. CASE Changing
    <3>1. ~load[l].mine /\ pay' = pay
      BY <1>4, <1>6, <2>2 DEF Changing, PayAt
    <3> QED
      BY <2>2, <3>1 DEF Changing
  <2>3. CASE PayAt("load") /\ NewestOK
    <3>1. PICK w \in Loading :
            /\ load[w].mine /\ ~load[w].older /\ ~load[w].late
            /\ load[w].at = "sent" \/ load[w].saw = owned
            /\ \A m \in Loading \ {w} : load[m].older /\ ~load[m].mine
      BY <2>3 DEF NewestOK
    <3>2. CASE l = w
      <4>1. pay' = NotPaying /\ planShown' = owned'
        BY <1>4, <2>1, <3>1, <3>2
      <4>2. \A m \in Loading' : m \in Loading \ {w} /\ load'[m].late /\ ~load'[m].mine
        BY <1>3, <1>5, <3>1, <3>2 DEF Loading
      <4>3. QuietOK' /\ ~PayAt("load")'
        BY <4>1, <4>2, NewPay DEF QuietOK, PayAt
      <4> QED
        BY <4>3
    <3>3. CASE l # w
      <4>1. load[l].older /\ ~load[l].mine /\ pay' = pay
        BY <1>2, <1>4, <3>1, <3>3
      <4>2. w \in Loading' /\ w \in Loads \ {l}
        BY <1>5, <3>1, <3>3 DEF Loading
      <4>3. /\ load'[w].mine /\ ~load'[w].older /\ ~load'[w].late
            /\ load'[w].at = "sent" \/ load'[w].saw = owned'
        BY <1>3, <1>4, <3>1, <4>1, <4>2
      <4>4. \A m \in Loading' \ {w} : load'[m].older /\ ~load'[m].mine
        BY <1>3, <1>5, <3>1, <3>3 DEF Loading
      <4>5. NewestOK'
        BY <4>2, <4>3, <4>4 DEF NewestOK
      <4> QED
        BY <2>3, <4>1, <4>5 DEF PayAt
    <3> QED
      BY <3>2, <3>3
  <2>4. CASE ~PayAt("load") /\ QuietOK
    <3>1. ~load[l].mine /\ pay' = pay /\ \A x \in Loads : ~load[x].mine
      BY <1>1, <1>4, <1>6, <2>4 DEF LoadsOK, PayAt
    <3>2. planShown' = owned'
      BY <1>2, <1>4, <2>1, <2>4 DEF QuietOK
    <3>3. \A m \in Loading' : load'[m].late \/ load'[m].at = "sent" \/ load'[m].saw = owned'
      BY <1>3, <1>4, <1>5, <2>4 DEF QuietOK, Loading
    <3>4. QuietOK' /\ ~PayAt("load")'
      BY <2>4, <3>1, <3>2, <3>3 DEF QuietOK, PayAt
    <3> QED
      BY <3>4
  <2> QED
    BY <1>4, <2>1, <2>2, <2>3, <2>4 DEF BillsInv
<1> QED
  BY <1>7, <1>8, <1>9, <1>10 DEF BillsInv, LoadFails

LEMMA BillsStart == Init => BillsInv
<1> SUFFICES ASSUME Init PROVE BillsInv
  OBVIOUS
<1> DEFINE mounted == "billing" \in scene
<1>1. BillsInit(mounted)
  BY DEF Init
<1> HIDE DEF mounted
<1>2. owned \in Plan /\ owned.pro \in BOOLEAN
  <2>1. owned \in [pro : BOOLEAN, leaving : {FALSE}] \/ owned = Unpaid
    BY <1>1 DEF BillsInit
  <2>2. owned \in [pro : BOOLEAN, leaving : {FALSE}] => owned \in Plan
    BY DEF Plan
  <2> QED
    BY <2>1, <2>2, Plans
<1>3. PICK l \in Loads : load = [x \in Loads |->
        IF mounted /\ x = l THEN [NotLoading EXCEPT !.at = "sent", !.userPro = userPro] ELSE NotLoading]
  BY <1>1 DEF BillsInit
<1>4. userPro \in BOOLEAN
  BY <1>1, <1>2 DEF BillsInit
<1>5. \A x \in Loads : /\ load[x] \in LoadRecord /\ ~load[x].mine
                       /\ load[x] = NotLoading \/ (mounted /\ load[x].at = "sent")
  BY <1>3, <1>4, NewLoad
<1>6. load \in [Loads -> LoadRecord]
  BY <1>3, <1>5
<1>7. BillsTypeOK
  <2>1. planShown = Unpaid /\ planLoading = mounted /\ pay = NotPaying /\ tag = "none"
    BY <1>1 DEF BillsInit
  <2>2. orders = 0 /\ slips = 0 /\ elsewhere = 0 /\ signedOut = FALSE /\ misled = FALSE
    BY <1>1 DEF BillsInit
  <2>3. mounted \in BOOLEAN
    BY DEF mounted
  <2>4. {owned, planShown} \subseteq Plan
    BY <1>2, <2>1, NewLoad
  <2>5. {orders, slips, elsewhere} \subseteq Nat
    BY <2>2
  <2>6. {userPro, planLoading, signedOut, misled} \subseteq BOOLEAN
    BY <1>4, <2>1, <2>2, <2>3
  <2> QED
    BY <1>6, <2>1, <2>4, <2>5, <2>6, NewPay DEF BillsTypeOK
<1>8. PayOK /\ LoadsOK /\ ~PayAt("load")
  BY <1>1, <1>5, NewPay DEF BillsInit, PayOK, LoadsOK, PayAt
<1>9. QuietOK
  <2>1. CASE mounted
    <3>1. load[l].at = "sent"
      BY <1>3, <1>4, <2>1, NewLoad
    <3> QED
      BY <1>5, <3>1, NewLoad DEF QuietOK, Loading
  <2>2. CASE ~mounted
    <3>1. owned = Unpaid /\ planShown = Unpaid /\ Loading = {}
      BY <1>1, <1>5, <2>2 DEF BillsInit, Loading
    <3> QED
      BY <3>1 DEF QuietOK
  <2> QED
    BY <2>1, <2>2
<1> QED
  BY <1>7, <1>8, <1>9 DEF BillsInv

LEMMA BillsNext == BillsInv /\ [Next]_vars => BillsInv'
<1> SUFFICES ASSUME BillsInv, [Next]_vars PROVE BillsInv'
  OBVIOUS
<1>1. CASE Paying
  BY <1>1, HandlerKeepsBills, OthersKeepBills, RefreshKeepsBills, AnewKeepsBills, ReadKeepsBills, OverKeepsBills
     DEF Paying, BillingStep, PayRequest, Script
<1>2. CASE UNCHANGED bills
  BY <1>2 DEF bills, counts, BillsInv, BillsTypeOK, PayOK, LoadsOK, QuietOK, NewestOK, Changing, Loading, PayAt
<1> QED
  BY <1>1, <1>2 DEF Next, Server, Keys, Studio, InPanels, Browsing, others, vars

\* At rest nobody changes the plan.
LEMMA BillsRest == BillsInv => PlanAsShown
BY NewPay DEF BillsInv, PlanAsShown, QuietOK, Changing, PayAt

----------------------------------------------------------------------------
(* The pages of a viewer.                                                  *)

\* Library: the newest search is in flight, or all that are in flight are known to be older.
LibraryOK ==
  /\ \A a \in InFlight : ask[a].op = "search" /\ ask[a].at # "idle" /\ ask[a].q <= typed
  /\ \A a, b \in InFlight : ask[a].q = ask[b].q => a = b
  /\ searching => InFlight # {}
  /\ \/ \E a \in InFlight : ask[a].q = typed /\ ~ask[a].newer
     \/ /\ \A a \in InFlight : ask[a].newer
        /\ excused \/ results.q = typed

\* Profile: one request at a time, which knows the row or has changed it.
VisitOK(a) ==
  /\ ask[a].op = "visit" /\ searching /\ ~followBusy
  /\ ask[a].at \in {"sent", "answered"}
  /\ ask[a].at = "answered" /\ ~excused => ask[a].found = follows
ToggleOK(a) ==
  /\ ask[a].op \in {"follow", "unfollow"} /\ ~searching /\ followBusy
  /\ ask[a].at \in {"sent", "answered", "refused"}
  /\ ask[a].at \in {"sent", "refused"} /\ ~excused => button = follows
  /\ ask[a].at = "answered" /\ ~excused => follows = (ask[a].op = "follow")
ProfileOK ==
  /\ \A a, b \in InFlight : a = b
  /\ \A a \in InFlight : VisitOK(a) \/ ToggleOK(a)
  /\ InFlight = {} => ~searching /\ (excused \/ button = follows)

BrowseInv ==
  /\ BrowseTypeOK
  /\ open = "library" => LibraryOK
  /\ open = "profile" => ProfileOK

\* What a request of a viewer is when a part of it changes.
LEMMA AskParts ==
  ASSUME NEW r \in AskRecord
  PROVE  /\ r.q \in Nat /\ r.saw \in Nat /\ {r.found, r.newer} \subseteq BOOLEAN /\ r.left \subseteq {"live", "vods"}
         /\ r.at \in {"idle", "sent", "answered", "refused"}
         /\ r.op \in {"none", "search", "detail", "visit", "follow", "unfollow"}
BY DEF AskRecord

LEMMA NewerAsk ==
  ASSUME NEW r \in AskRecord, NEW newer \in BOOLEAN, NEW s, s = [r EXCEPT !.newer = newer]
  PROVE  /\ s \in AskRecord /\ s.op = r.op /\ s.at = r.at /\ s.q = r.q /\ s.newer = newer
         /\ newer = r.newer => s = r
BY DEF AskRecord

LEMMA FoundAsk ==
  ASSUME NEW r \in AskRecord, NEW left \in SUBSET {"live", "vods"}, NEW saw \in Nat, NEW at \in {"sent", "answered"},
         NEW s, s = [r EXCEPT !.left = left, !.saw = saw, !.at = at]
  PROVE  s \in AskRecord /\ s.op = r.op /\ s.at = at /\ s.q = r.q /\ s.newer = r.newer
BY DEF AskRecord

LEMMA SeenAsk ==
  ASSUME NEW r \in AskRecord, NEW saw \in Nat, NEW s, s = [r EXCEPT !.at = "answered", !.saw = saw]
  PROVE  s \in AskRecord
BY DEF AskRecord

LEMMA DetailAsk ==
  ASSUME NEW r \in AskRecord, NEW saw \in Nat, NEW found \in BOOLEAN,
         NEW s, s = [r EXCEPT !.at = "answered", !.saw = saw, !.found = found]
  PROVE  s \in AskRecord
BY DEF AskRecord

LEMMA StatusAsk ==
  ASSUME NEW r \in AskRecord, NEW found \in BOOLEAN, NEW s, s = [r EXCEPT !.at = "answered", !.found = found]
  PROVE  s \in AskRecord /\ s.op = r.op /\ s.at = "answered" /\ s.found = found
BY DEF AskRecord

LEMMA AskGoes ==
  ASSUME NEW r \in AskRecord, NEW at \in {"answered", "refused"}, NEW s, s = [r EXCEPT !.at = at]
  PROVE  s \in AskRecord /\ s.op = r.op /\ s.at = at
BY DEF AskRecord

LEMMA NewAsk ==
  /\ NotAsked \in AskRecord /\ NotAsked.op = "none" /\ NotAsked.at = "idle" /\ NotAsked.newer = FALSE
  /\ \A q \in Nat : Search(q) \in AskRecord /\ Search(q).op = "search" /\ Search(q).at = "sent"
                    /\ Search(q).q = q /\ Search(q).newer = FALSE
BY DEF NotAsked, AskRecord, Search

LEMMA SentAsk ==
  ASSUME NEW op \in {"search", "detail", "visit", "follow", "unfollow"}, NEW q \in Nat,
         NEW s, s = [NotAsked EXCEPT !.op = op, !.at = "sent", !.q = q]
  PROVE  s \in AskRecord /\ s.op = op /\ s.at = "sent" /\ s.q = q
BY DEF NotAsked, AskRecord

LEMMA BrowseTypes ==
  ASSUME BrowseTypeOK
  PROVE  /\ open \in {"explore", "library", "profile", "watch", "none"}
         /\ listing \in Nat /\ typed \in Nat /\ toggles \in Nat /\ misses \in Nat
         /\ results \in [q : Nat, saw : Nat]
         /\ due \in BOOLEAN /\ searching \in BOOLEAN /\ failed \in BOOLEAN /\ follows \in BOOLEAN
         /\ button \in BOOLEAN /\ followBusy \in BOOLEAN /\ excused \in BOOLEAN
         /\ ask \in [Asks -> AskRecord]
         /\ \A a \in Asks : ask[a] \in AskRecord
         /\ listing + 1 \in Nat /\ typed + 1 \in Nat /\ toggles + 1 \in Nat /\ misses + 1 \in Nat
BY DEF BrowseTypeOK

LEMMA BrowseTyped ==
  ASSUME open' \in {"explore", "library", "profile", "watch", "none"},
         listing' \in Nat, typed' \in Nat, toggles' \in Nat, misses' \in Nat,
         results' \in [q : Nat, saw : Nat],
         due' \in BOOLEAN, searching' \in BOOLEAN, failed' \in BOOLEAN, follows' \in BOOLEAN,
         button' \in BOOLEAN, followBusy' \in BOOLEAN, excused' \in BOOLEAN,
         ask' \in [Asks -> AskRecord]
  PROVE  BrowseTypeOK'
BY DEF BrowseTypeOK

\* What the requests in flight are after each step that changes them.
LEMMA AskedFacts ==
  ASSUME BrowseTypeOK, NEW a \in Asks, NEW op \in {"search", "detail", "visit", "follow", "unfollow"}, Asked(a, op)
  PROVE  /\ ask' \in [Asks -> AskRecord] /\ InFlight' = InFlight \cup {a}
         /\ ask'[a].op = op /\ ask'[a].at = "sent" /\ \A x \in Asks \ {a} : ask'[x] = ask[x]
<1>1. /\ ask' = [x \in Asks |-> IF x = a THEN [NotAsked EXCEPT !.op = op, !.at = "sent", !.q = typed] ELSE ask[x]]
      /\ ask \in [Asks -> AskRecord] /\ typed \in Nat
  BY BrowseTypes DEF Asked
<1>2. ask'[a] = [NotAsked EXCEPT !.op = op, !.at = "sent", !.q = typed] /\ \A x \in Asks \ {a} : ask'[x] = ask[x]
  BY <1>1
<1>3. ask'[a] \in AskRecord /\ ask'[a].op = op /\ ask'[a].at = "sent"
  BY <1>1, <1>2 DEF NotAsked, AskRecord
<1>4. ask' \in [Asks -> AskRecord]
  BY <1>1, <1>2, <1>3
<1>5. InFlight' = InFlight \cup {a}
  BY <1>2, <1>3, NewAsk DEF InFlight
<1> QED
  BY <1>2, <1>3, <1>4, <1>5

LEMMA ForgottenFacts ==
  ASSUME BrowseTypeOK, NEW a \in Asks, ask' = [ask EXCEPT ![a] = NotAsked]
  PROVE  ask' \in [Asks -> AskRecord] /\ InFlight' = InFlight \ {a} /\ \A x \in Asks \ {a} : ask'[x] = ask[x]
<1>1. ask \in [Asks -> AskRecord] /\ ask'[a] = NotAsked /\ \A x \in Asks \ {a} : ask'[x] = ask[x]
  BY BrowseTypes
<1>2. InFlight' = InFlight \ {a}
  BY <1>1 DEF InFlight
<1> QED
  BY <1>1, <1>2, NewAsk

LEMMA NewerFacts ==
  ASSUME BrowseTypeOK, NEW a \in Asks, ask' = Newer(a)
  PROVE  /\ ask' \in [Asks -> AskRecord] /\ InFlight' = InFlight \ {a}
         /\ \A x \in InFlight \ {a} :
              /\ ask'[x].op = ask[x].op /\ ask'[x].at = ask[x].at /\ ask'[x].q = ask[x].q
              /\ ask'[x].newer = (ask[x].newer \/ ask[x].q < ask[a].q)
<1>1. /\ ask' = [x \in Asks |-> IF x = a THEN NotAsked
                   ELSE [ask[x] EXCEPT !.newer = @ \/ (x \in InFlight /\ ask[x].q < ask[a].q)]]
      /\ \A x \in Asks : ask[x] \in AskRecord /\ ask[x].newer \in BOOLEAN
      /\ ask[a].q \in Nat
  BY BrowseTypes, AskParts DEF Newer
<1>2. ask'[a] = NotAsked
  BY <1>1
<1>3. ASSUME NEW x \in Asks \ {a}
      PROVE  /\ ask'[x] \in AskRecord /\ (x \notin InFlight => ask'[x] = NotAsked)
             /\ ask'[x].op = ask[x].op /\ ask'[x].at = ask[x].at /\ ask'[x].q = ask[x].q
             /\ ask'[x].newer = (ask[x].newer \/ (x \in InFlight /\ ask[x].q < ask[a].q))
             /\ ask'[x] = ask[x] \/ ask'[x].newer
  <2> DEFINE newer == ask[x].newer \/ (x \in InFlight /\ ask[x].q < ask[a].q)
             r == ask[x]
  <2>1. newer \in BOOLEAN /\ (x \notin InFlight => newer = r.newer) /\ (newer \/ newer = r.newer)
    BY <1>1
  <2>2. ask'[x] = [r EXCEPT !.newer = newer] /\ r \in AskRecord
    BY <1>1
  <2> HIDE DEF newer, r
  <2>3. /\ ask'[x] \in AskRecord /\ ask'[x].op = r.op /\ ask'[x].at = r.at /\ ask'[x].q = r.q
        /\ ask'[x].newer = newer /\ (newer = r.newer => ask'[x] = r)
    BY <2>1, <2>2, NewerAsk
  <2>4. x \notin InFlight => r = NotAsked
    BY DEF InFlight, r
  <2>5. x \notin InFlight => ask'[x] = NotAsked
    BY <2>1, <2>3, <2>4
  <2>6. ask'[x] = r \/ ask'[x].newer
    BY <2>1, <2>3
  <2> QED
    BY <2>3, <2>5, <2>6 DEF newer, r
<1>4. ask' \in [Asks -> AskRecord]
  BY <1>1, <1>2, <1>3, NewAsk
<1>5. InFlight' = InFlight \ {a}
  <2>1. ASSUME NEW x \in Asks PROVE x \in InFlight' <=> x \in InFlight \ {a}
    <3>1. x \in InFlight' <=> ask'[x] # NotAsked
      BY DEF InFlight
    <3>2. x \in InFlight <=> ask[x] # NotAsked
      BY DEF InFlight
    <3> QED
      BY <1>2, <1>3, <3>1, <3>2, NewAsk
  <2> QED
    BY <2>1 DEF InFlight
<1>6. \A x \in InFlight \ {a} : x \in Asks \ {a}
  BY DEF InFlight
<1> QED
  BY <1>3, <1>4, <1>5, <1>6

\* A request goes on where it is.
LEMMA GoesFacts ==
  ASSUME BrowseTypeOK, NEW a \in Asks, NEW r \in AskRecord, ask' = [ask EXCEPT ![a] = r]
  PROVE  /\ ask' \in [Asks -> AskRecord] /\ ask'[a] = r /\ \A x \in Asks \ {a} : ask'[x] = ask[x]
         /\ r.at # "idle" => InFlight' = InFlight \cup {a}
<1>1. ask \in [Asks -> AskRecord] /\ ask'[a] = r /\ \A x \in Asks \ {a} : ask'[x] = ask[x]
  BY BrowseTypes
<1>2. r.at # "idle" => InFlight' = InFlight \cup {a}
  BY <1>1, NewAsk DEF InFlight
<1> QED
  BY <1>1, <1>2

LEMMA AskedInFlight ==
  \A a \in Asks : ask[a].at # "idle" \/ ask[a].op # "none" => a \in InFlight
BY NewAsk DEF InFlight

\* The steps of Explore and of the watch page, about which only the types are known.
LEMMA ExploreKeepsBrowse ==
  ASSUME BrowseInv, NEW a \in Asks,
         LoadExplore(a) \/ FindStreams(a) \/ Poll4s(a) \/ FindStream(a)
         \/ ShowStream(a) \/ StreamFails(a)
  PROVE  BrowseInv'
<1> USE DEF search, profile
<1>1. /\ BrowseTypeOK /\ ask[a] \in AskRecord /\ listing \in Nat /\ follows \in BOOLEAN
      /\ ask[a].q \in Nat /\ ask[a].saw \in Nat /\ ask[a].found \in BOOLEAN
  BY BrowseTypes, AskParts DEF BrowseInv
<1>2. open \notin {"library", "profile"} /\ open' = open
  <2>1. open = "library" => ask[a].op # "detail"
    BY NewAsk DEF BrowseInv, LibraryOK, InFlight
  <2>2. open = "profile" => ask[a].op # "detail"
    BY NewAsk DEF BrowseInv, ProfileOK, VisitOK, ToggleOK, InFlight
  <2>3. open' = open
    BY DEF LoadExplore, FindStreams, Poll4s, FindStream, ShowStream, StreamFails
  <2>4. CASE LoadExplore(a) \/ FindStreams(a) \/ Poll4s(a)
    BY <2>3, <2>4 DEF LoadExplore, FindStreams, Poll4s
  <2>5. CASE FindStream(a) \/ ShowStream(a) \/ StreamFails(a)
    BY <2>1, <2>2, <2>3, <2>5 DEF FindStream, ShowStream, StreamFails
  <2> QED
    BY <2>4, <2>5
<1>3. ask' \in [Asks -> AskRecord]
  <2>2. CASE LoadExplore(a) \/ Poll4s(a)
    BY <1>1, <2>2, AskedFacts DEF LoadExplore, Poll4s
  <2>3. CASE FindStreams(a)
    <3>1. ask' = [ask EXCEPT ![a] = [ask[a] EXCEPT !.at = "answered", !.saw = listing]]
      BY <2>3 DEF FindStreams
    <3>2. [ask[a] EXCEPT !.at = "answered", !.saw = listing] \in AskRecord
      BY <1>1 DEF AskRecord
    <3> QED
      BY <1>1, <3>1, <3>2, GoesFacts
  <2>4. CASE FindStream(a)
    <3>1. ask' = [ask EXCEPT ![a] = [ask[a] EXCEPT !.at = "answered", !.saw = listing, !.found = follows]]
      BY <2>4 DEF FindStream
    <3>2. [ask[a] EXCEPT !.at = "answered", !.saw = listing, !.found = follows] \in AskRecord
      BY <1>1 DEF AskRecord
    <3> QED
      BY <1>1, <3>1, <3>2, GoesFacts
  <2>5. CASE ShowStream(a) \/ StreamFails(a)
    BY <1>1, <2>5, ForgottenFacts DEF ShowStream, StreamFails
  <2> QED
    BY <2>2, <2>3, <2>4, <2>5
<1>4. BrowseTypeOK'
  <2> USE <1>1, <1>2, <1>3, BrowseTypes, BrowseTyped
  <2>2. CASE LoadExplore(a) \/ Poll4s(a)
    BY <2>2 DEF LoadExplore, Poll4s
  <2>3. CASE FindStreams(a) \/ FindStream(a) \/ StreamFails(a)
    BY <2>3 DEF FindStreams, FindStream, StreamFails
  <2>4. CASE ShowStream(a)
    BY <2>4 DEF ShowStream
  <2> QED
    BY <2>2, <2>3, <2>4
<1> QED
  BY <1>2, <1>4 DEF BrowseInv

LEMMA TickKeepsBrowse ==
  ASSUME BrowseInv, Type \/ ListingChanges
  PROVE  BrowseInv'
<1> USE DEF search, profile
<1>1. BrowseTypeOK /\ ask' = ask /\ open' = open
  BY DEF BrowseInv, Type, ListingChanges
<1>2. CASE Type
  <2>1. BrowseTypeOK'
    BY <1>1, <1>2, BrowseTypes, BrowseTyped DEF Type
  <2> QED
    BY <1>1, <1>2, <2>1 DEF BrowseInv, Type
<1>3. CASE ListingChanges
  <2>1. BrowseTypeOK'
    BY <1>1, <1>3, BrowseTypes, BrowseTyped DEF ListingChanges
  <2>2. open = "library" => LibraryOK'
    BY <1>1, <1>3 DEF BrowseInv, ListingChanges, LibraryOK, InFlight
  <2> QED
    BY <1>1, <1>3, <2>1, <2>2 DEF BrowseInv, ListingChanges, Searching
<1> QED
  BY <1>2, <1>3

\* The library.
LEMMA TypedKeepsBrowse ==
  ASSUME BrowseInv, NEW a \in Asks, TypeInLibrary(a)
  PROVE  BrowseInv'
<1> USE DEF search, profile
<1>1. /\ BrowseTypeOK /\ open = "library" /\ LibraryOK /\ typed \in Nat /\ typed' = typed + 1
      /\ ask[a] = NotAsked /\ ask' = [ask EXCEPT ![a] = Search(typed')] /\ searching' = TRUE /\ open' = open
      /\ \A x \in Asks : ask[x].q \in Nat
  BY BrowseTypes, AskParts DEF BrowseInv, TypeInLibrary
<1>2. /\ Search(typed') \in AskRecord /\ Search(typed').op = "search" /\ Search(typed').at = "sent"
      /\ Search(typed').q = typed' /\ Search(typed').newer = FALSE
  BY <1>1, NewAsk
<1>3. /\ ask' \in [Asks -> AskRecord] /\ InFlight' = InFlight \cup {a} /\ a \notin InFlight
      /\ ask'[a] = Search(typed') /\ \A x \in InFlight : x \in Asks /\ ask'[x] = ask[x]
  BY <1>1, <1>2, GoesFacts DEF InFlight
<1>4. BrowseTypeOK'
  BY <1>1, <1>3, BrowseTypes, BrowseTyped DEF TypeInLibrary
<1>5. /\ \A x \in InFlight : ask[x].op = "search" /\ ask[x].at # "idle" /\ ask[x].q <= typed
      /\ \A x, y \in InFlight : ask[x].q = ask[y].q => x = y
  BY <1>1 DEF LibraryOK
<1>6. \A x \in InFlight' : ask'[x].op = "search" /\ ask'[x].at # "idle" /\ ask'[x].q <= typed'
  BY <1>1, <1>2, <1>3, <1>5
<1>7. \A x, y \in InFlight' : ask'[x].q = ask'[y].q => x = y
  <2>1. \A x \in InFlight : ask'[x].q \in Nat /\ ask'[x].q < typed'
    BY <1>1, <1>3, <1>5
  <2> QED
    BY <1>1, <1>2, <1>3, <1>5, <2>1
<1>8. a \in InFlight' /\ ask'[a].q = typed' /\ ~ask'[a].newer
  BY <1>2, <1>3
<1>9. LibraryOK'
  BY <1>6, <1>7, <1>8 DEF LibraryOK
<1> QED
  BY <1>1, <1>4, <1>9 DEF BrowseInv

LEMMA FoundKeepsBrowse ==
  ASSUME BrowseInv, NEW a \in Asks, FindLive(a) \/ FindVods(a)
  PROVE  BrowseInv'
<1> USE DEF search, profile
<1>1. PICK part \in {"live", "vods"}, saw \in Nat : Found(a, part, saw)
  <2>1. listing \in Nat /\ ask[a].saw \in Nat
    BY BrowseTypes, AskParts DEF BrowseInv
  <2> QED
    BY <2>1 DEF FindLive, FindVods
<1> DEFINE r == ask[a]
           left == r.left \ {part}
           at == IF r.left = {part} THEN "answered" ELSE "sent"
           s == [r EXCEPT !.left = left, !.saw = saw, !.at = at]
<1>2. /\ r.op = "search" /\ r.at = "sent" /\ ask' = [ask EXCEPT ![a] = s]
      /\ UNCHANGED <<open, search, profile, misses, excused>>
  BY <1>1 DEF Found
<1>3. /\ BrowseTypeOK /\ r \in AskRecord /\ left \in SUBSET {"live", "vods"} /\ at \in {"sent", "answered"}
  BY BrowseTypes, AskParts DEF BrowseInv
<1>4. saw \in Nat
  BY <1>1
<1> HIDE DEF left, at
<1>5. s \in AskRecord /\ s.op = r.op /\ s.at = at /\ s.q = r.q /\ s.newer = r.newer
  BY <1>3, <1>4 DEF AskRecord
<1> HIDE DEF s
<1>6. /\ ask' \in [Asks -> AskRecord] /\ a \in InFlight /\ InFlight' = InFlight
      /\ ask'[a] = s /\ \A x \in Asks \ {a} : ask'[x] = ask[x]
  <2>1. a \in InFlight
    BY <1>2, AskedInFlight
  <2>2. s.at # "idle"
    BY <1>3, <1>5
  <2>3. /\ ask' \in [Asks -> AskRecord] /\ ask'[a] = s /\ \A x \in Asks \ {a} : ask'[x] = ask[x]
        /\ InFlight' = InFlight \cup {a}
    BY <1>2, <1>3, <1>5, <2>2, GoesFacts
  <2> QED
    BY <2>1, <2>3
<1>7. BrowseTypeOK'
  BY <1>2, <1>3, <1>6, BrowseTypes, BrowseTyped
<1>8. \A x \in InFlight : /\ x \in Asks /\ ask'[x].op = ask[x].op /\ ask'[x].q = ask[x].q
                          /\ ask'[x].newer = ask[x].newer /\ (ask[x].at # "idle" => ask'[x].at # "idle")
  BY <1>3, <1>5, <1>6 DEF InFlight
<1>9. open' = "library" => LibraryOK'
  BY <1>2, <1>6, <1>8 DEF BrowseInv, LibraryOK
<1>10. open # "profile"
  BY <1>2, <1>6 DEF BrowseInv, ProfileOK, VisitOK, ToggleOK
<1> QED
  BY <1>2, <1>7, <1>9, <1>10 DEF BrowseInv

LEMMA ShownKeepsBrowse ==
  ASSUME BrowseInv, NEW a \in Asks, ShowResults(a) \/ SearchFails(a)
  PROVE  BrowseInv'
<1> USE DEF search, profile
<1>1. /\ BrowseTypeOK /\ typed \in Nat /\ ask[a].op = "search" /\ ask' = Newer(a) /\ open' = open /\ typed' = typed
      /\ a \in Asks /\ \A x \in Asks : ask[x].q \in Nat /\ ask[x].newer \in BOOLEAN
  BY BrowseTypes, AskParts DEF BrowseInv, ShowResults, SearchFails
<1>2. /\ ask' \in [Asks -> AskRecord] /\ InFlight' = InFlight \ {a}
      /\ \A x \in InFlight \ {a} :
           /\ ask'[x].op = ask[x].op /\ ask'[x].at = ask[x].at /\ ask'[x].q = ask[x].q
           /\ ask'[x].newer = (ask[x].newer \/ ask[x].q < ask[a].q)
  BY <1>1, NewerFacts
<1>3. BrowseTypeOK'
  <2>1. results' \in [q : Nat, saw : Nat]
    <3>1. ask[a].q \in Nat /\ ask[a].saw \in Nat /\ Nil \in [q : Nat, saw : Nat]
      BY <1>1, BrowseTypes, AskParts DEF Nil
    <3> QED
      BY <1>1, <3>1, BrowseTypes DEF ShowResults, SearchFails
  <2>2. failed' \in BOOLEAN /\ excused' \in BOOLEAN /\ searching' = FALSE /\ misses' \in Nat
    BY <1>1, BrowseTypes, AskParts DEF ShowResults, SearchFails
  <2> QED
    BY <1>1, <1>2, <2>1, <2>2, BrowseTypes, BrowseTyped DEF ShowResults, SearchFails
<1>4. a \in InFlight /\ InFlight \subseteq Asks
  BY <1>1, AskedInFlight DEF InFlight
<1>5. open # "profile"
  BY <1>1, <1>4 DEF BrowseInv, ProfileOK, VisitOK, ToggleOK
<1>6. ASSUME open = "library" PROVE LibraryOK'
  <2>1. /\ \A x \in InFlight : ask[x].op = "search" /\ ask[x].at # "idle" /\ ask[x].q <= typed
        /\ \A x, y \in InFlight : ask[x].q = ask[y].q => x = y
        /\ \/ \E x \in InFlight : ask[x].q = typed /\ ~ask[x].newer
           \/ \A x \in InFlight : ask[x].newer
    BY <1>6 DEF BrowseInv, LibraryOK
  <2>2. \A x \in InFlight' : ask'[x].op = "search" /\ ask'[x].at # "idle" /\ ask'[x].q <= typed'
    BY <1>1, <1>2, <2>1
  <2>3. \A x, y \in InFlight' : ask'[x].q = ask'[y].q => x = y
    BY <1>2, <2>1
  <2>4. ~searching' /\ (excused' \/ (results'.q = ask[a].q /\ ~ask[a].newer))
    BY <1>1 DEF ShowResults, SearchFails
  <2>5. CASE \E x \in InFlight : ask[x].q = typed /\ ~ask[x].newer
    <3>1. PICK b \in InFlight : ask[b].q = typed /\ ~ask[b].newer
      BY <2>5
    <3>2. CASE a = b
      <4>1. \A x \in InFlight' : ask'[x].newer
        <5> SUFFICES ASSUME NEW x \in InFlight' PROVE ask'[x].newer
          OBVIOUS
        <5>1. x \in InFlight /\ x # a /\ ask[x].q \in Nat /\ ask[x].q <= typed /\ ask[x].q # typed
          BY <1>1, <1>2, <1>4, <2>1, <3>1, <3>2
        <5>2. ask[x].q < ask[a].q
          BY <1>1, <3>1, <3>2, <5>1
        <5> QED
          BY <1>2, <5>1, <5>2
      <4> QED
        BY <1>1, <2>2, <2>3, <2>4, <3>1, <3>2, <4>1 DEF LibraryOK
    <3>3. CASE a # b
      <4>1. ask[a].q \in Nat /\ ask[a].q <= typed /\ ~(ask[b].q < ask[a].q)
        BY <1>1, <1>4, <2>1, <3>1
      <4>2. b \in InFlight' /\ ask'[b].q = typed' /\ ~ask'[b].newer
        BY <1>1, <1>2, <3>1, <3>3, <4>1
      <4> QED
        BY <2>2, <2>3, <2>4, <4>2 DEF LibraryOK
    <3> QED
      BY <3>2, <3>3
  <2>6. CASE \A x \in InFlight : ask[x].newer
    <3>1. \A x \in InFlight' : ask'[x].newer
      BY <1>2, <2>6
    <3>2. excused'
      BY <1>4, <2>4, <2>6
    <3> QED
      BY <2>2, <2>3, <2>4, <3>1, <3>2 DEF LibraryOK
  <2> QED
    BY <2>1, <2>5, <2>6
<1> QED
  BY <1>1, <1>3, <1>5, <1>6 DEF BrowseInv

\* The profile.
LEMMA VisitKeepsBrowse ==
  ASSUME BrowseInv, NEW a \in Asks, Status(a) \/ Visited(a)
  PROVE  BrowseInv'
<1> USE DEF search, profile
<1>1. /\ BrowseTypeOK /\ ask[a] \in AskRecord /\ ask[a].op = "visit" /\ open' = open
      /\ follows \in BOOLEAN /\ ask[a].found \in BOOLEAN /\ a \in InFlight /\ excused \in BOOLEAN
  BY BrowseTypes, AskParts, AskedInFlight DEF BrowseInv, Status, Visited
<1>2. open # "library"
  BY <1>1 DEF BrowseInv, LibraryOK
<1>3. open = "profile" => /\ \A x \in InFlight : x = a
                          /\ searching /\ ~followBusy
                          /\ ask[a].at = "answered" /\ ~excused => ask[a].found = follows
  BY <1>1 DEF BrowseInv, ProfileOK, VisitOK, ToggleOK
<1>4. CASE Status(a)
  <2>1. PICK found \in BOOLEAN :
          /\ ask' = [ask EXCEPT ![a] = [ask[a] EXCEPT !.at = "answered", !.found = found]]
          /\ misses' \in {misses, misses + 1} /\ excused' \in BOOLEAN
          /\ ~excused' => found = follows
    <3>1. CASE /\ ask' = [ask EXCEPT ![a].at = "answered", ![a].found = follows]
               /\ UNCHANGED <<misses, excused>>
      BY <1>1, <3>1
    <3>2. CASE /\ misses' = misses + 1 /\ excused' = (excused \/ follows)
               /\ ask' = [ask EXCEPT ![a].at = "answered", ![a].found = FALSE]
      BY <1>1, <3>2
    <3> QED
      BY <1>4, <3>1, <3>2 DEF Status
  <2> DEFINE s == [ask[a] EXCEPT !.at = "answered", !.found = found]
  <2>2. s \in AskRecord /\ s.op = "visit" /\ s.at = "answered" /\ s.found = found
    BY <1>1 DEF AskRecord
  <2>3. ask' = [ask EXCEPT ![a] = s]
    BY <2>1
  <2> HIDE DEF s
  <2>4. ask' \in [Asks -> AskRecord] /\ ask'[a] = s /\ InFlight' = InFlight
    <3>1. s.at # "idle"
      BY <2>2
    <3>2. ask' \in [Asks -> AskRecord] /\ ask'[a] = s /\ InFlight' = InFlight \cup {a}
      BY <1>1, <2>2, <2>3, <3>1, GoesFacts
    <3> QED
      BY <1>1, <3>2
  <2>5. UNCHANGED <<open, search, profile>>
    BY <1>4 DEF Status
  <2>6. BrowseTypeOK'
    <3>1. misses' \in Nat
      BY <1>1, <2>1, BrowseTypes
    <3> QED
      BY <1>1, <2>1, <2>4, <2>5, <3>1, BrowseTypes, BrowseTyped
  <2>7. open = "profile" => ProfileOK'
    BY <1>1, <1>3, <2>1, <2>2, <2>4, <2>5 DEF ProfileOK, VisitOK
  <2> QED
    BY <1>1, <1>2, <2>6, <2>7 DEF BrowseInv
<1>5. CASE Visited(a)
  <2>1. /\ ask[a].at = "answered" /\ button' = ask[a].found /\ searching' = FALSE
        /\ ask' = [ask EXCEPT ![a] = NotAsked]
        /\ UNCHANGED <<open, listing, typed, due, results, failed, follows, followBusy, toggles, misses, excused>>
    BY <1>5 DEF Visited
  <2>2. ask' \in [Asks -> AskRecord] /\ InFlight' = InFlight \ {a}
    BY <1>1, <2>1, ForgottenFacts
  <2>3. BrowseTypeOK'
    BY <1>1, <2>1, <2>2, BrowseTypes, BrowseTyped
  <2>4. open = "profile" => ProfileOK'
    BY <1>3, <2>1, <2>2 DEF ProfileOK
  <2> QED
    BY <1>1, <1>2, <2>3, <2>4 DEF BrowseInv
<1> QED
  BY <1>4, <1>5

LEMMA ToggleKeepsBrowse ==
  ASSUME BrowseInv, NEW a \in Asks, ToggleFollow(a)
  PROVE  BrowseInv'
<1> USE DEF search, profile
<1>1. /\ BrowseTypeOK /\ open \in {"profile", "watch"} /\ ~searching /\ ~followBusy
      /\ toggles' = toggles + 1 /\ followBusy' = TRUE
      /\ UNCHANGED <<open, search, follows, button, misses, excused>>
  BY DEF BrowseInv, ToggleFollow, OffersFollow
<1> DEFINE op == IF button THEN "unfollow" ELSE "follow"
<1>2. Asked(a, op) /\ op \in {"follow", "unfollow"}
  BY DEF ToggleFollow
<1> HIDE DEF op
<1>3. /\ ask' \in [Asks -> AskRecord] /\ InFlight' = InFlight \cup {a}
      /\ ask'[a].op = op /\ ask'[a].at = "sent"
  BY <1>1, <1>2, AskedFacts
<1>4. BrowseTypeOK'
  BY <1>1, <1>3, BrowseTypes, BrowseTyped
<1>5. open = "profile" => InFlight = {} /\ (excused \/ button = follows)
  BY <1>1 DEF BrowseInv, ProfileOK, VisitOK, ToggleOK
<1>6. open = "profile" => ProfileOK'
  BY <1>1, <1>2, <1>3, <1>5 DEF ProfileOK, ToggleOK
<1> QED
  BY <1>1, <1>4, <1>6 DEF BrowseInv

LEMMA FollowKeepsBrowse ==
  ASSUME BrowseInv, NEW a \in Asks,
         Follow(a) \/ Unfollow(a) \/ FollowAnswered(a) \/ FollowLost(a)
  PROVE  BrowseInv'
<1> USE DEF search, profile
<1>1. /\ BrowseTypeOK /\ ask[a] \in AskRecord /\ ask[a].op \in {"follow", "unfollow"} /\ open' = open
      /\ follows \in BOOLEAN /\ excused \in BOOLEAN /\ button \in BOOLEAN /\ a \in InFlight
  BY BrowseTypes, AskParts, AskedInFlight DEF BrowseInv, Follow, Unfollow, FollowAnswered, FollowLost
<1>2. open # "library"
  BY <1>1 DEF BrowseInv, LibraryOK
<1>3. open = "profile" =>
        /\ \A x \in InFlight : x = a
        /\ ~searching /\ followBusy /\ ask[a].at \in {"sent", "answered", "refused"}
        /\ ask[a].at \in {"sent", "refused"} /\ ~excused => button = follows
        /\ ask[a].at = "answered" /\ ~excused => follows = (ask[a].op = "follow")
  BY <1>1 DEF BrowseInv, ProfileOK, VisitOK, ToggleOK
<1>4. CASE Follow(a) \/ Unfollow(a)
  <2> DEFINE at == IF ask[a].op = "follow" /\ follows THEN "refused" ELSE "answered"
             s == [ask[a] EXCEPT !.at = at]
  <2>1. /\ ask' = [ask EXCEPT ![a] = s] /\ ask[a].at = "sent" /\ follows' = (ask[a].op = "follow")
        /\ excused' = (ask[a].op = "follow" /\ excused /\ follows)
        /\ UNCHANGED <<open, search, button, followBusy, toggles, misses>>
    BY <1>1, <1>4 DEF Follow, Unfollow
  <2>2. at \in {"answered", "refused"} /\ (at = "refused" <=> ask[a].op = "follow" /\ follows)
    OBVIOUS
  <2> HIDE DEF at
  <2>3. s \in AskRecord /\ s.op = ask[a].op /\ s.at = at
    BY <1>1, <2>2 DEF AskRecord
  <2> HIDE DEF s
  <2>4. ask' \in [Asks -> AskRecord] /\ ask'[a] = s /\ InFlight' = InFlight
    <3>1. s.at # "idle"
      BY <2>2, <2>3
    <3>2. ask' \in [Asks -> AskRecord] /\ ask'[a] = s /\ InFlight' = InFlight \cup {a}
      BY <1>1, <2>1, <2>3, <3>1, GoesFacts
    <3> QED
      BY <1>1, <3>2
  <2>5. BrowseTypeOK'
    BY <1>1, <2>1, <2>4, BrowseTypes, BrowseTyped
  <2>6. ASSUME open = "profile" PROVE ToggleOK(a)'
    <3>1. at = "refused" /\ ~excused' => button' = follows'
      BY <1>1, <1>3, <2>1, <2>2, <2>6
    <3>2. at = "answered" => follows' = (ask'[a].op = "follow")
      BY <2>1, <2>3, <2>4
    <3> QED
      BY <1>1, <1>3, <2>1, <2>2, <2>3, <2>4, <2>6, <3>1, <3>2 DEF ToggleOK
  <2>7. open = "profile" => ProfileOK'
    BY <1>1, <1>3, <2>4, <2>6 DEF ProfileOK
  <2> QED
    BY <1>1, <1>2, <2>5, <2>7 DEF BrowseInv
<1>5. CASE FollowAnswered(a)
  <2>1. /\ ask' = [ask EXCEPT ![a] = NotAsked] /\ followBusy' = FALSE
        /\ ask[a].at \in {"answered", "refused"}
        /\ button' = (IF ask[a].at = "answered" THEN ask[a].op = "follow" ELSE button)
        /\ UNCHANGED <<open, search, follows, toggles, misses, excused>>
    BY <1>5 DEF FollowAnswered
  <2>2. ask' \in [Asks -> AskRecord] /\ InFlight' = InFlight \ {a}
    BY <1>1, <2>1, ForgottenFacts
  <2>3. BrowseTypeOK'
    <3>1. button' \in BOOLEAN
      BY <1>1, <2>1
    <3> QED
      BY <1>1, <2>1, <2>2, <3>1, BrowseTypes, BrowseTyped
  <2>4. open = "profile" => ~searching' /\ InFlight' = {} /\ (excused' \/ button' = follows')
    BY <1>3, <2>1, <2>2
  <2> QED
    BY <1>1, <1>2, <2>3, <2>4 DEF BrowseInv, ProfileOK
<1>6. CASE FollowLost(a)
  <2>1. /\ ask' = [ask EXCEPT ![a] = NotAsked] /\ followBusy' = FALSE /\ misses' = misses + 1
        /\ excused' = (excused \/ ask[a].at = "answered")
        /\ UNCHANGED <<open, search, follows, button, toggles>>
    BY <1>6 DEF FollowLost
  <2>2. ask' \in [Asks -> AskRecord] /\ InFlight' = InFlight \ {a}
    BY <1>1, <2>1, ForgottenFacts
  <2>3. BrowseTypeOK'
    BY <1>1, <2>1, <2>2, BrowseTypes, BrowseTyped
  <2>4. open = "profile" => ~searching' /\ InFlight' = {} /\ (excused' \/ button' = follows')
    BY <1>3, <2>1, <2>2
  <2> QED
    BY <1>1, <1>2, <2>3, <2>4 DEF BrowseInv, ProfileOK
<1> QED
  BY <1>4, <1>5, <1>6

LEMMA ElsewhereKeepsBrowse ==
  ASSUME BrowseInv, FollowElsewhere
  PROVE  BrowseInv'
<1> USE DEF search, profile
<1>1. /\ BrowseTypeOK /\ open \in {"profile", "watch"} /\ toggles' = toggles + 1 /\ follows' = ~follows
      /\ excused' = TRUE /\ UNCHANGED <<open, search, button, followBusy, ask, misses>>
  BY DEF BrowseInv, FollowElsewhere
<1>2. BrowseTypeOK'
  BY <1>1, BrowseTypes, BrowseTyped
<1>3. open = "profile" => ProfileOK'
  BY <1>1 DEF BrowseInv, ProfileOK, VisitOK, ToggleOK, InFlight
<1> QED
  BY <1>1, <1>2, <1>3 DEF BrowseInv

LEMMA BrowseNext == BrowseInv /\ [Next]_vars => BrowseInv'
<1> SUFFICES ASSUME BrowseInv, [Next]_vars PROVE BrowseInv'
  OBVIOUS
<1>1. ASSUME NEW a \in Asks, BrowseStep(a) PROVE BrowseInv'
  BY <1>1, ExploreKeepsBrowse, TypedKeepsBrowse, FoundKeepsBrowse, ShownKeepsBrowse, VisitKeepsBrowse,
     ToggleKeepsBrowse, FollowKeepsBrowse DEF BrowseStep
<1>2. CASE Browsing
  BY <1>1, <1>2, TickKeepsBrowse, ElsewhereKeepsBrowse DEF Browsing
<1>3. CASE UNCHANGED browse
  BY <1>3 DEF browse, BrowseInv, BrowseTypeOK, LibraryOK, ProfileOK, VisitOK, ToggleOK, InFlight
<1> QED
  BY <1>2, <1>3 DEF Next, Server, Keys, Studio, InPanels, Paying, others, vars

LEMMA BrowseStart == Init => BrowseInv
<1> SUFFICES ASSUME Init PROVE BrowseInv
  OBVIOUS
<1>1. PICK pages \in SUBSET {"explore", "library", "profile", "watch", "none"} : BrowseInit(pages)
  BY DEF Init, ViewerPages
<1> DEFINE detail == [NotAsked EXCEPT !.op = "detail", !.at = "sent", !.q = 1]
           visit == [NotAsked EXCEPT !.op = "visit", !.at = "sent", !.q = 1]
<1>2. PICK a \in Asks : ask = [x \in Asks |-> CASE x = a /\ open = "library" -> Search(1)
                                                [] x = a /\ open = "watch" -> detail
                                                [] x = a /\ open = "profile" -> visit
                                                [] OTHER -> NotAsked]
  BY <1>1 DEF BrowseInit
<1>3. /\ detail \in AskRecord /\ visit \in AskRecord /\ visit.op = "visit" /\ visit.at = "sent"
  BY DEF NotAsked, AskRecord
<1> HIDE DEF detail, visit
<1>4. ask \in [Asks -> AskRecord] /\ \A x \in Asks \ {a} : ask[x] = NotAsked
  BY <1>2, <1>3, NewAsk
<1>5. /\ open \in {"explore", "library", "profile", "watch", "none"} /\ listing = 0 /\ typed = 1
      /\ due = (open = "explore") /\ results = Nil /\ failed = FALSE /\ searching = (open # "none")
      /\ follows \in BOOLEAN /\ button = FALSE /\ followBusy = FALSE /\ toggles = 0 /\ misses = 0
      /\ excused = FALSE
  BY <1>1 DEF BrowseInit
<1>6. BrowseTypeOK
  <2>1. {listing, typed, toggles, misses} \subseteq Nat /\ results \in [q : Nat, saw : Nat]
    BY <1>5 DEF Nil
  <2>2. (open = "explore") \in BOOLEAN /\ (open # "none") \in BOOLEAN
    OBVIOUS
  <2>3. {due, searching, failed, follows, button, followBusy, excused} \subseteq BOOLEAN
    BY <1>5, <2>2
  <2> QED
    BY <1>4, <1>5, <2>1, <2>3 DEF BrowseTypeOK
<1>7. ASSUME open = "library" PROVE LibraryOK
  <2>1. ask[a] = Search(1)
    BY <1>2, <1>7
  <2>2. InFlight = {a}
    BY <1>4, <2>1, NewAsk DEF InFlight
  <2> QED
    BY <1>5, <2>1, <2>2, NewAsk DEF LibraryOK
<1>8. ASSUME open = "profile" PROVE ProfileOK
  <2>1. ask[a] = visit
    BY <1>2, <1>8
  <2>2. InFlight = {a}
    BY <1>3, <1>4, <2>1, NewAsk DEF InFlight
  <2> QED
    BY <1>3, <1>5, <1>8, <2>1, <2>2 DEF ProfileOK, VisitOK
<1> QED
  BY <1>6, <1>7, <1>8 DEF BrowseInv

\* At rest what was asked last is shown.
LEMMA BrowseRest == BrowseInv => BrowseAsShown
BY DEF BrowseInv, BrowseAsShown, LibraryOK, ProfileOK

----------------------------------------------------------------------------
DashboardInv == PlanInv /\ KeysInv /\ PanelsInv /\ BillsInv /\ BrowseInv

LEMMA DashboardStart == Init => DashboardInv
BY PlanInit, KeysStart, PanelsStart, BillsStart, BrowseStart DEF DashboardInv

LEMMA DashboardNext == DashboardInv /\ [Next]_vars => DashboardInv'
BY PlanNext, KeysNext, PanelsNext, BillsNext, BrowseNext DEF DashboardInv

\* The pages at rest show what auth-service has stored: the keys page every key that is not
\* revoked, once; the invite and moderation panels what is in force; the billing page the
\* plan; the library what was found for the query typed; the profile whether the viewer
\* follows.  However their requests overlap, and but for what each page cannot know.
THEOREM ShownIsStoredHolds == Spec => []ShownIsStored
<1>1. DashboardInv => ShownIsStored
  BY KeysRest, PanelsRest, BillsRest, BrowseRest DEF DashboardInv, ShownIsStored
<1> QED
  BY <1>1, DashboardStart, DashboardNext, PTL DEF Spec

\* Who asks for what; what a request has seen was made.
OpsOK(c) ==
  /\ call[c].by = "keys" => call[c].op \in {"list", "create", "revoke", "regenerate"}
  /\ call[c].by = "studio" => call[c].op \in {"detail", "end", "rotate"}
SawOK == \A c \in Calls : OpsOK(c) /\ call[c].saw \subseteq Made
TypeInv == scene \in Scenes /\ SawOK /\ KeysTypeOK /\ StudioTypeOK

\* Of a request nothing changes but what it has seen.
LEMMA SawFrame ==
  ASSUME SawOK, Made \subseteq Made',
         \A x \in Calls : \/ /\ call'[x].by = call[x].by /\ call'[x].op = call[x].op
                             /\ call'[x].saw = call[x].saw \/ call'[x].saw \subseteq Made'
                          \/ OpsOK(x)' /\ call'[x].saw = {}
  PROVE  SawOK'
BY DEF SawOK, OpsOK

LEMMA ServerSees ==
  ASSUME TableTypeOK, SawOK, NEW c \in Calls, ServerStep(c) \/ Fail(c)
  PROVE  SawOK' /\ Made \subseteq Made'
<1>1. active \in SUBSET Nat /\ active \cap Of(call[c].arg) \in SUBSET Nat /\ active \subseteq Made
  <2>1. active \subseteq Nat /\ active \subseteq Made
    BY DEF TableTypeOK, Made
  <2> QED
    BY <2>1
<1>2. \A x \in Calls \ {c} : Kept(x)
  BY StepCalls
<1>3. ASSUME UNCHANGED keyOf, call'[c].by = call[c].by, call'[c].op = call[c].op,
             call'[c].saw = call[c].saw \/ call'[c].saw \subseteq Made
      PROVE  SawOK' /\ Made \subseteq Made'
  <2>1. Made' = Made
    BY <1>3 DEF Made
  <2> QED
    BY <1>2, <1>3, <2>1, SawFrame DEF Kept
<1>4. CASE \/ ListKeys(c) \/ CountKeys(c) \/ FindKey(c) \/ CountLeft(c) \/ CheckRotate(c) \/ ReadKeys(c)
  <2>1. CASE \E at \in Steps : Proceed(c, at)
    BY <1>3, <2>1, ProceedCalls DEF Proceed, rows
  <2>2. CASE Answer(c, active) \/ Answer(c, active \cap Of(call[c].arg))
    BY <1>1, <1>3, <2>2, AnswerCalls DEF Answer, rows
  <2> QED
    BY <1>4, <2>1, <2>2, StepNames DEF ListKeys, CountKeys, FindKey, CountLeft, CheckRotate, ReadKeys, Refuse
<1>5. CASE CheckStream(c) \/ CheckAll(c)
  <2>1. CASE Proceed(c, "refused")
    BY <1>3, <2>1, ProceedCalls, StepNames DEF Proceed, rows
  <2>2. CASE ~Refuse(c)
    BY <1>3, <1>5, <2>2, NewestCalls DEF CheckStream, CheckAll, rows
  <2> QED
    BY <2>1, <2>2 DEF Refuse
<1>6. CASE Bootstrap(c) \/ InsertKey(c)
  <2>1. PICK s : Insert(c, s)
    BY <1>6 DEF Bootstrap, InsertKey
  <2>2. Made' = Made \cup {Len(keyOf) + 1}
    <3>1. keyOf' = Append(keyOf, s) /\ keyOf \in Seq(Nat)
      BY <2>1 DEF Insert, TableTypeOK
    <3>2. Len(keyOf') = Len(keyOf) + 1 /\ Len(keyOf) \in Nat
      BY <3>1
    <3> QED
      BY <3>2 DEF Made
  <2>3. /\ call'[c].by = call[c].by /\ call'[c].op = call[c].op /\ call'[c].saw = {Len(keyOf) + 1}
    BY <2>1, InsertFacts
  <2> QED
    BY <1>2, <2>2, <2>3, SawFrame DEF Kept
<1>7. CASE RevokeKey(c) \/ RevokeAll(c) \/ EndStream(c)
  <2>1. CASE Proceed(c, "refused")
    BY <1>3, <2>1, ProceedCalls, StepNames DEF Proceed, rows
  <2>2. CASE ~Refuse(c)
    BY <1>3, <1>7, <2>2, WarnedKept, StepNames DEF RevokeKey, RevokeAll, EndStream, Without, Finalized
  <2> QED
    BY <2>1, <2>2 DEF Refuse
<1>8. CASE RevokeOfStream(c) \/ ReadStream(c)
  BY <1>3, <1>8, OtherKept DEF RevokeOfStream, ReadStream, Without, rows
<1>9. CASE Fail(c)
  <2>1. call \in [Calls -> CallRecord] /\ call' = [call EXCEPT ![c] = Moved(c, "refused")] /\ UNCHANGED keyOf
    BY <1>9 DEF TableTypeOK, Fail, rows
  <2>2. call'[c] = Moved(c, "refused")
    BY <2>1
  <2> QED
    BY <1>3, <2>1, <2>2, CallMoves, StepNames
<1> QED
  BY <1>4, <1>5, <1>6, <1>7, <1>8, <1>9 DEF ServerStep

LEMMA OthersSee ==
  ASSUME TableTypeOK, SawOK, GoLive \/ GoOffline \/ NewStream
  PROVE  SawOK' /\ Made \subseteq Made'
<1>1. CASE GoLive
  BY <1>1 DEF GoLive, SawOK, OpsOK, Made
<1>2. ASSUME NEW x \in Calls, GoOffline \/ NewStream
      PROVE  call'[x].by = call[x].by /\ call'[x].op = call[x].op /\ call'[x].saw = call[x].saw
  <2>1. call[x] \in CallRecord /\ \A l : [call[x] EXCEPT !.late = l].saw = call[x].saw
    BY DEF TableTypeOK, CallRecord
  <2>2. \A l : [call[x] EXCEPT !.late = l].by = call[x].by /\ [call[x] EXCEPT !.late = l].op = call[x].op
    BY <2>1 DEF CallRecord
  <2>3. CASE GoOffline
    BY <2>1, <2>2, <2>3 DEF GoOffline
  <2>4. CASE NewStream
    <3>1. call' = [z \in Calls |-> [call[z] EXCEPT !.late = @ \/ Counted(z)]]
      BY <2>4 DEF NewStream
    <3>2. PICK l : call'[x] = [call[x] EXCEPT !.late = l]
      BY <3>1
    <3> QED
      BY <2>1, <2>2, <3>2
  <2> QED
    BY <1>2, <2>3, <2>4
<1>3. CASE GoOffline \/ NewStream
  <2>1. Made \subseteq Made'
    <3>1. CASE GoOffline
      BY <3>1 DEF GoOffline, Finalized, Made
    <3>2. CASE NewStream
      <4>1. keyOf' = Append(keyOf, streams + 1) /\ keyOf \in Seq(Nat) /\ streams + 1 \in Nat
        BY <3>2 DEF NewStream, TableTypeOK
      <4>2. Len(keyOf') = Len(keyOf) + 1 /\ Len(keyOf) \in Nat
        BY <4>1
      <4> QED
        BY <4>2 DEF Made
    <3> QED
      BY <1>3, <3>1, <3>2
  <2> QED
    BY <1>2, <1>3, <2>1, SawFrame
<1> QED
  BY <1>1, <1>3

\* The pages only send requests and take the answers away.
LEMMA PagesSee ==
  ASSUME TableTypeOK, SawOK, NEW c \in Calls, KeysPageStep(c) \/ StudioStep(c)
  PROVE  SawOK' /\ Made' = Made
<1>1. UNCHANGED keyOf
  BY DEF KeysPageStep, StudioStep, Create, Revoke, RotateAll, KeysAnswered, KeysRefused, Ask, Settled,
         Poll, End, Rotate, StudioAnswered, StudioRefused, AskStudio, Leave, rows
<1>2. Made' = Made
  BY <1>1 DEF Made
<1>3. ASSUME call' = [call EXCEPT ![c] = Idle] PROVE SawOK'
  <2>1. call'[c] = Idle /\ \A x \in Calls \ {c} : call'[x] = call[x]
    BY <1>3 DEF TableTypeOK
  <2>2. OpsOK(c)' /\ call'[c].saw = {}
    BY <2>1 DEF OpsOK, Idle
  <2> QED
    BY <1>2, <2>1, <2>2, SawFrame
<1>4. ASSUME NEW by, NEW op, NEW arg, Request(c, by, op, arg),
             \/ by = "keys" /\ op \in {"create", "revoke", "regenerate"}
             \/ by = "studio" /\ op \in {"detail", "end", "rotate"}
      PROVE  SawOK'
  <2> DEFINE r == NewCall(by, op, arg)
  <2>1. r.by = by /\ r.op = op /\ r.saw = {}
    BY DEF NewCall, Idle
  <2>2. call' = [call EXCEPT ![c] = r]
    BY <1>4 DEF Request
  <2> HIDE DEF r
  <2>3. call'[c] = r /\ \A x \in Calls \ {c} : call'[x] = call[x]
    BY <2>2 DEF TableTypeOK
  <2>4. OpsOK(c)' /\ call'[c].saw = {}
    BY <1>4, <2>1, <2>3 DEF OpsOK
  <2> QED
    BY <1>2, <2>3, <2>4, SawFrame
<1>5. ASSUME KeysPageStep(c) PROVE SawOK'
  <2>1. CASE \E op \in {"create", "revoke", "regenerate"} : \E k : Ask(c, op, k)
    <3>1. PICK op \in {"create", "revoke", "regenerate"} : \E k : Ask(c, op, k)
      BY <2>1
    <3>2. PICK k : Request(c, "keys", op, k)
      BY <3>1 DEF Ask
    <3> QED
      BY <1>4, <3>2
  <2>2. CASE Create(c) \/ RotateAll(c) \/ \E k \in Made : Revoke(c, k)
    BY <2>1, <2>2 DEF Create, Revoke, RotateAll
  <2>3. CASE KeysAnswered(c) \/ KeysRefused(c)
    BY <1>3, <2>3 DEF KeysAnswered, KeysRefused, Forget
  <2> QED
    BY <1>5, <2>2, <2>3 DEF KeysPageStep
<1>6. ASSUME StudioStep(c) PROVE SawOK'
  <2>1. CASE \E op \in {"detail", "end", "rotate"} : AskStudio(c, op)
    <3>1. PICK op \in {"detail", "end", "rotate"} : Request(c, "studio", op, 1)
      BY <2>1 DEF AskStudio
    <3> QED
      BY <1>4, <3>1
  <2>2. CASE Poll(c) \/ End(c) \/ Rotate(c)
    BY <2>1, <2>2 DEF Poll, End, Rotate
  <2>3. CASE StudioAnswered(c) \/ StudioRefused(c)
    BY <1>3, <2>3 DEF StudioAnswered, StudioRefused, Leave
  <2> QED
    BY <1>6, <2>2, <2>3 DEF StudioStep
<1> QED
  BY <1>2, <1>5, <1>6

\* The list stays a bag of keys that were made.
LEMMA PatchedTyped ==
  ASSUME KeysTypeOK, NEW saw \in SUBSET Made, NEW k,
         NEW op \in {"list", "create", "revoke", "regenerate"}
  PROVE  /\ BagToSet(Patched(op, k, saw)) \subseteq Made
         /\ Patched(op, k, saw) \in [BagToSet(Patched(op, k, saw)) -> Nat \ {0}]
<1>1. Shown \subseteq Made /\ DOMAIN listed = Shown /\ listed \in [Shown -> Nat \ {0}]
  BY DEF KeysTypeOK, Shown, BagToSet
<1>2. SetToBag(saw) = [x \in saw |-> 1]
  BY DEF SetToBag
<1>3. CASE op \in {"list", "regenerate"}
  BY <1>2, <1>3 DEF Patched, BagToSet
<1>4. CASE op = "create"
  <2> DEFINE both == Shown \cup saw
             n(x) == (IF x \in Shown THEN listed[x] ELSE 0) + (IF x \in saw THEN 1 ELSE 0)
  <2>1. Patched(op, k, saw) = [x \in both |-> n(x)]
    BY <1>1, <1>2, <1>4 DEF Patched, (+)
  <2>2. \A x \in both : n(x) \in Nat \ {0}
    BY <1>1
  <2> QED
    BY <1>1, <2>1, <2>2 DEF BagToSet
<1>5. CASE op = "revoke"
  <2>1. Patched(op, k, saw) = [x \in Shown \ {k} |-> listed[x]]
    BY <1>1, <1>5 DEF Patched, Drop
  <2> QED
    BY <1>1, <2>1 DEF BagToSet
<1> QED
  BY <1>3, <1>4, <1>5

LEMMA KeysStepTyped ==
  ASSUME TableTypeOK, SawOK, KeysTypeOK, NEW c \in Calls, KeysPageStep(c)
  PROVE  KeysTypeOK'
<1>1. Made' = Made
  BY PagesSee
<1>2. maxKeys' \in Nat /\ loading' \in BOOLEAN /\ creating' \in BOOLEAN
  BY DEF KeysTypeOK, KeysPageStep, Create, Revoke, RotateAll, Ask, KeysAnswered, KeysRefused, Settled
<1>3. crossed' \in BOOLEAN
  BY DEF KeysTypeOK, KeysPageStep, Create, Revoke, RotateAll, Ask, KeysAnswered, KeysRefused
<1>4. CASE UNCHANGED listed
  BY <1>1, <1>2, <1>3, <1>4 DEF KeysTypeOK, Shown
<1>5. CASE KeysAnswered(c)
  <2>1. /\ c \in Mine /\ listed' = Patched(call[c].op, call[c].arg, call[c].saw)
    BY <1>5 DEF KeysAnswered
  <2>2. call[c].op \in {"list", "create", "revoke", "regenerate"} /\ call[c].saw \in SUBSET Made
    BY <2>1 DEF Mine, SawOK, OpsOK
  <2>3. BagToSet(listed') \subseteq Made /\ listed' \in [BagToSet(listed') -> Nat \ {0}]
    BY <2>1, <2>2, PatchedTyped
  <2> QED
    BY <1>1, <1>2, <1>3, <2>3 DEF KeysTypeOK, Shown
<1> QED
  BY <1>4, <1>5 DEF KeysPageStep, Create, Revoke, RotateAll, Ask, KeysRefused

LEMMA StudioStepTyped ==
  ASSUME TableTypeOK, SawOK, StudioTypeOK, NEW c \in Calls, StudioStep(c)
  PROVE  StudioTypeOK'
<1> DEFINE Views == [loaded : BOOLEAN, live : BOOLEAN, ended : BOOLEAN, keys : SUBSET Nat]
<1>1. ending' \in BOOLEAN /\ rotating' \in BOOLEAN
  BY DEF StudioTypeOK, StudioStep, Poll, End, Rotate, AskStudio, StudioAnswered, StudioRefused, Leave
<1>2. thrown' \in BOOLEAN
  BY DEF StudioTypeOK, StudioStep, Poll, End, Rotate, AskStudio, StudioAnswered, StudioRefused
<1>3. view' \in Views
  <2>1. CASE UNCHANGED view
    BY <2>1 DEF StudioTypeOK
  <2>2. CASE StudioAnswered(c) /\ ~thrown
    <3>1. view' = Drawn(c) /\ call[c].op \in {"detail", "end", "rotate"}
      BY <2>2 DEF StudioAnswered, OfStudio, SawOK, OpsOK
    <3>2. call[c].saw \in SUBSET Nat /\ call[c].row \in [live : BOOLEAN, ended : BOOLEAN]
      BY DEF TableTypeOK, CallRecord
    <3>3. view \in Views
      BY DEF StudioTypeOK
    <3>4. CASE call[c].op = "detail"
      BY <3>1, <3>2, <3>4 DEF Drawn
    <3>5. CASE call[c].op = "end"
      BY <3>1, <3>3, <3>5 DEF Drawn
    <3>6. CASE call[c].op = "rotate"
      BY <3>1, <3>2, <3>3, <3>6 DEF Drawn
    <3> QED
      BY <3>1, <3>4, <3>5, <3>6
  <2> QED
    BY <2>1, <2>2 DEF StudioStep, Poll, End, Rotate, AskStudio, StudioAnswered, StudioRefused
<1> QED
  BY <1>1, <1>2, <1>3 DEF StudioTypeOK

LEMMA TypeNext == PlanInv /\ TypeInv /\ [Next]_vars => TypeInv'
<1> SUFFICES ASSUME PlanInv, TypeInv, [Next]_vars PROVE TypeInv'
  OBVIOUS
<1>1. TableTypeOK /\ SawOK /\ KeysTypeOK /\ StudioTypeOK /\ scene \in Scenes
  BY DEF PlanInv, TypeInv
<1>2. UNCHANGED scene
  BY DEF Next, vars, Server, Keys, Studio, InPanels, Paying, Browsing, others
<1>3. ASSUME UNCHANGED keysPage, Made \subseteq Made' PROVE KeysTypeOK'
  <2>1. UNCHANGED <<listed, loading, creating, maxKeys, crossed>>
    BY <1>3 DEF keysPage
  <2> QED
    BY <1>1, <1>3, <2>1 DEF KeysTypeOK, Shown
<1>4. ASSUME UNCHANGED studioPage PROVE StudioTypeOK'
  BY <1>1, <1>4 DEF studioPage, StudioTypeOK
<1>5. CASE Server
  <2>1. UNCHANGED keysPage /\ UNCHANGED studioPage
    BY <1>5 DEF Server, keyPages
  <2>2. SawOK' /\ Made \subseteq Made'
    BY <1>1, <1>5, ServerSees, OthersSee DEF Server
  <2> QED
    BY <1>1, <1>2, <1>3, <1>4, <2>1, <2>2 DEF TypeInv
<1>6. CASE Keys
  <2>1. UNCHANGED studioPage
    BY <1>6 DEF Keys
  <2>2. CASE Entitled
    <3>1. UNCHANGED <<keyOf, call, listed, loading, creating, crossed>> /\ maxKeys' = MaxActiveKeys
      BY <2>2 DEF Entitled, table, rows
    <3>2. SawOK' /\ KeysTypeOK'
      BY <1>1, <3>1, KeyTableAssumption DEF SawOK, OpsOK, Made, KeysTypeOK, Shown
    <3> QED
      BY <1>1, <1>2, <1>4, <2>1, <3>2 DEF TypeInv
  <2> QED
    BY <1>1, <1>2, <1>4, <1>6, <2>1, <2>2, PagesSee, KeysStepTyped DEF Keys, TypeInv
<1>7. CASE Studio
  <2>1. UNCHANGED keysPage
    BY <1>7 DEF Studio
  <2> QED
    BY <1>1, <1>2, <1>3, <1>7, <2>1, PagesSee, StudioStepTyped DEF Studio, TypeInv
<1>8. CASE UNCHANGED table /\ UNCHANGED keyPages
  <2>1. UNCHANGED <<keyOf, call>> /\ UNCHANGED keysPage /\ UNCHANGED studioPage
    BY <1>8 DEF table, rows, keyPages
  <2>2. SawOK' /\ Made' = Made
    BY <1>1, <2>1 DEF SawOK, OpsOK, Made
  <2> QED
    BY <1>1, <1>2, <1>3, <1>4, <2>1, <2>2 DEF TypeInv
<1> QED
  BY <1>5, <1>6, <1>7, <1>8 DEF Next, vars, InPanels, Paying, Browsing, keyPages

LEMMA TypeStart == Init => TypeInv
<1> SUFFICES ASSUME Init PROVE TypeInv
  OBVIOUS
<1> DEFINE r == [Idle EXCEPT !.by = "keys", !.op = "list", !.at = "find"]
<1>1. r.by = "keys" /\ r.op = "list" /\ r.saw = {} /\ Idle.by = "nobody" /\ Idle.saw = {}
  BY DEF Idle
<1>2. PICK c \in Calls : call = [x \in Calls |-> IF x = c /\ "keys" \in scene THEN r ELSE Idle]
  BY DEF Init
<1> HIDE DEF r
<1>3. SawOK
  BY <1>1, <1>2 DEF SawOK, OpsOK
<1>4. KeysTypeOK
  <2>1. listed = SetToBag({}) /\ Shown = {}
    BY ListOfSet DEF Init, KeysInit, Shown
  <2>2. listed \in [{} -> Nat \ {0}]
    BY <2>1 DEF SetToBag
  <2>3. maxKeys = 1 /\ loading = ("keys" \in scene) /\ creating = FALSE /\ crossed = FALSE
    BY DEF Init, KeysInit
  <2>4. loading \in BOOLEAN
    <3>1. CASE "keys" \in scene
      BY <2>3, <3>1
    <3>2. CASE "keys" \notin scene
      BY <2>3, <3>2
    <3> QED
      BY <3>1, <3>2
  <2>5. {loading, creating, crossed} \subseteq BOOLEAN
    BY <2>3, <2>4
  <2>6. Shown \subseteq Made /\ maxKeys \in Nat /\ listed \in [Shown -> Nat \ {0}]
    BY <2>1, <2>2, <2>3
  <2> QED
    BY <2>5, <2>6 DEF KeysTypeOK
<1>5. StudioTypeOK
  BY DEF Init, StudioInit, StudioTypeOK, Blank
<1> QED
  BY <1>3, <1>4, <1>5 DEF Init, TypeInv

\* Every variable of the pages and of the tables keeps its type, and a list its keys.
THEOREM DashboardTypeCorrect == Spec => []TypeOK
<1>1. Init => DashboardInv /\ TypeInv
  BY DashboardStart, TypeStart
<1>2. DashboardInv /\ TypeInv /\ [Next]_vars => (DashboardInv /\ TypeInv)'
  BY DashboardNext, TypeNext DEF DashboardInv
<1>3. DashboardInv /\ TypeInv => TypeOK
  BY DEF DashboardInv, TypeInv, TypeOK, PlanInv, PanelsInv, BillsInv, BrowseInv
<1> QED
  BY <1>1, <1>2, <1>3, PTL DEF Spec
=============================================================================

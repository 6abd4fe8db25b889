------------------------ MODULE StreamSession_proofs ------------------------
(***************************************************************************)
(* Proofs of the safety of StreamSession, for any number of streams, keys, *)
(* connections, requests and failures, and any limits of the plan.         *)
(***************************************************************************)
EXTENDS StreamSession, FiniteSetTheorems, SequenceTheorems, TLAPS

\* What a finalizer may take for the newest key.
Newests == Nat \cup {Newest(S) : S \in SUBSET Nat}
Finalize == [pc : FinalizeSteps, stream : Streams \cup {None}, by : Nat, newest : Newests]
Counts == [started : Nat, ended : Nat]

RowsOK ==
  /\ made \subseteq Streams /\ live \subseteq Streams /\ ended \subseteq Streams
  /\ keys \in Seq(Streams) /\ Len(keys) <= MaxKeys
  /\ revoked \subseteq 1 .. Len(keys)
  /\ vods \in [Streams -> Seq(Newests)]

\* Whoever has a handler or a connection has a row.
IngestOK ==
  /\ pub \in [KeyIds -> PublishSteps] /\ sent \in [KeyIds -> Counts]
  /\ active \subseteq KeyIds /\ line \subseteq 1 .. Len(keys)
  /\ \A k \in KeyIds : pub[k] # "none" => k <= Len(keys)

FinOK ==
  /\ fin \in [Finalizers -> Finalize]
  /\ \A f \in Finalizers : fin[f].pc = "idle" => fin[f].by = 0
  /\ \A f \in Finalizers : fin[f].pc # "idle" => fin[f].stream \in Streams

StudioOK ==
  /\ studio.pc \in {"createEnded", "regenEnded", "regenRevoke", "rotateRevoke", "insert"}
       => studio.stream \in Streams
  /\ studio.pc \in {"revokeCount", "revokeUpdate"} => studio.key \in 1 .. Len(keys)

TypesOK == RowsOK /\ IngestOK /\ FinOK /\ StudioOK

----------------------------------------------------------------------------
Validating == {"findKey", "isEnded", "countLive"}
Starting == {"startCount", "startUpdate", "announce"}
One(b) == IF b THEN 1 ELSE 0

\* The life of a key whose on_publish_done never came during its on_publish: its
\* connection, the map of rtmp-ingest, the cache and the events it has sent agree.
KeyOK(k) ==
  /\ pub[k] = "none" => (k \in line <=> k \in active)
  /\ pub[k] \in Validating => k \in line /\ k \notin active
  /\ pub[k] \in Starting => k \in line /\ k \in active
  /\ k \in cached => k \in active
  /\ sent[k].started = sent[k].ended + One(fin["ingest"].by = k) + One(k \in active /\ pub[k] = "none")

KeysOK == \A k \in KeyIds \ overtaken : KeyOK(k)

\* At most one start is past the count, and there is room for it.
LimitOK ==
  /\ live \cap ended = {}
  /\ ~crowded =>
       /\ Cardinality(live) <= MaxLive
       /\ \A k \in KeyIds : pub[k] = "startUpdate" =>
            /\ Cardinality(live \ {keys[k]}) < MaxLive
            /\ \A j \in KeyIds : pub[j] = "startUpdate" => j = k

\* A finalizer of stream s is at one of these steps.
At(s, steps) == \E f \in Finalizers : fin[f].stream = s /\ fin[f].pc \in steps

\* An ended stream has been finalized, or is being.
EndOK ==
  \A s \in ended \ broken :
    /\ At(s, {"revoke"}) \/ KeysOf(s) \subseteq revoked \cup lateKeys
    /\ At(s, {"revoke", "findVod", "create"}) \/ vods[s] # <<>>

\* A live stream is on air, or about to be ended.
LiveOK ==
  \A s \in live \ broken :
    \/ At(s, {"read", "update"})
    \/ \E k \in KeysOf(s) : k \in overtaken \/ k \in active

\* The inductive invariant of all but the Vods.
SessionInv == TypesOK /\ KeysOK /\ LimitOK /\ EndOK /\ LiveOK

----------------------------------------------------------------------------
(* What no step of another actor disturbs.                                 *)

LEMMA LiveIsFinite ==
  ASSUME RowsOK
  PROVE  /\ IsFiniteSet(live) /\ Cardinality(live) \in Nat
         /\ \A s : IsFiniteSet(live \ {s}) /\ Cardinality(live \ {s}) \in Nat
BY FS_Subset, FS_CardinalityType, SessionAssumption DEF RowsOK

\* Only key k, and its handler, connection, cache entry and events, change.
LEMMA OneKey ==
  ASSUME KeysOK, NEW k \in KeyIds, overtaken \subseteq overtaken',
         \A j \in KeyIds \ {k} :
           /\ pub'[j] = pub[j] /\ sent'[j] = sent[j]
           /\ (j \in line' <=> j \in line) /\ (j \in active' <=> j \in active)
           /\ (j \in cached' => j \in cached)
           /\ (fin'["ingest"].by = j <=> fin["ingest"].by = j),
         k \notin overtaken' => KeyOK(k)'
  PROVE  KeysOK'
<1> SUFFICES ASSUME NEW j \in KeyIds \ overtaken' PROVE KeyOK(j)'
  BY DEF KeysOK
<1>1. CASE j = k
  BY <1>1
<1>2. CASE j # k
  <2>1. KeyOK(j)
    BY DEF KeysOK
  <2> QED
    BY <1>2, <2>1 DEF KeyOK, One
<1> QED
  BY <1>1, <1>2

LEMMA KeysFrame ==
  ASSUME KeysOK, UNCHANGED <<pub, sent, line, active, overtaken>>, cached' \subseteq cached,
         fin'["ingest"].by = fin["ingest"].by
  PROVE  KeysOK'
BY DEF KeysOK, KeyOK, One

LEMMA LimitFrame ==
  ASSUME RowsOK, LimitOK, UNCHANGED <<live, ended, crowded>>,
         \A k \in KeyIds : pub'[k] = "startUpdate" => pub[k] = "startUpdate" /\ keys'[k] = keys[k]
  PROVE  LimitOK'
BY DEF LimitOK

LEMMA EndFrame ==
  ASSUME EndOK, ended' \subseteq ended, broken \subseteq broken', revoked \subseteq revoked',
         lateKeys \subseteq lateKeys', UNCHANGED <<keys, vods>>,
         \A s \in ended' \ broken' :
           /\ At(s, {"revoke"}) => At(s, {"revoke"})'
           /\ At(s, {"revoke", "findVod", "create"}) => At(s, {"revoke", "findVod", "create"})'
  PROVE  EndOK'
BY DEF EndOK, KeysOf

LEMMA LiveFrame ==
  ASSUME LiveOK, live' \subseteq live, broken \subseteq broken',
         overtaken \subseteq overtaken', active \subseteq active',
         \A s \in Streams : KeysOf(s) \subseteq KeysOf(s)', RowsOK,
         \A s \in live' \ broken' : At(s, {"read", "update"}) => At(s, {"read", "update"})'
  PROVE  LiveOK'
<1> SUFFICES ASSUME NEW s \in live' \ broken',
                    ~At(s, {"read", "update"})'
             PROVE  \E k \in KeysOf(s)' : k \in overtaken' \/ k \in active'
  BY DEF LiveOK
<1>1. s \in Streams /\ s \in live \ broken /\ ~At(s, {"read", "update"})
  BY DEF RowsOK
<1> QED
  BY <1>1 DEF LiveOK

LEMMA AtFrame ==
  ASSUME fin' = fin, NEW s, NEW steps
  PROVE  At(s, steps)' <=> At(s, steps)
BY DEF At

----------------------------------------------------------------------------
(* Requests that manage keys.                                              *)

\* Without a new key.
LEMMA StudioInv ==
  ASSUME SessionInv, OnlyStudio, UNCHANGED <<live, ended, keys, vods, history>>,
         made' \subseteq Streams, revoked \subseteq revoked', revoked' \subseteq 1 .. Len(keys), StudioOK'
  PROVE  SessionInv'
<1> USE DEF SessionInv, OnlyStudio, ingest, history
<1>1. TypesOK'
  BY DEF TypesOK, RowsOK, IngestOK, FinOK
<1>2. KeysOK'
  BY KeysFrame
<1>3. LimitOK'
  BY LimitFrame DEF TypesOK
<1>4. EndOK'
  BY EndFrame, AtFrame
<1>5. LiveOK'
  BY LiveFrame, AtFrame DEF TypesOK, KeysOf
<1> QED
  BY <1>1, <1>2, <1>3, <1>4, <1>5

LEMMA NewStreamInv ==
  ASSUME SessionInv, NEW s \in Streams, NewStream(s)
  PROVE  SessionInv'
<1>1. made' \subseteq Streams
  BY DEF SessionInv, TypesOK, RowsOK, NewStream
<1>2. StudioOK'
  BY DEF NewStream, Request, StudioOK
<1> QED
  BY <1>1, <1>2, StudioInv DEF NewStream, SessionInv, TypesOK, RowsOK

\* A request for the stream of the newest key, or for a stream that has not ended.
LEMMA AskInv ==
  ASSUME SessionInv,
         CreateKey \/ RegenerateKey \/ \E s \in Streams : RotateKeys(s)
  PROVE  SessionInv'
<1>1. keys # <<>> => keys[Len(keys)] \in Streams
  BY DEF SessionInv, TypesOK, RowsOK
<1>2. StudioOK' /\ OnlyStudio /\ UNCHANGED <<rows, history>>
  BY <1>1 DEF CreateKey, RegenerateKey, RotateKeys, Request, StudioOK
<1> QED
  BY <1>2, StudioInv DEF SessionInv, TypesOK, RowsOK, rows

LEMMA RevokeKeyInv ==
  ASSUME SessionInv, NEW k \in KeyIds, RevokeKey(k)
  PROVE  SessionInv'
<1>1. StudioOK'
  BY DEF RevokeKey, Request, Unrevoked, rows, StudioOK
<1> QED
  BY <1>1, StudioInv DEF RevokeKey, rows, SessionInv, TypesOK, RowsOK

LEMMA RevokeStepInv ==
  ASSUME SessionInv, RevokeStep
  PROVE  SessionInv'
<1>1. StudioOK'
  BY DEF RevokeStep, Request, NoRequest, StudioOK, SessionInv, TypesOK
<1> QED
  BY <1>1, StudioInv DEF RevokeStep, StudioOK, SessionInv, TypesOK, RowsOK

LEMMA CheckEndedInv ==
  ASSUME SessionInv, CheckEnded
  PROVE  SessionInv'
<1>1. StudioOK'
  BY DEF CheckEnded, Request, NoRequest, StudioOK, SessionInv, TypesOK
<1> QED
  BY <1>1, StudioInv DEF CheckEnded, SessionInv, TypesOK, RowsOK, rows

LEMMA RevokeAllInv ==
  ASSUME SessionInv, RevokeAll
  PROVE  SessionInv'
<1>1. StudioOK'
  BY DEF RevokeAll, Request, StudioOK, SessionInv, TypesOK
<1> QED
  BY <1>1, StudioInv DEF RevokeAll, KeysOf, SessionInv, TypesOK, RowsOK

\* A key is appended to its stream.
LEMMA KeysGrow ==
  ASSUME RowsOK, NEW q \in Streams, keys' = Append(keys, q)
  PROVE  /\ Len(keys) \in Nat /\ Len(keys') = Len(keys) + 1
         /\ \A s, k : k \in KeysOf(s)' <=> k \in KeysOf(s) \/ (k = Len(keys) + 1 /\ s = q)
<1>1. /\ keys' \in Seq(Streams) /\ Len(keys') = Len(keys) + 1 /\ Len(keys) \in Nat
      /\ \A k \in 1 .. Len(keys) : keys'[k] = keys[k]
      /\ keys'[Len(keys) + 1] = q
  BY DEF RowsOK
<1>2. 1 .. Len(keys') = (1 .. Len(keys)) \cup {Len(keys) + 1}
  BY <1>1
<1>3. Len(keys) + 1 \notin 1 .. Len(keys)
  BY <1>1
<1>4. ASSUME NEW s, NEW k
      PROVE  k \in KeysOf(s)' <=> k \in KeysOf(s) \/ (k = Len(keys) + 1 /\ s = q)
  <2>1. CASE k \in 1 .. Len(keys)
    BY <1>1, <1>2, <1>3, <2>1 DEF KeysOf
  <2>2. CASE k = Len(keys) + 1
    BY <1>1, <1>2, <1>3, <2>2 DEF KeysOf
  <2>3. CASE k \notin 1 .. Len(keys')
    BY <1>2, <2>3 DEF KeysOf
  <2> QED
    BY <1>2, <2>1, <2>2, <2>3
<1> QED
  BY <1>1, <1>4

\* The new key is unknown to everybody; of an ended stream, it is a late one.
LEMMA InsertKeyInv ==
  ASSUME SessionInv, InsertKey
  PROVE  SessionInv'
<1> USE DEF SessionInv
<1>1. StudioOK' /\ studio.stream \in Streams
  BY DEF InsertKey, NoRequest, StudioOK, TypesOK
<1>2. CASE UNCHANGED <<keys, lateKeys>>
  BY <1>1, <1>2, StudioInv DEF InsertKey, history, TypesOK, RowsOK
<1>3. CASE /\ Len(keys) < MaxKeys
           /\ keys' = Append(keys, studio.stream)
           /\ lateKeys' = IF studio.stream \in ended
                          THEN lateKeys \cup {Len(keys) + 1} ELSE lateKeys
  <2>1. /\ UNCHANGED <<ingest, pub, fin, made, live, ended, revoked, vods, overtaken, broken,
                       contended, crowded>>
    BY DEF InsertKey, OnlyStudio
  <2>2. /\ keys' \in Seq(Streams) /\ Len(keys') = Len(keys) + 1 /\ Len(keys') <= MaxKeys
        /\ Len(keys) \in Nat
        /\ \A k \in 1 .. Len(keys) : keys'[k] = keys[k]
        /\ keys'[Len(keys) + 1] = studio.stream
    BY <1>1, <1>3, SessionAssumption DEF TypesOK, RowsOK
  <2>3. /\ \A s : KeysOf(s) \subseteq KeysOf(s)'
        /\ \A s : s # studio.stream => KeysOf(s)' \subseteq KeysOf(s)
        /\ \A s : s = studio.stream => KeysOf(s)' \subseteq KeysOf(s) \cup {Len(keys) + 1}
    <3>1. PICK q \in Streams : q = studio.stream
      BY <1>1
    <3>2. \A s, k : k \in KeysOf(s)' <=> k \in KeysOf(s) \/ (k = Len(keys) + 1 /\ s = q)
      BY <1>3, <3>1, KeysGrow DEF TypesOK
    <3>3. \A s : KeysOf(s) \subseteq KeysOf(s)'
      BY <3>2
    <3>4. ASSUME NEW s, s # studio.stream PROVE KeysOf(s)' \subseteq KeysOf(s)
      BY <3>1, <3>2, <3>4
    <3>5. ASSUME NEW s PROVE KeysOf(s)' \subseteq KeysOf(s) \cup {Len(keys) + 1}
      BY <3>2
    <3> QED
      BY <3>3, <3>4, <3>5
  <2>4. TypesOK'
    <3>1. 1 .. Len(keys) \subseteq 1 .. Len(keys')
      BY <2>2
    <3>2. RowsOK'
      BY <2>1, <2>2, <3>1 DEF TypesOK, RowsOK
    <3>3. IngestOK'
      BY <2>1, <2>2, <3>1 DEF TypesOK, IngestOK, ingest, KeyIds
    <3>4. FinOK'
      BY <2>1 DEF TypesOK, FinOK
    <3> QED
      BY <1>1, <3>2, <3>3, <3>4 DEF TypesOK
  <2>5. KeysOK'
    BY <2>1, KeysFrame DEF ingest
  <2>6. LimitOK'
    <3>1. \A k \in KeyIds : pub[k] = "startUpdate" => k \in 1 .. Len(keys)
      BY DEF TypesOK, IngestOK, KeyIds
    <3> QED
      BY <2>1, <2>2, <3>1, LimitFrame DEF TypesOK
  <2>7. EndOK'
    <3> SUFFICES ASSUME NEW s \in ended \ broken
                 PROVE  /\ At(s, {"revoke"})' \/ KeysOf(s)' \subseteq revoked \cup lateKeys'
                        /\ At(s, {"revoke", "findVod", "create"})' \/ vods[s] # <<>>
      BY <2>1 DEF EndOK
    <3>1. /\ At(s, {"revoke"}) \/ KeysOf(s) \subseteq revoked \cup lateKeys
          /\ At(s, {"revoke", "findVod", "create"}) \/ vods[s] # <<>>
      BY DEF EndOK
    <3>2. KeysOf(s) \subseteq revoked \cup lateKeys => KeysOf(s)' \subseteq revoked \cup lateKeys'
      <4>1. CASE s = studio.stream
        BY <1>3, <2>3, <4>1
      <4>2. CASE s # studio.stream
        BY <1>3, <2>3, <4>2
      <4> QED
        BY <4>1, <4>2
    <3> QED
      BY <2>1, <3>1, <3>2, AtFrame
  <2>8. LiveOK'
    BY <2>1, <2>3, LiveFrame, AtFrame DEF ingest, TypesOK
  <2> QED
    BY <2>4, <2>5, <2>6, <2>7, <2>8
<1> QED
  BY <1>2, <1>3 DEF InsertKey

----------------------------------------------------------------------------
(* on_publish.                                                             *)

LEMMA PubFacts ==
  ASSUME IngestOK, NEW k \in KeyIds, NEW pc \in PublishSteps, PublishTo(k, pc)
  PROVE  pub' \in [KeyIds -> PublishSteps] /\ \A j \in KeyIds : pub'[j] = IF j = k THEN pc ELSE pub[j]
BY DEF IngestOK, PublishTo

\* The handler of key k moves on, and touches at most what rtmp-ingest has of k.
LEMMA HandlerInv ==
  ASSUME SessionInv, NEW k \in KeyIds, NEW pc \in PublishSteps, PublishTo(k, pc),
         k <= Len(keys), pc = "startUpdate" => pub[k] = "startUpdate",
         UNCHANGED <<rows, fin, studio, history>>,
         sent' \in [KeyIds -> Counts],
         active \subseteq active', active' \subseteq active \cup {k},
         cached' \subseteq cached \cup {k},
         \A j \in KeyIds \ {k} : sent'[j] = sent[j],
         line' \subseteq line \cup {k}, line \subseteq line' \cup {k},
         k \notin overtaken => KeyOK(k)'
  PROVE  SessionInv'
<1> USE DEF SessionInv, rows, history
<1>1. pub' \in [KeyIds -> PublishSteps] /\ \A j \in KeyIds : pub'[j] = IF j = k THEN pc ELSE pub[j]
  BY PubFacts DEF TypesOK
<1>2. TypesOK'
  <2>1. IngestOK'
    BY <1>1 DEF TypesOK, IngestOK, KeyIds
  <2> QED
    BY <2>1 DEF TypesOK, RowsOK, FinOK, StudioOK
<1>3. KeysOK'
  BY <1>1, OneKey
<1>4. LimitOK'
  BY <1>1, LimitFrame DEF TypesOK
<1>5. EndOK'
  BY EndFrame, AtFrame
<1>6. LiveOK'
  BY LiveFrame, AtFrame DEF TypesOK, KeysOf
<1> QED
  BY <1>2, <1>3, <1>4, <1>5, <1>6

LEMMA KeyFacts ==
  ASSUME SessionInv, NEW k \in KeyIds
  PROVE  /\ k \notin overtaken => KeyOK(k)
         /\ pub[k] # "none" => k <= Len(keys)
         /\ sent \in [KeyIds -> Counts]
BY DEF SessionInv, KeysOK, TypesOK, IngestOK

\* A connection that finds its key cached is one whose on_publish_done was overtaken:
\* the others have evicted the key.
LEMMA PublishInv ==
  ASSUME SessionInv, NEW k \in KeyIds, Publish(k)
  PROVE  SessionInv'
<1>1. /\ k <= Len(keys) /\ pub[k] = "none" /\ k \notin line
      /\ line' = line \cup {k}
      /\ UNCHANGED <<rows, cached, sent, fin, studio, history>>
  BY DEF Publish, Made, KeyIds
<1>2. CASE k \in cached /\ active' = active \cup {k} /\ PublishTo(k, "startCount")
  <2>1. k \in overtaken
    BY <1>1, <1>2, KeyFacts DEF KeyOK
  <2> QED
    BY <1>1, <1>2, <2>1, KeyFacts, HandlerInv DEF PublishSteps, history
<1>3. CASE PublishTo(k, "findKey") /\ UNCHANGED active
  <2>1. pub'[k] = "findKey"
    BY <1>3, PubFacts DEF SessionInv, TypesOK, PublishSteps
  <2>2. k \notin overtaken => KeyOK(k)'
    BY <1>1, <1>3, <2>1, KeyFacts DEF KeyOK, One, Validating, Starting, Counts
  <2> QED
    BY <1>1, <1>3, <2>2, KeyFacts, HandlerInv DEF PublishSteps
<1> QED
  BY <1>2, <1>3 DEF Publish

LEMMA RejectInv ==
  ASSUME SessionInv, NEW k \in KeyIds, pub[k] \in Validating, Reject(k)
  PROVE  SessionInv'
<1>1. pub'[k] = "none"
  BY PubFacts DEF Reject, SessionInv, TypesOK, PublishSteps
<1>2. k \notin overtaken => KeyOK(k)'
  BY <1>1, KeyFacts DEF Reject, KeyOK, One, Validating, Starting, Counts
<1> QED
  BY <1>2, KeyFacts, HandlerInv DEF Reject, PublishSteps, Validating

LEMMA ProceedInv ==
  ASSUME SessionInv, NEW k \in KeyIds, NEW pc \in PublishSteps, Proceed(k, pc),
         \/ pub[k] \in Validating /\ pc \in Validating
         \/ pub[k] \in Starting /\ pc = "announce"
  PROVE  SessionInv'
<1>1. pub'[k] = pc
  BY PubFacts DEF Proceed, SessionInv, TypesOK
<1>2. k \notin overtaken => KeyOK(k)'
  BY <1>1, KeyFacts DEF Proceed, ingest, KeyOK, One, Validating, Starting, Counts
<1> QED
  BY <1>2, KeyFacts, HandlerInv DEF Proceed, ingest, PublishSteps, Validating, Starting

LEMMA ValidateInv ==
  ASSUME SessionInv, NEW k \in KeyIds,
         FindKey(k) \/ CheckKeyStream(k) \/ ValidationFails(k) \/ StartFails(k)
  PROVE  SessionInv'
<1>1. pub[k] \in Validating /\ Reject(k) => SessionInv'
  BY RejectInv
<1>2. ASSUME NEW pc \in {"isEnded", "countLive"}, pub[k] \in Validating, Proceed(k, pc)
      PROVE  SessionInv'
  BY <1>2, ProceedInv DEF Validating, PublishSteps
<1>3. CASE StartFails(k)
  BY <1>3, ProceedInv DEF StartFails, Proceed, Starting, PublishSteps
<1> QED
  BY <1>1, <1>2, <1>3 DEF FindKey, CheckKeyStream, ValidationFails, Validating

LEMMA CountLiveInv ==
  ASSUME SessionInv, NEW k \in KeyIds, CountLive(k)
  PROVE  SessionInv'
<1>1. CASE Reject(k)
  BY <1>1, RejectInv DEF CountLive, Validating
<1>2. CASE /\ Validated(k) /\ PublishTo(k, "startCount")
           /\ UNCHANGED <<rows, line, sent, fin, studio, requests, publishes, history>>
  <2>1. pub'[k] = "startCount" /\ pub[k] = "countLive"
    BY <1>2, PubFacts DEF CountLive, SessionInv, TypesOK, PublishSteps
  <2>2. k \notin overtaken => KeyOK(k)'
    BY <1>2, <2>1, KeyFacts DEF Validated, KeyOK, One, Validating, Starting, Counts
  <2> QED
    BY <1>2, <2>1, <2>2, KeyFacts, HandlerInv DEF Validated, PublishSteps
<1> QED
  BY <1>1, <1>2 DEF CountLive

LEMMA CountUp ==
  ASSUME NEW S, NEW f \in [S -> Counts], NEW k \in S
  PROVE  LET g == [f EXCEPT ![k].started = @ + 1]
             h == [f EXCEPT ![k].ended = @ + 1]
         IN  /\ g \in [S -> Counts] /\ h \in [S -> Counts]
             /\ \A j \in S \ {k} : g[j] = f[j] /\ h[j] = f[j]
             /\ g[k].started = f[k].started + 1 /\ g[k].ended = f[k].ended
             /\ h[k].ended = f[k].ended + 1 /\ h[k].started = f[k].started
BY DEF Counts

LEMMA AnnounceStartInv ==
  ASSUME SessionInv, NEW k \in KeyIds, AnnounceStart(k)
  PROVE  SessionInv'
<1>1. pub'[k] = "none" /\ pub[k] = "announce"
  BY PubFacts DEF AnnounceStart, SessionInv, TypesOK, PublishSteps
<1>2. /\ sent' \in [KeyIds -> Counts] /\ \A j \in KeyIds \ {k} : sent'[j] = sent[j]
      /\ sent'[k].started = sent[k].started + 1 /\ sent'[k].ended = sent[k].ended
  BY KeyFacts, CountUp DEF AnnounceStart
<1>3. k \notin overtaken => KeyOK(k)'
  BY <1>1, <1>2, KeyFacts DEF AnnounceStart, KeyOK, One, Validating, Starting, Counts
<1> QED
  BY <1>1, <1>2, <1>3, KeyFacts, HandlerInv DEF AnnounceStart, PublishSteps

LEMMA ExpireCacheInv ==
  ASSUME SessionInv, NEW k \in KeyIds, ExpireCache(k)
  PROVE  SessionInv'
<1> USE DEF SessionInv, ExpireCache, rows, history
<1>1. TypesOK'
  BY DEF TypesOK, RowsOK, IngestOK, FinOK, StudioOK
<1>2. KeysOK' /\ LimitOK'
  BY KeysFrame, LimitFrame DEF TypesOK
<1>3. EndOK' /\ LiveOK'
  BY EndFrame, LiveFrame, AtFrame DEF TypesOK, KeysOf
<1> QED
  BY <1>1, <1>2, <1>3

\* A count leaves room for the stream, which nobody else takes unless two starts cross.
LEMMA StartCountInv ==
  ASSUME SessionInv, NEW k \in KeyIds, StartCount(k)
  PROVE  SessionInv'
<1> USE DEF SessionInv
<1>1. CASE PublishTo(k, "announce") /\ UNCHANGED crowded
  BY <1>1, ProceedInv DEF StartCount, Proceed, Starting, PublishSteps, history
<1>2. CASE /\ ~LiveLimitReached(keys[k]) /\ PublishTo(k, "startUpdate")
           /\ crowded' = (crowded \/ \E j \in KeyIds \ {k} : pub[j] = "startUpdate")
  <2>1. /\ pub' \in [KeyIds -> PublishSteps]
        /\ \A j \in KeyIds : pub'[j] = IF j = k THEN "startUpdate" ELSE pub[j]
        /\ pub[k] = "startCount"
        /\ UNCHANGED <<rows, ingest, fin, studio, lateKeys, overtaken, broken>>
    BY <1>2, PubFacts DEF StartCount, TypesOK, PublishSteps
  <2>2. TypesOK'
    BY <2>1 DEF TypesOK, RowsOK, IngestOK, FinOK, StudioOK, rows, ingest
  <2>3. KeysOK'
    <3>1. k \notin overtaken => KeyOK(k)'
      BY <2>1, KeyFacts DEF ingest, KeyOK, One, Validating, Starting, Counts
    <3> QED
      BY <2>1, <3>1, OneKey DEF ingest
  <2>4. LimitOK'
    <3> SUFFICES ASSUME ~crowded'
                 PROVE  /\ Cardinality(live) <= MaxLive
                        /\ Cardinality(live \ {keys[k]}) < MaxLive
      BY <1>2, <2>1 DEF LimitOK, rows
    <3>1. live \ (ended \cup {keys[k]}) = live \ {keys[k]}
      BY DEF LimitOK
    <3>2. Cardinality(live \ {keys[k]}) \in Nat /\ MaxLive \in Nat
      BY LiveIsFinite, SessionAssumption DEF TypesOK
    <3>3. ~(Cardinality(live \ {keys[k]}) >= MaxLive)
      BY <1>2, <3>1 DEF LiveLimitReached
    <3>4. ~crowded
      BY <1>2
    <3> QED
      BY <3>2, <3>3, <3>4 DEF LimitOK
  <2>5. EndOK' /\ LiveOK'
    BY <2>1, EndFrame, LiveFrame, AtFrame DEF TypesOK, KeysOf, rows, ingest
  <2> QED
    BY <2>2, <2>3, <2>4, <2>5
<1> QED
  BY <1>1, <1>2 DEF StartCount

LEMMA StartUpdateInv ==
  ASSUME SessionInv, NEW k \in KeyIds, StartUpdate(k)
  PROVE  SessionInv'
<1> USE DEF SessionInv
<1>1. /\ pub' \in [KeyIds -> PublishSteps]
      /\ \A j \in KeyIds : pub'[j] = IF j = k THEN "announce" ELSE pub[j]
      /\ pub[k] = "startUpdate"
      /\ live' = live \cup {keys[k]} /\ ended' = ended \ {keys[k]}
      /\ UNCHANGED <<made, keys, revoked, vods, ingest, fin, studio, history>>
  BY PubFacts DEF StartUpdate, TypesOK, PublishSteps
<1>2. k \in 1 .. Len(keys) /\ keys[k] \in Streams
  BY <1>1 DEF TypesOK, RowsOK, IngestOK, KeyIds
<1>3. TypesOK'
  BY <1>1, <1>2 DEF TypesOK, RowsOK, IngestOK, FinOK, StudioOK, ingest
<1>4. KeysOK'
  <2>1. k \notin overtaken => KeyOK(k)'
    BY <1>1, KeyFacts DEF ingest, history, KeyOK, One, Validating, Starting, Counts
  <2> QED
    BY <1>1, <2>1, OneKey DEF ingest, history
<1>5. LimitOK'
  <2>1. live' \cap ended' = {}
    BY <1>1 DEF LimitOK
  <2> SUFFICES ASSUME ~crowded PROVE Cardinality(live') <= MaxLive
    BY <1>1, <2>1 DEF LimitOK, history
  <2>2. live' = (live \ {keys[k]}) \cup {keys[k]} /\ IsFiniteSet(live \ {keys[k]})
    BY <1>1, LiveIsFinite DEF TypesOK
  <2>3. Cardinality(live') = Cardinality(live \ {keys[k]}) + 1
    BY <2>2, FS_AddElement
  <2>4. Cardinality(live \ {keys[k]}) \in Nat /\ MaxLive \in Nat
    BY LiveIsFinite, SessionAssumption DEF TypesOK
  <2> QED
    BY <1>1, <2>3, <2>4 DEF LimitOK
<1>6. EndOK'
  BY <1>1, EndFrame, AtFrame DEF history
<1>7. LiveOK'
  <2>1. k \in KeysOf(keys[k]) /\ (k \in overtaken \/ k \in active)
    BY <1>1, <1>2, KeyFacts DEF KeysOf, KeyOK, Starting
  <2> QED
    BY <1>1, <2>1, AtFrame DEF LiveOK, KeysOf, history, ingest
<1> QED
  BY <1>3, <1>4, <1>5, <1>6, <1>7

----------------------------------------------------------------------------
(* Ending a stream.                                                        *)

LEMMA FinFacts ==
  ASSUME FinOK, NEW f \in Finalizers, NEW r \in Finalize, fin' = [fin EXCEPT ![f] = r],
         r.pc = "idle" => r.by = 0, r.pc # "idle" => r.stream \in Streams
  PROVE  FinOK' /\ \A g \in Finalizers : fin'[g] = IF g = f THEN r ELSE fin[g]
BY DEF FinOK

\* A finalizer keeps working for its stream.
LEMMA StepFacts ==
  ASSUME FinOK, NEW f \in Finalizers, NEW pc \in FinalizeSteps, CallTo(f, pc)
  PROVE  \E r \in Finalize : /\ fin' = [fin EXCEPT ![f] = r] /\ r.pc = pc
                             /\ r.stream = fin[f].stream /\ r.by = fin[f].by
<1>1. fin[f] \in Finalize
  BY DEF FinOK
<1>2. PICK r : r = [fin[f] EXCEPT !.pc = pc]
  OBVIOUS
<1>3. r \in Finalize /\ r.pc = pc /\ r.stream = fin[f].stream /\ r.by = fin[f].by
  BY <1>1, <1>2 DEF Finalize
<1>4. fin' = [fin EXCEPT ![f] = r]
  BY <1>2 DEF CallTo
<1> QED
  BY <1>3, <1>4

\* It is over: only on_publish_done has something left to do.
LEMMA ReturnFacts ==
  ASSUME FinOK, NEW f \in Finalizers, fin[f].pc # "idle", fin' = Returned(f)
  PROVE  \E r \in Finalize : /\ fin' = [fin EXCEPT ![f] = r] /\ r.pc \in {"idle", "announce"}
                             /\ r.pc = "idle" => f # "ingest" /\ r.by = 0
                             /\ r.pc # "idle" => r.stream \in Streams /\ r.by = fin[f].by
<1>1. fin[f] \in Finalize /\ fin[f].stream \in Streams
  BY DEF FinOK
<1>2. CASE f = "ingest"
  <2>1. PICK r : r = [fin[f] EXCEPT !.pc = "announce"]
    OBVIOUS
  <2>2. r \in Finalize /\ r.pc = "announce" /\ r.stream = fin[f].stream /\ r.by = fin[f].by
    BY <1>1, <2>1 DEF Finalize, FinalizeSteps
  <2>3. fin' = [fin EXCEPT ![f] = r]
    BY <1>2, <2>1 DEF Returned
  <2> QED
    BY <1>1, <2>2, <2>3
<1>3. CASE f # "ingest"
  <2>1. NoCall \in Finalize /\ NoCall.pc = "idle" /\ NoCall.by = 0
    BY DEF NoCall, Finalize, FinalizeSteps, Newests
  <2>2. fin' = [fin EXCEPT ![f] = NoCall]
    BY <1>3 DEF Returned
  <2> QED
    BY <1>3, <2>1, <2>2
<1> QED
  BY <1>2, <1>3

\* A finalizer that was not at these steps for the stream, or still is.
LEMMA AtStep ==
  ASSUME NEW f \in Finalizers, NEW r, NEW s, NEW steps,
         \A g \in Finalizers : fin'[g] = IF g = f THEN r ELSE fin[g],
         \/ fin[f].pc \notin steps
         \/ fin[f].stream # s
         \/ r.stream = s /\ r.pc \in steps
  PROVE  At(s, steps) => At(s, steps)'
BY DEF At

\* What a finalizer leaves to be shown of its step.
LEMMA FinalizerInv ==
  ASSUME SessionInv, NEW f \in Finalizers, NEW r \in Finalize, fin' = [fin EXCEPT ![f] = r],
         r.pc = "idle" => r.by = 0, r.pc # "idle" => r.stream \in Streams,
         f = "ingest" => r.by = fin[f].by,
         UNCHANGED <<made, keys, ingest, pub, studio, overtaken>>,
         RowsOK', LimitOK', EndOK', LiveOK'
  PROVE  SessionInv'
<1> USE DEF SessionInv, ingest
<1>1. FinOK' /\ \A g \in Finalizers : fin'[g] = IF g = f THEN r ELSE fin[g]
  BY FinFacts DEF TypesOK
<1>2. TypesOK'
  BY <1>1 DEF TypesOK, IngestOK, StudioOK
<1>3. fin'["ingest"].by = fin["ingest"].by
  BY <1>1 DEF Finalizers
<1>4. KeysOK'
  BY <1>3, KeysFrame
<1> QED
  BY <1>2, <1>4

\* A call or a step that writes nothing, and is not one of those the invariant counts on.
LEMMA QuietInv ==
  ASSUME SessionInv, NEW f \in Finalizers, NEW r \in Finalize, fin' = [fin EXCEPT ![f] = r],
         r.pc = "idle" => r.by = 0, r.pc # "idle" => r.stream \in Streams,
         f = "ingest" => r.by = fin[f].by,
         UNCHANGED <<rows, ingest, pub, studio, lateKeys, overtaken, crowded>>,
         broken \subseteq broken',
         \/ fin[f].pc \notin {"read", "update", "revoke", "findVod", "create"}
         \/ fin[f].stream \in broken'
         \/ fin[f].pc = "read" /\ fin[f].stream \notin live
         \/ fin[f].pc = "read" /\ r.stream = fin[f].stream /\ r.pc = "update"
         \/ fin[f].pc = "findVod" /\ r.stream = fin[f].stream /\ r.pc = "create"
         \/ fin[f].pc = "findVod" /\ vods[fin[f].stream] # <<>>
  PROVE  SessionInv'
<1> USE DEF SessionInv, rows
<1>1. \A g \in Finalizers : fin'[g] = IF g = f THEN r ELSE fin[g]
  BY FinFacts DEF TypesOK
<1>2. RowsOK'
  BY DEF TypesOK, RowsOK
<1>3. LimitOK'
  BY LimitFrame DEF TypesOK
<1>4. EndOK'
  <2> SUFFICES ASSUME NEW s \in ended \ broken'
               PROVE  /\ At(s, {"revoke"})' \/ KeysOf(s) \subseteq revoked \cup lateKeys
                      /\ At(s, {"revoke", "findVod", "create"})' \/ vods[s] # <<>>
    BY DEF EndOK, KeysOf
  <2>1. /\ At(s, {"revoke"}) \/ KeysOf(s) \subseteq revoked \cup lateKeys
        /\ At(s, {"revoke", "findVod", "create"}) \/ vods[s] # <<>>
    BY DEF EndOK
  <2>2. At(s, {"revoke"}) => At(s, {"revoke"})'
    BY <1>1, AtStep
  <2>3. At(s, {"revoke", "findVod", "create"})
          => At(s, {"revoke", "findVod", "create"})' \/ vods[s] # <<>>
    BY <1>1, AtStep
  <2> QED
    BY <2>1, <2>2, <2>3
<1>5. LiveOK'
  <2>1. ASSUME NEW s \in live \ broken' PROVE At(s, {"read", "update"}) => At(s, {"read", "update"})'
    BY <1>1, AtStep
  <2> QED
    BY <2>1, LiveFrame DEF TypesOK, KeysOf, ingest
<1> QED
  BY <1>2, <1>3, <1>4, <1>5, FinalizerInv

LEMMA EndInv ==
  ASSUME SessionInv, NEW f \in Requests, NEW s \in Streams, EndByOwner(f, s) \/ EndByTimer(f, s)
  PROVE  SessionInv'
<1>1. PICK r : r = [pc |-> "read", stream |-> s, by |-> 0, newest |-> 0]
  OBVIOUS
<1>2. r \in Finalize /\ r.pc = "read" /\ r.stream = s
  BY <1>1 DEF Finalize, FinalizeSteps, Newests
<1>3. fin' = [fin EXCEPT ![f] = r] /\ fin[f].pc = "idle"
  BY <1>1 DEF EndByOwner, EndByTimer, Call
<1>4. f \in Finalizers /\ f # "ingest"
  BY SessionAssumption DEF Finalizers
<1> QED
  BY <1>2, <1>3, <1>4, QuietInv DEF EndByOwner, EndByTimer, history

LEMMA FinalizeReadInv ==
  ASSUME SessionInv, NEW f \in Finalizers, FinalizeRead(f)
  PROVE  SessionInv'
<1>0. FinOK /\ fin[f].stream \in Streams
  BY DEF SessionInv, TypesOK, FinOK, FinalizeRead
<1>1. CASE IsEnded(fin[f].stream) /\ fin' = Returned(f)
  <2>1. PICK r \in Finalize : /\ fin' = [fin EXCEPT ![f] = r] /\ r.pc \in {"idle", "announce"}
                              /\ r.pc = "idle" => f # "ingest" /\ r.by = 0
                              /\ r.pc # "idle" => r.stream \in Streams /\ r.by = fin[f].by
    BY <1>0, <1>1, ReturnFacts DEF FinalizeRead
  <2> QED
    BY <1>1, <2>1, QuietInv DEF FinalizeRead, IsEnded, history
<1>2. CASE CallTo(f, "update")
  <2>1. PICK r \in Finalize : /\ fin' = [fin EXCEPT ![f] = r] /\ r.pc = "update"
                              /\ r.stream = fin[f].stream /\ r.by = fin[f].by
    BY <1>0, <1>2, StepFacts DEF FinalizeSteps
  <2> QED
    BY <1>0, <2>1, QuietInv DEF FinalizeRead, history
<1> QED
  BY <1>1, <1>2 DEF FinalizeRead

LEMMA FinalizeFailsInv ==
  ASSUME SessionInv, NEW f \in Finalizers, FinalizeFails(f)
  PROVE  SessionInv'
<1>0. FinOK /\ fin[f].pc # "idle" /\ fin' = Returned(f)
  BY DEF SessionInv, TypesOK, FinalizeFails
<1>1. PICK r \in Finalize : /\ fin' = [fin EXCEPT ![f] = r] /\ r.pc \in {"idle", "announce"}
                            /\ r.pc = "idle" => f # "ingest" /\ r.by = 0
                            /\ r.pc # "idle" => r.stream \in Streams /\ r.by = fin[f].by
  BY <1>0, ReturnFacts
<1> QED
  BY <1>1, QuietInv DEF FinalizeFails

LEMMA FinalizeUpdateInv ==
  ASSUME SessionInv, NEW f \in Finalizers, FinalizeUpdate(f)
  PROVE  SessionInv'
<1> USE DEF SessionInv
<1>1. PICK s \in Streams : s = fin[f].stream
  BY DEF TypesOK, FinOK, FinalizeUpdate
<1>2. /\ live' = live \ {s} /\ ended' = ended \cup {s} /\ CallTo(f, "revoke")
      /\ fin[f].pc = "update"
      /\ UNCHANGED <<made, keys, revoked, vods, ingest, pub, studio, history>>
  BY <1>1 DEF FinalizeUpdate, Offline
<1>3. PICK r \in Finalize : /\ fin' = [fin EXCEPT ![f] = r] /\ r.pc = "revoke"
                            /\ r.stream = s /\ r.by = fin[f].by
  BY <1>1, <1>2, StepFacts DEF TypesOK, FinalizeSteps
<1>4. \A g \in Finalizers : fin'[g] = IF g = f THEN r ELSE fin[g]
  BY <1>3, FinFacts DEF TypesOK
<1>5. RowsOK'
  BY <1>2 DEF TypesOK, RowsOK
<1>6. LimitOK'
  <2>1. /\ Cardinality(live') <= Cardinality(live) /\ Cardinality(live') \in Nat
        /\ Cardinality(live) \in Nat
    BY <1>2, LiveIsFinite, FS_Subset, FS_CardinalityType DEF TypesOK
  <2>2. \A q : /\ Cardinality(live' \ {q}) <= Cardinality(live \ {q})
               /\ Cardinality(live' \ {q}) \in Nat /\ Cardinality(live \ {q}) \in Nat
    BY <1>2, LiveIsFinite, FS_Subset, FS_CardinalityType DEF TypesOK
  <2>3. live' \cap ended' = {}
    BY <1>2 DEF LimitOK
  <2>4. MaxLive \in Nat
    BY SessionAssumption
  <2>5. ASSUME ~crowded PROVE Cardinality(live') <= MaxLive
    BY <2>1, <2>4, <2>5 DEF LimitOK
  <2>6. ASSUME ~crowded, NEW k \in KeyIds, pub[k] = "startUpdate"
        PROVE  Cardinality(live' \ {keys[k]}) < MaxLive
    <3>1. Cardinality(live \ {keys[k]}) < MaxLive
      BY <2>6 DEF LimitOK
    <3>2. /\ Cardinality(live' \ {keys[k]}) <= Cardinality(live \ {keys[k]})
          /\ Cardinality(live' \ {keys[k]}) \in Nat /\ Cardinality(live \ {keys[k]}) \in Nat
      BY <2>2
    <3> QED
      BY <2>4, <3>1, <3>2
  <2> QED
    BY <1>2, <2>3, <2>5, <2>6 DEF LimitOK, history
<1>7. EndOK'
  <2> SUFFICES ASSUME NEW q \in ended' \ broken
               PROVE  /\ At(q, {"revoke"})' \/ KeysOf(q) \subseteq revoked \cup lateKeys
                      /\ At(q, {"revoke", "findVod", "create"})' \/ vods[q] # <<>>
    BY <1>2 DEF EndOK, KeysOf, history
  <2>1. CASE q = s
    BY <1>3, <1>4, <2>1 DEF At
  <2>2. CASE q # s
    <3>1. /\ At(q, {"revoke"}) \/ KeysOf(q) \subseteq revoked \cup lateKeys
          /\ At(q, {"revoke", "findVod", "create"}) \/ vods[q] # <<>>
      BY <1>2, <2>2 DEF EndOK
    <3> QED
      BY <1>1, <1>4, <2>2, <3>1, AtStep
  <2> QED
    BY <2>1, <2>2
<1>8. LiveOK'
  <2>1. ASSUME NEW q \in live' PROVE At(q, {"read", "update"}) => At(q, {"read", "update"})'
    BY <1>1, <1>2, <1>4, AtStep
  <2> QED
    BY <1>2, <2>1, LiveFrame DEF TypesOK, KeysOf, ingest, history
<1> QED
  BY <1>2, <1>3, <1>5, <1>6, <1>7, <1>8, FinalizerInv DEF history

LEMMA FinalizeRevokeInv ==
  ASSUME SessionInv, NEW f \in Finalizers, FinalizeRevoke(f)
  PROVE  SessionInv'
<1> USE DEF SessionInv
<1>1. PICK s \in Streams : s = fin[f].stream
  BY DEF TypesOK, FinOK, FinalizeRevoke
<1>2. /\ revoked' = revoked \cup KeysOf(s) /\ CallTo(f, "findVod")
      /\ fin[f].pc = "revoke"
      /\ UNCHANGED <<made, live, ended, keys, vods, ingest, pub, studio, history>>
  BY <1>1 DEF FinalizeRevoke, RevokedWith
<1>3. PICK r \in Finalize : /\ fin' = [fin EXCEPT ![f] = r] /\ r.pc = "findVod"
                            /\ r.stream = s /\ r.by = fin[f].by
  BY <1>1, <1>2, StepFacts DEF TypesOK, FinalizeSteps
<1>4. \A g \in Finalizers : fin'[g] = IF g = f THEN r ELSE fin[g]
  BY <1>3, FinFacts DEF TypesOK
<1>5. RowsOK'
  BY <1>2 DEF TypesOK, RowsOK, KeysOf
<1>6. LimitOK'
  BY <1>2, LimitFrame DEF TypesOK, history
<1>7. EndOK'
  <2> SUFFICES ASSUME NEW q \in ended \ broken
               PROVE  /\ At(q, {"revoke"})' \/ KeysOf(q) \subseteq revoked' \cup lateKeys
                      /\ At(q, {"revoke", "findVod", "create"})' \/ vods[q] # <<>>
    BY <1>2 DEF EndOK, KeysOf, history
  <2>1. /\ At(q, {"revoke"}) \/ KeysOf(q) \subseteq revoked \cup lateKeys
        /\ At(q, {"revoke", "findVod", "create"}) \/ vods[q] # <<>>
    BY DEF EndOK
  <2>2. At(q, {"revoke", "findVod", "create"}) => At(q, {"revoke", "findVod", "create"})'
    BY <1>1, <1>3, <1>4, AtStep
  <2>3. CASE q = s
    BY <1>2, <2>1, <2>2, <2>3
  <2>4. CASE q # s
    BY <1>1, <1>2, <1>4, <2>1, <2>2, <2>4, AtStep
  <2> QED
    BY <2>3, <2>4
<1>8. LiveOK'
  <2>1. ASSUME NEW q \in live PROVE At(q, {"read", "update"}) => At(q, {"read", "update"})'
    BY <1>2, <1>4, AtStep
  <2> QED
    BY <1>2, <2>1, LiveFrame DEF TypesOK, KeysOf, ingest, history
<1> QED
  BY <1>1, <1>2, <1>3, <1>5, <1>6, <1>7, <1>8, FinalizerInv DEF history

LEMMA FinalizeFindVodInv ==
  ASSUME SessionInv, NEW f \in Finalizers, FinalizeFindVod(f)
  PROVE  SessionInv'
<1> USE DEF SessionInv
<1>1. PICK s \in Streams : s = fin[f].stream
  BY DEF TypesOK, FinOK, FinalizeFindVod
<1>2. PICK n \in Newests : n = Newest(KeysOf(s))
  <2>1. KeysOf(s) \in SUBSET Nat
    BY DEF KeysOf, TypesOK, RowsOK
  <2> QED
    BY <2>1 DEF Newests
<1>3. PICK step : step = VodStep(s, n)
  OBVIOUS
<1>4. /\ step \in {"create", "repoint", "done"}
      /\ step # "create" => vods[s] # <<>>
  BY <1>3 DEF VodStep
<1>5. fin[f].pc = "findVod" /\ FinOK /\ fin[f] \in Finalize
  BY DEF TypesOK, FinOK, FinalizeFindVod
<1>6. CASE step = "done"
  <2>1. fin' = Returned(f)
    BY <1>1, <1>2, <1>3, <1>6 DEF FinalizeFindVod
  <2>2. PICK r \in Finalize : /\ fin' = [fin EXCEPT ![f] = r] /\ r.pc \in {"idle", "announce"}
                              /\ r.pc = "idle" => f # "ingest" /\ r.by = 0
                              /\ r.pc # "idle" => r.stream \in Streams /\ r.by = fin[f].by
    BY <1>5, <2>1, ReturnFacts
  <2> QED
    BY <1>1, <1>4, <1>5, <1>6, <2>2, QuietInv DEF FinalizeFindVod
<1>7. CASE step # "done"
  <2>1. fin' = [fin EXCEPT ![f].pc = step, ![f].newest = n]
    BY <1>1, <1>2, <1>3, <1>7 DEF FinalizeFindVod
  <2>2. PICK r : r = [fin[f] EXCEPT !.pc = step, !.newest = n]
    OBVIOUS
  <2>3. r \in Finalize /\ r.pc = step /\ r.stream = s /\ r.by = fin[f].by
    BY <1>1, <1>4, <1>5, <1>7, <2>2 DEF Finalize, FinalizeSteps
  <2>4. fin' = [fin EXCEPT ![f] = r]
    BY <1>5, <2>1, <2>2 DEF FinOK
  <2> QED
    BY <1>1, <1>4, <1>5, <1>7, <2>3, <2>4, QuietInv DEF FinalizeFindVod
<1> QED
  BY <1>6, <1>7

\* Appending to a list of Vods, or changing its last, leaves a list with a Vod in it.
LEMMA VodLists ==
  ASSUME NEW T, NEW q \in Seq(T), NEW n \in T
  PROVE  /\ Append(q, n) \in Seq(T) /\ Append(q, n) # <<>>
         /\ [q EXCEPT ![Len(q)] = n] \in Seq(T)
         /\ q # <<>> => [q EXCEPT ![Len(q)] = n] # <<>>
<1>1. Append(q, n) \in Seq(T) /\ Append(q, n) # <<>>
  BY AppendProperties
<1>2. CASE q = <<>>
  <2>1. [q EXCEPT ![Len(q)] = n] = q
    BY <1>2
  <2> QED
    BY <1>1, <1>2, <2>1
<1>3. CASE q # <<>>
  <2>1. Len(q) \in 1 .. Len(q)
    BY <1>3
  <2>2. /\ [q EXCEPT ![Len(q)] = n] \in Seq(T)
        /\ Len([q EXCEPT ![Len(q)] = n]) = Len(q)
    BY <2>1, ExceptSeq
  <2> QED
    BY <1>1, <2>1, <2>2
<1> QED
  BY <1>2, <1>3

LEMMA FinalizeVodInv ==
  ASSUME SessionInv, NEW f \in Finalizers, FinalizeVod(f)
  PROVE  SessionInv'
<1> USE DEF SessionInv
<1>1. /\ fin[f] \in Finalize /\ fin[f].stream \in Streams /\ fin[f].newest \in Newests
      /\ fin[f].pc \in {"create", "repoint"} /\ vods \in [Streams -> Seq(Newests)]
  BY DEF TypesOK, RowsOK, FinOK, Finalize, FinalizeVod
<1>2. PICK s \in Streams, n \in Newests : s = fin[f].stream /\ n = fin[f].newest
  BY <1>1
<1>3. PICK q : q = IF fin[f].pc = "create" THEN Append(vods[s], n)
                   ELSE [vods[s] EXCEPT ![Len(vods[s])] = n]
  OBVIOUS
<1>4. /\ q \in Seq(Newests)
      /\ fin[f].pc = "create" \/ vods[s] # <<>> => q # <<>>
  BY <1>1, <1>3, VodLists
<1>5. vods' = [vods EXCEPT ![s] = q]
  BY <1>1, <1>2, <1>3 DEF FinalizeVod
<1>6. vods' \in [Streams -> Seq(Newests)] /\ \A p \in Streams : vods'[p] = IF p = s THEN q ELSE vods[p]
  BY <1>1, <1>4, <1>5
<1>7. PICK r \in Finalize : /\ fin' = [fin EXCEPT ![f] = r] /\ r.pc \in {"idle", "announce"}
                            /\ r.pc = "idle" => f # "ingest" /\ r.by = 0
                            /\ r.pc # "idle" => r.stream \in Streams /\ r.by = fin[f].by
  BY <1>1, ReturnFacts DEF FinalizeVod, TypesOK
<1>8. \A g \in Finalizers : fin'[g] = IF g = f THEN r ELSE fin[g]
  BY <1>7, FinFacts DEF TypesOK
<1>9. UNCHANGED <<made, live, ended, keys, revoked, ingest, pub, studio, history>>
  BY DEF FinalizeVod
<1>10. RowsOK' /\ LimitOK'
  BY <1>6, <1>9, LimitFrame DEF TypesOK, RowsOK, history
<1>11. EndOK'
  <2> SUFFICES ASSUME NEW p \in ended \ broken
               PROVE  /\ At(p, {"revoke"})' \/ KeysOf(p) \subseteq revoked \cup lateKeys
                      /\ At(p, {"revoke", "findVod", "create"})' \/ vods'[p] # <<>>
    BY <1>9 DEF EndOK, KeysOf, history
  <2>1. /\ At(p, {"revoke"}) \/ KeysOf(p) \subseteq revoked \cup lateKeys
        /\ At(p, {"revoke", "findVod", "create"}) \/ vods[p] # <<>>
    BY DEF EndOK
  <2>2. At(p, {"revoke"}) => At(p, {"revoke"})'
    BY <1>1, <1>8, AtStep
  <2>3. p \in Streams
    BY DEF TypesOK, RowsOK
  <2>4. CASE p = s /\ fin[f].pc = "create"
    BY <1>4, <1>6, <2>1, <2>2, <2>3, <2>4
  <2>5. CASE ~(p = s /\ fin[f].pc = "create")
    <3>1. At(p, {"revoke", "findVod", "create"}) => At(p, {"revoke", "findVod", "create"})'
      BY <1>1, <1>2, <1>8, <2>5, AtStep
    <3> QED
      BY <1>4, <1>6, <2>1, <2>2, <2>3, <3>1
  <2> QED
    BY <2>4, <2>5
<1>12. LiveOK'
  <2>1. ASSUME NEW p \in live PROVE At(p, {"read", "update"}) => At(p, {"read", "update"})'
    BY <1>1, <1>8, AtStep
  <2> QED
    BY <1>9, <2>1, LiveFrame DEF TypesOK, KeysOf, ingest, history
<1> QED
  BY <1>7, <1>9, <1>10, <1>11, <1>12, FinalizerInv DEF history

\* Dropping a key that is on air hands its stream to a finalizer.
LEMMA PublishDoneInv ==
  ASSUME SessionInv, NEW k \in KeyIds, PublishDone(k)
  PROVE  SessionInv'
<1> USE DEF SessionInv
<1>1. /\ k \in line /\ line' = line \ {k}
      /\ overtaken' = IF pub[k] = "none" THEN overtaken ELSE overtaken \cup {k}
      /\ UNCHANGED <<rows, sent, pub, studio, lateKeys, broken, crowded>>
  BY DEF PublishDone
<1>2. k \in 1 .. Len(keys) /\ keys[k] \in Streams
  BY <1>1 DEF TypesOK, RowsOK, IngestOK
<1>3. CASE UNCHANGED <<active, cached, fin>> /\ k \notin active
  <2>1. TypesOK'
    BY <1>1, <1>3 DEF TypesOK, RowsOK, IngestOK, FinOK, StudioOK, rows
  <2>2. KeysOK'
    <3>1. k \notin overtaken' => KeyOK(k)'
      BY <1>1, <1>3, KeyFacts DEF KeyOK, One, Validating, Starting
    <3> QED
      BY <1>1, <1>3, <3>1, OneKey
  <2>3. LimitOK' /\ EndOK'
    BY <1>1, <1>3, LimitFrame, EndFrame, AtFrame DEF TypesOK, rows
  <2>4. LiveOK'
    BY <1>1, <1>3, LiveFrame, AtFrame DEF TypesOK, KeysOf, rows
  <2> QED
    BY <2>1, <2>2, <2>3, <2>4
<1>4. CASE /\ fin["ingest"].pc = "idle" /\ active' = active \ {k} /\ cached' = Evicted(k)
           /\ Call("ingest", keys[k], k)
  <2>1. PICK r : r = [pc |-> "read", stream |-> keys[k], by |-> k, newest |-> 0]
    OBVIOUS
  <2>2. r \in Finalize /\ r.pc = "read" /\ r.stream = keys[k] /\ r.by = k
    BY <1>2, <2>1 DEF Finalize, FinalizeSteps, Newests, KeyIds
  <2>3. fin' = [fin EXCEPT !["ingest"] = r] /\ "ingest" \in Finalizers
    BY <1>4, <2>1 DEF Call, Finalizers
  <2>4. FinOK' /\ \A g \in Finalizers : fin'[g] = IF g = "ingest" THEN r ELSE fin[g]
    BY <1>2, <2>2, <2>3, FinFacts DEF TypesOK
  <2>5. fin["ingest"].by = 0 /\ fin'["ingest"].by = k
    BY <1>4, <2>2, <2>3, <2>4 DEF TypesOK, FinOK
  <2>6. TypesOK'
    BY <1>1, <1>4, <2>4 DEF TypesOK, RowsOK, IngestOK, StudioOK, rows
  <2>7. KeysOK'
    <3>1. k \notin overtaken' => KeyOK(k)'
      <4> SUFFICES ASSUME k \notin overtaken' PROVE KeyOK(k)'
        OBVIOUS
      <4>1. pub[k] = "none" /\ pub'[k] = "none" /\ k \notin overtaken /\ sent' = sent
        BY <1>1
      <4>2. k \notin line' /\ k \notin active' /\ k \notin cached'
        BY <1>1, <1>4 DEF Evicted
      <4>3. sent[k].started = sent[k].ended + One(fin["ingest"].by = k) + One(k \in active /\ pub[k] = "none")
        BY <4>1, KeyFacts DEF KeyOK
      <4>4. One(fin["ingest"].by = k) = 0 /\ One(k \in active /\ pub[k] = "none") = 1
        BY <1>1, <2>5, <4>1, KeyFacts, SessionAssumption DEF One, KeyOK, KeyIds
      <4>5. One(fin'["ingest"].by = k) = 1 /\ One(k \in active' /\ pub'[k] = "none") = 0
        BY <2>5, <4>2 DEF One
      <4>6. sent[k].started \in Nat /\ sent[k].ended \in Nat
        BY KeyFacts DEF Counts
      <4>7. sent'[k].started = sent'[k].ended + One(fin'["ingest"].by = k)
                                              + One(k \in active' /\ pub'[k] = "none")
        BY <4>1, <4>3, <4>4, <4>5, <4>6
      <4> QED
        BY <4>1, <4>2, <4>7 DEF KeyOK, Validating, Starting
    <3>2. \A j \in KeyIds \ {k} : fin'["ingest"].by = j <=> fin["ingest"].by = j
      BY <2>5 DEF KeyIds
    <3> QED
      BY <1>1, <1>4, <3>1, <3>2, OneKey DEF Evicted
  <2>8. LimitOK'
    BY <1>1, LimitFrame DEF TypesOK, rows
  <2>9. EndOK'
    <3>1. ASSUME NEW s
          PROVE  /\ At(s, {"revoke"}) => At(s, {"revoke"})'
                 /\ At(s, {"revoke", "findVod", "create"}) => At(s, {"revoke", "findVod", "create"})'
      BY <1>4, <2>3, <2>4, AtStep
    <3> QED
      BY <1>1, <3>1, EndFrame DEF rows
  <2>10. LiveOK'
    <3> SUFFICES ASSUME NEW s \in live \ broken
                 PROVE  \/ At(s, {"read", "update"})'
                        \/ \E j \in KeysOf(s) : j \in overtaken' \/ j \in active'
      BY <1>1 DEF LiveOK, KeysOf, rows
    <3>1. CASE s = keys[k]
      BY <2>2, <2>3, <2>4, <3>1 DEF At
    <3>2. CASE s # keys[k]
      <4>1. At(s, {"read", "update"}) => At(s, {"read", "update"})'
        BY <1>4, <2>3, <2>4, AtStep
      <4>2. k \notin KeysOf(s)
        BY <3>2 DEF KeysOf
      <4> QED
        BY <1>1, <1>4, <4>1, <4>2 DEF LiveOK
    <3> QED
      BY <3>1, <3>2
  <2> QED
    BY <2>6, <2>7, <2>8, <2>9, <2>10
<1> QED
  BY <1>3, <1>4 DEF PublishDone

LEMMA AnnounceEndInv ==
  ASSUME SessionInv, AnnounceEnd
  PROVE  SessionInv'
<1> USE DEF SessionInv
<1>1. PICK k : k = fin["ingest"].by
  OBVIOUS
<1>2. /\ fin["ingest"].pc = "announce" /\ sent' = [sent EXCEPT ![k].ended = @ + 1]
      /\ fin' = [fin EXCEPT !["ingest"] = NoCall]
      /\ UNCHANGED <<rows, cached, active, line, pub, studio, history>>
  BY <1>1 DEF AnnounceEnd, CountEnded
<1>3. /\ "ingest" \in Finalizers
      /\ NoCall \in Finalize /\ NoCall.pc = "idle" /\ NoCall.by = 0
  BY DEF NoCall, Finalize, FinalizeSteps, Newests, Finalizers
<1>4. FinOK' /\ \A g \in Finalizers : fin'[g] = IF g = "ingest" THEN NoCall ELSE fin[g]
  BY <1>2, <1>3, FinFacts DEF TypesOK
<1>5. /\ sent' \in [KeyIds -> Counts]
      /\ \A j \in KeyIds : j # k => sent'[j] = sent[j]
      /\ k \in KeyIds => sent'[k].ended = sent[k].ended + 1 /\ sent'[k].started = sent[k].started
  <2>1. CASE k \in KeyIds
    BY <1>2, <2>1, CountUp DEF TypesOK, IngestOK
  <2>2. CASE k \notin KeyIds
    BY <1>2, <2>2 DEF TypesOK, IngestOK
  <2> QED
    BY <2>1, <2>2
<1>6. TypesOK'
  BY <1>2, <1>4, <1>5 DEF TypesOK, RowsOK, IngestOK, StudioOK, rows
<1>7. KeysOK'
  <2>1. ASSUME NEW j \in KeyIds \ overtaken
        PROVE  sent'[j].started = sent'[j].ended + One(fin'["ingest"].by = j)
                                                 + One(j \in active /\ pub[j] = "none")
    BY <1>1, <1>3, <1>4, <1>5, KeyFacts DEF KeyOK, One, Counts, KeyIds
  <2> QED
    BY <1>2, <2>1 DEF KeysOK, KeyOK, history
<1>8. LimitOK'
  BY <1>2, LimitFrame DEF TypesOK, rows, history
<1>9. EndOK' /\ LiveOK'
  <2>1. ASSUME NEW s, NEW steps \in SUBSET (FinalizeSteps \ {"announce"})
        PROVE  At(s, steps) => At(s, steps)'
    BY <1>2, <1>3, <1>4, AtStep
  <2>2. /\ {"revoke"} \in SUBSET (FinalizeSteps \ {"announce"})
        /\ {"revoke", "findVod", "create"} \in SUBSET (FinalizeSteps \ {"announce"})
        /\ {"read", "update"} \in SUBSET (FinalizeSteps \ {"announce"})
    BY DEF FinalizeSteps
  <2> QED
    BY <1>2, <2>1, <2>2, EndFrame, LiveFrame DEF TypesOK, KeysOf, rows, history
<1> QED
  BY <1>6, <1>7, <1>8, <1>9

----------------------------------------------------------------------------
LEMMA InitInv ==
  ASSUME Init
  PROVE  SessionInv
<1> USE DEF Init
<1>1. RowsOK
  BY SessionAssumption DEF RowsOK
<1>2. IngestOK
  BY DEF IngestOK, PublishSteps, Counts
<1>3. NoCall \in Finalize /\ NoCall.pc = "idle" /\ NoCall.by = 0
  BY DEF NoCall, Finalize, FinalizeSteps, Newests
<1>4. FinOK
  BY <1>3 DEF FinOK
<1>5. StudioOK
  BY DEF StudioOK, NoRequest
<1>6. KeysOK
  <2>1. fin["ingest"].by = 0
    BY <1>3 DEF Finalizers
  <2> QED
    BY <2>1, SessionAssumption DEF KeysOK, KeyOK, One, Validating, Starting, KeyIds
<1>7. LimitOK
  BY FS_EmptySet, SessionAssumption DEF LimitOK
<1>8. EndOK /\ LiveOK
  BY DEF EndOK, LiveOK
<1> QED
  BY <1>1, <1>2, <1>4, <1>5, <1>6, <1>7, <1>8 DEF SessionInv, TypesOK

LEMMA StutterInv ==
  ASSUME SessionInv, UNCHANGED vars
  PROVE  SessionInv'
<1> USE DEF SessionInv, vars, rows, ingest, history
<1>1. TypesOK'
  BY DEF TypesOK, RowsOK, IngestOK, FinOK, StudioOK
<1>2. KeysOK' /\ LimitOK'
  BY KeysFrame, LimitFrame DEF TypesOK
<1>3. EndOK' /\ LiveOK'
  BY EndFrame, LiveFrame, AtFrame DEF TypesOK, KeysOf
<1> QED
  BY <1>1, <1>2, <1>3

LEMMA NextInv ==
  ASSUME SessionInv, [Next]_vars
  PROVE  SessionInv'
<1>1. ASSUME NEW k \in KeyIds,
             \/ Publish(k) \/ PublishStep(k) \/ PublishDone(k) \/ ExpireCache(k)
             \/ ValidationFails(k) \/ StartFails(k) \/ RevokeKey(k)
      PROVE  SessionInv'
  BY <1>1, PublishInv, ValidateInv, CountLiveInv, StartCountInv, StartUpdateInv, AnnounceStartInv,
     PublishDoneInv, ExpireCacheInv, RevokeKeyInv DEF PublishStep
<1>2. ASSUME NEW f \in Finalizers, FinalizeStep(f) \/ FinalizeFails(f)
      PROVE  SessionInv'
  BY <1>2, FinalizeReadInv, FinalizeUpdateInv, FinalizeRevokeInv, FinalizeFindVodInv, FinalizeVodInv,
     FinalizeFailsInv DEF FinalizeStep
<1>3. CASE AnnounceEnd
  BY <1>3, AnnounceEndInv
<1>4. ASSUME NEW s \in Streams,
             \/ NewStream(s) \/ RotateKeys(s)
             \/ \E f \in Requests : EndByOwner(f, s) \/ EndByTimer(f, s)
      PROVE  SessionInv'
  BY <1>4, NewStreamInv, AskInv, EndInv
<1>5. CASE CreateKey \/ RegenerateKey
  BY <1>5, AskInv
<1>6. CASE StudioStep
  BY <1>6, CheckEndedInv, RevokeAllInv, InsertKeyInv, RevokeStepInv DEF StudioStep
<1>7. CASE UNCHANGED vars
  BY <1>7, StutterInv
<1> QED
  BY <1>1, <1>2, <1>3, <1>4, <1>5, <1>6, <1>7 DEF Next

\* Types, the life of every key, the room under the limit, and what finalizers and handlers
\* still have to do for the ended and the live streams.
THEOREM SpecInv == Spec => []SessionInv
BY InitInv, NextInv, PTL DEF Spec

\* Events balance: a key at rest has sent as many stream.ended as stream.started, but for
\* the broadcast it is on air with, whatever fails in between; transcoding-service gives a
\* slot back on that account.
THEOREM EventsBalanceHolds == Spec => []EventsBalance
<1>1. ASSUME SessionInv, NEW k \in KeyIds \ overtaken, pub[k] = "none", fin["ingest"].by # k
      PROVE  sent[k].started = sent[k].ended + (IF k \in active THEN 1 ELSE 0)
  <2>1. sent[k].started = sent[k].ended + One(fin["ingest"].by = k) + One(k \in active /\ pub[k] = "none")
    BY <1>1, KeyFacts DEF KeyOK
  <2>2. sent[k].ended \in Nat
    BY <1>1, KeyFacts DEF Counts
  <2>3. /\ One(fin["ingest"].by = k) = 0
        /\ One(k \in active /\ pub[k] = "none") = IF k \in active THEN 1 ELSE 0
    BY <1>1 DEF One
  <2> QED
    BY <2>1, <2>2, <2>3
<1>2. SessionInv => EventsBalance
  BY <1>1 DEF EventsBalance
<1> QED
  BY <1>2, SpecInv, PTL

\* However connections and the calls of finalizeStream cross, the plan's limit on concurrent
\* streams holds unless two starts are between the count and the update.
THEOREM LiveWithinLimitHolds == Spec => []LiveWithinLimit
<1>1. SessionInv => LiveWithinLimit
  BY DEF SessionInv, LimitOK, LiveWithinLimit
<1> QED
  BY <1>1, SpecInv, PTL

\* An ended stream has no usable key left but one inserted late, and has a Vod, once no
\* finalizeStream is under way for it and none has failed.
THEOREM EndedIsFinalizedHolds == Spec => []EndedIsFinalized
<1>1. SessionInv => EndedIsFinalized
  BY DEF SessionInv, EndOK, At, Quiet, EndedIsFinalized
<1> QED
  BY <1>1, SpecInv, PTL

\* At rest, a stream the database calls live has a key in activeStreams of rtmp-ingest.
THEOREM LiveMeansOnAirHolds == Spec => []LiveMeansOnAir
<1>1. SessionInv => LiveMeansOnAir
  BY DEF SessionInv, LiveOK, At, Quiet, LiveMeansOnAir
<1> QED
  BY <1>1, SpecInv, PTL

\* on_publish accepts no revoked key from the validation cache, unless an on_publish_done
\* came too early to evict it.
THEOREM RevokedNotFromCacheHolds == Spec => RevokedNotFromCache
<1> DEFINE Fresh == \A k \in KeyIds \ overtaken :
                      pub[k] = "none" /\ pub'[k] = "startCount" => k \notin revoked
<1>1. ASSUME SessionInv, Next, NEW k \in KeyIds \ overtaken, pub[k] = "none", pub'[k] = "startCount"
      PROVE  FALSE
  <2>1. PICK j \in KeyIds : Publish(j) \/ PublishStep(j) \/ ValidationFails(j) \/ StartFails(j)
    BY <1>1 DEF Next, PublishDone, ExpireCache, RevokeKey, OnlyStudio, FinalizeStep, FinalizeRead,
       FinalizeUpdate, FinalizeRevoke, FinalizeFindVod, FinalizeVod, FinalizeFails, AnnounceEnd,
       NewStream, RotateKeys, EndByOwner, EndByTimer, CreateKey, RegenerateKey, StudioStep,
       CheckEnded, RevokeAll, InsertKey, RevokeStep
  <2>2. pub \in [KeyIds -> PublishSteps]
    BY <1>1 DEF SessionInv, TypesOK, IngestOK
  <2>3. CASE Publish(j)
    <3>1. k \notin line /\ k \in cached
      BY <1>1, <2>2, <2>3 DEF Publish, PublishTo
    <3> QED
      BY <1>1, <3>1, KeyFacts DEF KeyOK
  <2>4. CASE PublishStep(j) \/ ValidationFails(j) \/ StartFails(j)
    BY <1>1, <2>2, <2>4 DEF PublishStep, FindKey, CheckKeyStream, CountLive, StartCount, StartUpdate,
       AnnounceStart, ValidationFails, StartFails, Reject, Proceed, PublishTo
  <2> QED
    BY <2>1, <2>3, <2>4
<1>2. SessionInv /\ [Next]_vars => [Fresh]_vars
  BY <1>1
<1> QED
  BY <1>2, SpecInv, PTL DEF Spec, RevokedNotFromCache

----------------------------------------------------------------------------
(* The Vods.                                                               *)

\* A key that nobody has been let in with, nor will be while its stream has ended.
Unaired(k) == pub[k] \in {"none", "findKey", "isEnded"} /\ k \notin cached /\ sent[k].started = 0
NewKeys == \A k \in KeyIds : k > Len(keys) => Unaired(k)

IsNewest(n, s) == n \in KeysOf(s) /\ \A j \in KeysOf(s) : j <= n
HasNewest(s) == KeysOf(s) # {} => \E n \in KeysOf(s) : IsNewest(n, s)

\* Unless two of them found none, a finalizer that is about to create the Vod is the only one.
Writes(f, s, step) == fin[f].stream = s /\ fin[f].pc = step
ListOK(s) ==
  <<s, "create">> \notin contended =>
    /\ Len(vods[s]) <= 1
    /\ \A f \in Finalizers : Writes(f, s, "create") => vods[s] = <<>>
    /\ \A f \in Finalizers : Writes(f, s, "repoint") => vods[s] # <<>>
    /\ \A f, g \in Finalizers : Writes(f, s, "create") /\ Writes(g, s, "create") => f = g

\* A Vod is repointed to a later key only.
Writing(f, s) == Writes(f, s, "create") \/ Writes(f, s, "repoint")
Uncontended(s) == <<s, "create">> \notin contended /\ <<s, "repoint">> \notin contended
PointOK(s) ==
  Uncontended(s) =>
    /\ \A f, g \in Finalizers : Writes(f, s, "repoint") /\ Writes(g, s, "repoint") => f = g
    /\ \A f \in Finalizers : Writes(f, s, "repoint") => vods[s][1] < fin[f].newest
    /\ \A f \in Finalizers : Writing(f, s) => fin[f].newest \in KeysOf(s) \cup {0}
    /\ vods[s] # <<>> => vods[s][1] \in KeysOf(s) \cup {0}

\* Once a stream has ended, its Vod points at the newest key or is going to, unless that
\* key came too late to be on air.
ToFind == {"revoke", "findVod"}
Aimed(s, n) ==
  \/ At(s, ToFind)
  \/ \E f \in Finalizers : Writing(f, s) /\ fin[f].newest = n
  \/ vods[s] # <<>> /\ vods[s][1] = n
  \/ Unaired(n)
AimOK(s) ==
  Uncontended(s) /\ s \in ended \ broken =>
    \A n \in KeysOf(s) : IsNewest(n, s) => Aimed(s, n)

VodOK(s) == HasNewest(s) /\ ListOK(s) /\ PointOK(s) /\ AimOK(s)
VodInv == NewKeys /\ \A s \in Streams : VodOK(s)

LEMMA NewestIs ==
  ASSUME RowsOK, NEW s, NEW n, IsNewest(n, s)
  PROVE  Newest(KeysOf(s)) = n /\ n \in Nat /\ n > 0
<1>1. KeysOf(s) \subseteq Nat \ {0} /\ n \in KeysOf(s) /\ \A j \in KeysOf(s) : j <= n
  BY DEF RowsOK, KeysOf, IsNewest
<1>2. \A k \in KeysOf(s) \cup {0} : (\A j \in KeysOf(s) : j <= k) => k = n
  BY <1>1
<1>3. \E k \in KeysOf(s) \cup {0} : \A j \in KeysOf(s) : j <= k
  BY <1>1
<1> QED
  BY <1>1, <1>2, <1>3 DEF Newest

LEMMA KeysOfIds ==
  ASSUME SessionInv, NEW s
  PROVE  KeysOf(s) \subseteq KeyIds /\ \A k \in KeysOf(s) : keys[k] = s
<1>1. Len(keys) \in Nat /\ Len(keys) <= MaxKeys /\ MaxKeys \in Nat
  BY SessionAssumption DEF SessionInv, TypesOK, RowsOK
<1> QED
  BY <1>1 DEF KeysOf, KeyIds

LEMMA NewestOfNone == Newest({}) = 0
BY DEF Newest

LEMMA LengthOne ==
  ASSUME NEW T, NEW q \in Seq(T), q # <<>>, Len(q) <= 1
  PROVE  Len(q) = 1
<1>1. Len(q) \in Nat \ {0}
  BY EmptySeq
<1>2. \A n \in Nat \ {0} : n <= 1 => n = 1
  OBVIOUS
<1> QED
  BY <1>1, <1>2

\* What no step but those of FinalizeFindVod, FinalizeVod and InsertKey disturbs.
LEMMA ListFrame ==
  ASSUME NEW s \in Streams, HasNewest(s), ListOK(s), PointOK(s),
         KeysOf(s)' = KeysOf(s), vods'[s] = vods[s],
         \A step : <<s, step>> \in contended' <=> <<s, step>> \in contended,
         \A f \in Finalizers : Writing(f, s)' => fin'[f] = fin[f]
  PROVE  HasNewest(s)' /\ ListOK(s)' /\ PointOK(s)'
<1>1. HasNewest(s)'
  BY DEF HasNewest, IsNewest
<1>2. \A f \in Finalizers, step \in {"create", "repoint"} :
        Writes(f, s, step)' => Writes(f, s, step) /\ fin'[f] = fin[f]
  BY DEF Writing, Writes
<1>3. ListOK(s)'
  BY <1>2 DEF ListOK
<1>4. \A f \in Finalizers : Writing(f, s)' => Writing(f, s) /\ fin'[f] = fin[f]
  BY <1>2 DEF Writing
<1>5. PointOK(s)'
  BY <1>2, <1>4 DEF PointOK, Uncontended
<1> QED
  BY <1>1, <1>3, <1>5

LEMMA AimFrame ==
  ASSUME NEW s \in Streams, AimOK(s), KeysOf(s)' = KeysOf(s), vods'[s] = vods[s],
         \A step : <<s, step>> \in contended' <=> <<s, step>> \in contended,
         broken \subseteq broken', s \in ended' => s \in ended,
         s \in ended' \ broken' =>
           /\ At(s, ToFind) => At(s, ToFind)'
           /\ \A f \in Finalizers : Writing(f, s) => fin'[f] = fin[f]
           /\ \A k \in KeysOf(s) : Unaired(k) => Unaired(k)'
  PROVE  AimOK(s)'
<1> SUFFICES ASSUME Uncontended(s)', s \in ended' \ broken', NEW n \in KeysOf(s), IsNewest(n, s)'
             PROVE  Aimed(s, n)'
  BY DEF AimOK
<1>1. Aimed(s, n)
  BY DEF AimOK, Uncontended, IsNewest
<1>2. \A f \in Finalizers : Writing(f, s) => Writing(f, s)' /\ fin'[f] = fin[f]
  BY DEF Writing, Writes
<1> QED
  BY <1>1, <1>2 DEF Aimed

\* Finalizers, keys and Vods stay, and no key of an ended stream gets on air.
LEMMA VodStill ==
  ASSUME SessionInv, VodInv, UNCHANGED <<keys, vods, fin, broken, contended>>, ended' \subseteq ended,
         \A k \in KeyIds : Unaired(k) /\ (k > Len(keys) \/ keys[k] \in ended') => Unaired(k)'
  PROVE  VodInv'
<1>1. NewKeys'
  BY DEF VodInv, NewKeys
<1>2. ASSUME NEW s \in Streams PROVE VodOK(s)'
  <2>1. VodOK(s) /\ KeysOf(s)' = KeysOf(s)
    BY DEF VodInv, KeysOf
  <2>2. HasNewest(s)' /\ ListOK(s)' /\ PointOK(s)'
    BY <2>1, ListFrame DEF VodOK
  <2>3. At(s, ToFind) => At(s, ToFind)'
    BY AtFrame
  <2>4. s \in ended' => \A k \in KeysOf(s) : Unaired(k) => Unaired(k)'
    BY KeysOfIds
  <2>5. AimOK(s)'
    BY <2>1, <2>3, <2>4, AimFrame DEF VodOK
  <2> QED
    BY <2>2, <2>5 DEF VodOK
<1> QED
  BY <1>1, <1>2 DEF VodInv

\* The handler of key k: whoever is past isEnded, or had a cached key, may go on air.
LEMMA VodHandler ==
  ASSUME SessionInv, VodInv, NEW k \in KeyIds,
         Publish(k) \/ PublishStep(k) \/ ValidationFails(k) \/ StartFails(k) \/ ExpireCache(k)
  PROVE  VodInv'
<1>0. pub \in [KeyIds -> PublishSteps] /\ sent \in [KeyIds -> Counts]
  BY DEF SessionInv, TypesOK, IngestOK
<1>1. \A j \in KeyIds \ {k} : Unaired(j) => Unaired(j)'
  BY <1>0 DEF Publish, PublishStep, FindKey, CheckKeyStream, CountLive, StartCount, StartUpdate,
     AnnounceStart, ValidationFails, StartFails, ExpireCache, Reject, Proceed, PublishTo, Validated,
     Unaired, ingest
<1>2. UNCHANGED <<keys, vods, fin, broken, contended>> /\ ended' \subseteq ended
  BY DEF Publish, PublishStep, FindKey, CheckKeyStream, CountLive, StartCount, StartUpdate,
     AnnounceStart, ValidationFails, StartFails, ExpireCache, Reject, Proceed, Validated, rows, history
<1>3. ASSUME Unaired(k), k > Len(keys) \/ keys[k] \in ended' PROVE Unaired(k)'
  <2>1. CASE Publish(k)
    BY <1>0, <1>3, <2>1 DEF Unaired, Publish, PublishTo
  <2>2. CASE FindKey(k) \/ ValidationFails(k)
    BY <1>0, <1>3, <2>2 DEF Unaired, FindKey, ValidationFails, Reject, Proceed, PublishTo, ingest
  <2>3. CASE CheckKeyStream(k)
    <3>1. k <= Len(keys) /\ Len(keys) \in Nat
      BY <2>3, KeyFacts DEF CheckKeyStream, SessionInv, TypesOK, RowsOK
    <3>2. IsEnded(keys[k])
      BY <1>2, <1>3, <3>1 DEF SessionInv, LimitOK, IsEnded, KeyIds
    <3>3. Reject(k)
      BY <2>3, <3>2 DEF CheckKeyStream
    <3> QED
      BY <1>0, <1>3, <3>3 DEF Unaired, Reject, PublishTo
  <2>4. CASE ExpireCache(k)
    BY <1>3, <2>4 DEF Unaired, ExpireCache
  <2>5. CASE CountLive(k) \/ StartCount(k) \/ StartUpdate(k) \/ AnnounceStart(k) \/ StartFails(k)
    BY <1>3, <2>5 DEF Unaired, CountLive, StartCount, StartUpdate, AnnounceStart, StartFails
  <2> QED
    BY <2>1, <2>2, <2>3, <2>4, <2>5 DEF PublishStep
<1> QED
  BY <1>1, <1>2, <1>3, VodStill

LEMMA VodInsert ==
  ASSUME SessionInv, VodInv, InsertKey
  PROVE  VodInv'
<1>1. /\ UNCHANGED <<ingest, pub, fin, ended, vods, broken, contended>>
      /\ studio.stream \in Streams
  BY DEF InsertKey, OnlyStudio, SessionInv, TypesOK, StudioOK
<1>2. CASE UNCHANGED keys
  BY <1>1, <1>2, VodStill DEF Unaired, ingest
<1>3. CASE Len(keys) < MaxKeys /\ keys' = Append(keys, studio.stream)
  <2>1. PICK q \in Streams : q = studio.stream
    BY <1>1
  <2>2. PICK n : n = Len(keys) + 1
    OBVIOUS
  <2>3. /\ Len(keys) \in Nat /\ Len(keys') = n /\ n \in KeyIds
        /\ \A s, k : k \in KeysOf(s)' <=> k \in KeysOf(s) \/ (k = n /\ s = q)
    BY <1>3, <2>1, <2>2, KeysGrow, SessionAssumption DEF SessionInv, TypesOK, KeyIds
  <2>4. \A k : Unaired(k)' <=> Unaired(k)
    BY <1>1 DEF Unaired, ingest
  <2>5. NewKeys' /\ Unaired(n)
    BY <2>2, <2>3, <2>4 DEF VodInv, NewKeys, KeyIds
  <2>6. ASSUME NEW s \in Streams, s # q PROVE VodOK(s)'
    <3>1. VodOK(s) /\ KeysOf(s)' = KeysOf(s)
      <4>1. \A k : k \in KeysOf(s)' <=> k \in KeysOf(s)
        BY <2>3, <2>6
      <4>2. KeysOf(s)' = KeysOf(s)
        BY <4>1
      <4> QED
        BY <4>2 DEF VodInv
    <3>2. HasNewest(s)' /\ ListOK(s)' /\ PointOK(s)'
      BY <1>1, <3>1, ListFrame DEF VodOK
    <3>3. At(s, ToFind) => At(s, ToFind)'
      BY <1>1, AtFrame
    <3>4. AimOK(s)'
      BY <1>1, <2>4, <3>1, <3>3, AimFrame DEF VodOK
    <3> QED
      BY <3>2, <3>4 DEF VodOK
  <2>7. VodOK(q)'
    <3>1. VodOK(q)
      BY DEF VodInv
    <3>2. KeysOf(q) \subseteq 1 .. Len(keys)
      BY DEF KeysOf
    <3>3. IsNewest(n, q)' /\ \A m : IsNewest(m, q)' => m = n
      <4>1. \A j \in KeysOf(q)' : j \in Nat /\ j <= n
        BY <2>2, <2>3, <3>2
      <4>2. n \in KeysOf(q)'
        BY <2>3
      <4>3. ASSUME NEW m \in KeysOf(q)', n <= m PROVE m = n
        BY <2>2, <2>3, <4>1, <4>3
      <4> QED
        BY <4>1, <4>2, <4>3 DEF IsNewest
    <3>4. HasNewest(q)'
      BY <2>3, <3>3 DEF HasNewest
    <3>5. ListOK(q)'
      BY <1>1, <3>1 DEF VodOK, ListOK, Writes
    <3>6. PointOK(q)'
      BY <1>1, <2>3, <3>1 DEF VodOK, PointOK, Uncontended, Writing, Writes
    <3>7. AimOK(q)'
      BY <2>4, <2>5, <3>3 DEF AimOK, Aimed
    <3> QED
      BY <3>4, <3>5, <3>6, <3>7 DEF VodOK
  <2> QED
    BY <2>5, <2>6, <2>7 DEF VodInv
<1> QED
  BY <1>2, <1>3 DEF InsertKey

\* A finalizer that does not get to write a Vod.
LEMMA VodCall ==
  ASSUME SessionInv, VodInv, NEW f \in Finalizers, NEW r, \A g \in Finalizers : fin'[g] = IF g = f THEN r ELSE fin[g],
         r.pc \notin {"create", "repoint"}, UNCHANGED <<keys, vods, contended>>, broken \subseteq broken',
         \A k \in KeyIds : Unaired(k) => Unaired(k)',
         \/ ended' = ended
         \/ ended' = ended \cup {r.stream} /\ r.pc = "revoke",
         \/ fin[f].pc \notin ToFind \cup {"create", "repoint"}
         \/ fin[f].stream \in broken'
         \/ fin[f].pc \in ToFind /\ r.pc \in ToFind /\ r.stream = fin[f].stream
  PROVE  VodInv'
<1>1. NewKeys'
  BY DEF VodInv, NewKeys
<1>2. ASSUME NEW s \in Streams PROVE VodOK(s)'
  <2>1. VodOK(s) /\ KeysOf(s)' = KeysOf(s)
    BY DEF VodInv, KeysOf
  <2>2. \A g \in Finalizers : Writing(g, s)' => fin'[g] = fin[g]
    BY DEF Writing, Writes
  <2>3. HasNewest(s)' /\ ListOK(s)' /\ PointOK(s)'
    BY <2>1, <2>2, ListFrame DEF VodOK
  <2>4. AimOK(s)'
    <3>1. CASE s \in ended' /\ s \notin ended
      <4>1. r.stream = s /\ r.pc \in ToFind
        BY <3>1 DEF ToFind
      <4>2. At(s, ToFind)'
        BY <4>1 DEF At
      <4> QED
        BY <4>2 DEF AimOK, Aimed
    <3>2. CASE ~(s \in ended' /\ s \notin ended)
      <4>1. \A k \in KeysOf(s) : Unaired(k) => Unaired(k)'
        BY KeysOfIds
      <4>2. s \notin broken' => (At(s, ToFind) => At(s, ToFind)')
        BY AtStep
      <4>3. s \notin broken' => \A g \in Finalizers : Writing(g, s) => fin'[g] = fin[g]
        BY DEF Writing, Writes, ToFind
      <4> QED
        BY <2>1, <3>2, <4>1, <4>2, <4>3, AimFrame DEF VodOK
    <3> QED
      BY <3>1, <3>2
  <2> QED
    BY <2>3, <2>4 DEF VodOK
<1> QED
  BY <1>1, <1>2 DEF VodInv

LEMMA VodEnd ==
  ASSUME SessionInv, VodInv, NEW f \in Requests, NEW s \in Streams, EndByOwner(f, s) \/ EndByTimer(f, s)
  PROVE  VodInv'
<1>1. PICK r : r = [pc |-> "read", stream |-> s, by |-> 0, newest |-> 0]
  OBVIOUS
<1>2. /\ r.pc = "read" /\ fin' = [fin EXCEPT ![f] = r] /\ fin[f].pc = "idle"
      /\ UNCHANGED <<keys, vods, contended, broken, ended, pub, cached, sent>>
  BY <1>1 DEF EndByOwner, EndByTimer, Call, rows, ingest, history
<1>3. f \in Finalizers /\ \A g \in Finalizers : fin'[g] = IF g = f THEN r ELSE fin[g]
  BY <1>2 DEF SessionInv, TypesOK, FinOK, Finalizers
<1> QED
  BY <1>2, <1>3, VodCall DEF ToFind, Unaired

LEMMA VodDone ==
  ASSUME SessionInv, VodInv, NEW k \in KeyIds, PublishDone(k)
  PROVE  VodInv'
<1>1. /\ UNCHANGED <<keys, vods, contended, broken, ended, pub, sent>>
      /\ cached' \subseteq cached
  BY DEF PublishDone, Evicted, rows
<1>2. \A j \in KeyIds : Unaired(j) => Unaired(j)'
  BY <1>1 DEF Unaired
<1>3. CASE UNCHANGED fin
  BY <1>1, <1>2, <1>3, VodStill
<1>4. CASE fin["ingest"].pc = "idle" /\ Call("ingest", keys[k], k)
  <2>1. PICK r : r = [pc |-> "read", stream |-> keys[k], by |-> k, newest |-> 0]
    OBVIOUS
  <2>2. r.pc = "read" /\ fin' = [fin EXCEPT !["ingest"] = r] /\ "ingest" \in Finalizers
    BY <1>4, <2>1 DEF Call, Finalizers
  <2>3. \A g \in Finalizers : fin'[g] = IF g = "ingest" THEN r ELSE fin[g]
    BY <2>2 DEF SessionInv, TypesOK, FinOK
  <2> QED
    BY <1>1, <1>2, <1>4, <2>2, <2>3, VodCall DEF ToFind
<1> QED
  BY <1>3, <1>4 DEF PublishDone

LEMMA VodAnnounce ==
  ASSUME SessionInv, VodInv, AnnounceEnd
  PROVE  VodInv'
<1>1. PICK k : k = fin["ingest"].by
  OBVIOUS
<1>2. /\ fin["ingest"].pc = "announce" /\ sent' = [sent EXCEPT ![k].ended = @ + 1]
      /\ fin' = [fin EXCEPT !["ingest"] = NoCall]
      /\ UNCHANGED <<keys, vods, contended, broken, ended, pub, cached>>
  BY <1>1 DEF AnnounceEnd, CountEnded, rows, history
<1>3. "ingest" \in Finalizers /\ \A g \in Finalizers : fin'[g] = IF g = "ingest" THEN NoCall ELSE fin[g]
  BY <1>2 DEF SessionInv, TypesOK, FinOK, Finalizers
<1>4. sent \in [KeyIds -> Counts]
  BY DEF SessionInv, TypesOK, IngestOK
<1>5. \A j \in KeyIds : sent'[j].started = sent[j].started
  <2>1. CASE k \in KeyIds
    BY <1>2, <1>4, <2>1, CountUp
  <2>2. CASE k \notin KeyIds
    BY <1>2, <1>4, <2>2
  <2> QED
    BY <2>1, <2>2
<1>6. \A j \in KeyIds : Unaired(j) => Unaired(j)'
  BY <1>2, <1>5 DEF Unaired
<1>7. NoCall.pc = "idle"
  BY DEF NoCall
<1> QED
  BY <1>2, <1>3, <1>6, <1>7, VodCall DEF ToFind

\* The steps of a finalizer that do not find or write a Vod.
LEMMA VodSteps ==
  ASSUME SessionInv, VodInv, NEW f \in Finalizers,
         FinalizeRead(f) \/ FinalizeUpdate(f) \/ FinalizeRevoke(f) \/ FinalizeFails(f)
  PROVE  VodInv'
<1>0. FinOK /\ fin[f].pc # "idle" /\ fin \in [Finalizers -> Finalize]
  BY DEF SessionInv, TypesOK, FinOK, FinalizeRead, FinalizeUpdate, FinalizeRevoke, FinalizeFails
<1>1. /\ UNCHANGED <<keys, vods, contended, pub, cached, sent>> /\ broken \subseteq broken'
  BY DEF FinalizeRead, FinalizeUpdate, FinalizeRevoke, FinalizeFails, rows, ingest, history
<1>2. \A k \in KeyIds : Unaired(k) => Unaired(k)'
  BY <1>1 DEF Unaired
<1>3. ASSUME NEW r, fin' = [fin EXCEPT ![f] = r]
      PROVE  \A g \in Finalizers : fin'[g] = IF g = f THEN r ELSE fin[g]
  BY <1>0, <1>3
<1>4. CASE /\ fin' = Returned(f) /\ ended' = ended
           /\ fin[f].pc = "read" \/ fin[f].stream \in broken'
  <2>1. PICK r \in Finalize : fin' = [fin EXCEPT ![f] = r] /\ r.pc \in {"idle", "announce"}
    BY <1>0, <1>4, ReturnFacts
  <2>2. \A g \in Finalizers : fin'[g] = IF g = f THEN r ELSE fin[g]
    BY <1>3, <2>1
  <2> QED
    BY <1>1, <1>2, <1>4, <2>1, <2>2, VodCall DEF ToFind
<1>5. CASE /\ fin[f].pc = "read" /\ CallTo(f, "update") /\ ended' = ended
  <2>1. PICK r \in Finalize : fin' = [fin EXCEPT ![f] = r] /\ r.pc = "update"
    BY <1>0, <1>5, StepFacts DEF FinalizeSteps
  <2>2. \A g \in Finalizers : fin'[g] = IF g = f THEN r ELSE fin[g]
    BY <1>3, <2>1
  <2> QED
    BY <1>1, <1>2, <1>5, <2>1, <2>2, VodCall DEF ToFind
<1>6. CASE FinalizeUpdate(f)
  <2>1. fin[f].pc = "update" /\ CallTo(f, "revoke") /\ ended' = ended \cup {fin[f].stream}
    BY <1>6 DEF FinalizeUpdate
  <2>2. PICK r \in Finalize : /\ fin' = [fin EXCEPT ![f] = r] /\ r.pc = "revoke"
                              /\ r.stream = fin[f].stream
    BY <1>0, <2>1, StepFacts DEF FinalizeSteps
  <2>3. \A g \in Finalizers : fin'[g] = IF g = f THEN r ELSE fin[g]
    BY <1>3, <2>2
  <2> QED
    BY <1>1, <1>2, <2>1, <2>2, <2>3, VodCall DEF ToFind
<1>7. CASE FinalizeRevoke(f)
  <2>1. fin[f].pc = "revoke" /\ CallTo(f, "findVod") /\ ended' = ended
    BY <1>7 DEF FinalizeRevoke
  <2>2. PICK r \in Finalize : /\ fin' = [fin EXCEPT ![f] = r] /\ r.pc = "findVod"
                              /\ r.stream = fin[f].stream
    BY <1>0, <2>1, StepFacts DEF FinalizeSteps
  <2>3. \A g \in Finalizers : fin'[g] = IF g = f THEN r ELSE fin[g]
    BY <1>3, <2>2
  <2> QED
    BY <1>1, <1>2, <2>1, <2>2, <2>3, VodCall DEF ToFind
<1>8. CASE FinalizeRead(f)
  BY <1>4, <1>5, <1>8 DEF FinalizeRead, rows
<1>9. CASE FinalizeFails(f)
  BY <1>4, <1>9 DEF FinalizeFails, rows
<1> QED
  BY <1>6, <1>7, <1>8, <1>9

\* Finding the Vod: alone, a finalizer creates the first one, and repoints to a later key.
LEMMA VodFind ==
  ASSUME SessionInv, VodInv, NEW f \in Finalizers, FinalizeFindVod(f)
  PROVE  VodInv'
<1>1. PICK s \in Streams : s = fin[f].stream
  BY DEF SessionInv, TypesOK, FinOK, FinalizeFindVod
<1>2. PICK n : n = Newest(KeysOf(s))
  OBVIOUS
<1>3. PICK step : step = VodStep(s, n)
  OBVIOUS
<1>4. /\ fin[f].pc = "findVod"
      /\ fin' = IF step = "done" THEN Returned(f)
                ELSE [fin EXCEPT ![f].pc = step, ![f].newest = n]
      /\ contended' = IF step # "done" /\ \E g \in Finalizers \ {f} :
                           fin[g].pc = step /\ fin[g].stream = s
                      THEN contended \cup {<<s, step>>} ELSE contended
      /\ UNCHANGED <<keys, vods, ended, broken, pub, cached, sent>>
  BY <1>1, <1>2, <1>3 DEF FinalizeFindVod, rows, ingest
<1>5. FinOK /\ RowsOK /\ fin[f] \in Finalize /\ fin \in [Finalizers -> Finalize]
  BY DEF SessionInv, TypesOK, FinOK
<1>6. NewKeys' /\ \A k : Unaired(k)' <=> Unaired(k)
  BY <1>4 DEF VodInv, NewKeys, Unaired
<1>7. VodOK(s) /\ KeysOf(s)' = KeysOf(s)
  BY <1>4 DEF VodInv, KeysOf
\* What is the newest key.
<1>8. /\ \A m : IsNewest(m, s) => m = n
      /\ n \in KeysOf(s) \cup {0}
      /\ \A k \in KeysOf(s) \cup {0} : k \in Nat /\ k <= n
  <2>1. \A m : IsNewest(m, s) => n = m /\ m \in Nat /\ m > 0
    BY <1>2, <1>5, NewestIs
  <2>2. CASE KeysOf(s) = {}
    BY <1>2, <2>2, NewestOfNone DEF IsNewest
  <2>3. CASE KeysOf(s) # {}
    <3>1. PICK m \in KeysOf(s) : IsNewest(m, s)
      BY <1>7, <2>3 DEF VodOK, HasNewest
    <3>2. \A k \in KeysOf(s) : k \in Nat /\ k <= m
      BY <1>5, <3>1 DEF KeysOf, RowsOK, IsNewest
    <3> QED
      BY <2>1, <3>1, <3>2
  <2> QED
    BY <2>2, <2>3
<1>9. \E r : /\ \A g \in Finalizers : fin'[g] = IF g = f THEN r ELSE fin[g]
             /\ step = "done" => r.pc \in {"idle", "announce"}
             /\ step # "done" => r.pc = step /\ r.stream = s /\ r.newest = n
  <2>1. CASE step = "done"
    <3>1. PICK r \in Finalize : fin' = [fin EXCEPT ![f] = r] /\ r.pc \in {"idle", "announce"}
      BY <1>4, <1>5, <2>1, ReturnFacts
    <3> QED
      BY <1>5, <2>1, <3>1
  <2>2. CASE step # "done"
    <3>1. PICK r : r = [fin[f] EXCEPT !.pc = step, !.newest = n]
      OBVIOUS
    <3>2. r.pc = step /\ r.stream = s /\ r.newest = n
      BY <1>1, <1>5, <3>1 DEF Finalize
    <3>3. fin' = [fin EXCEPT ![f] = r]
      BY <1>4, <1>5, <2>2, <3>1
    <3> QED
      BY <1>5, <2>2, <3>2, <3>3
  <2> QED
    BY <2>1, <2>2
<1>10. PICK r : /\ \A g \in Finalizers : fin'[g] = IF g = f THEN r ELSE fin[g]
                /\ step = "done" => r.pc \in {"idle", "announce"}
                /\ step # "done" => r.pc = step /\ r.stream = s /\ r.newest = n
  BY <1>9
\* The other streams.
<1>11. ASSUME NEW p \in Streams, p # s PROVE VodOK(p)'
  <2>1. VodOK(p) /\ KeysOf(p)' = KeysOf(p) /\ vods'[p] = vods[p]
    BY <1>4 DEF VodInv, KeysOf
  <2>2. \A w : <<p, w>> \in contended' <=> <<p, w>> \in contended
    BY <1>4, <1>11
  <2>3. \A g \in Finalizers : /\ Writing(g, p) => fin'[g] = fin[g]
                              /\ Writing(g, p)' => fin'[g] = fin[g]
    BY <1>1, <1>4, <1>10, <1>11 DEF Writing, Writes
  <2>4. HasNewest(p)' /\ ListOK(p)' /\ PointOK(p)'
    BY <2>1, <2>2, <2>3, ListFrame DEF VodOK
  <2>5. At(p, ToFind) => At(p, ToFind)'
    BY <1>1, <1>10, <1>11, AtStep
  <2>6. AimOK(p)'
    BY <1>4, <1>6, <2>1, <2>2, <2>3, <2>5, AimFrame DEF VodOK
  <2> QED
    BY <2>4, <2>6 DEF VodOK
\* This one.
<1>12. \A g \in Finalizers, w \in {"create", "repoint"} :
         Writes(g, s, w)' <=> (g # f /\ Writes(g, s, w)) \/ (g = f /\ w = step)
  BY <1>4, <1>10 DEF Writes
<1>13. /\ step = "create" => vods[s] = <<>>
       /\ step = "repoint" => n # 0 /\ vods[s] # <<>> /\ vods[s][Len(vods[s])] # n
       /\ step \notin {"create", "repoint"} =>
            vods[s] # <<>> /\ (n = 0 \/ vods[s][Len(vods[s])] = n)
  BY <1>3 DEF VodStep
<1>14. ASSUME NEW w \in {"create", "repoint"}, <<s, w>> \notin contended'
       PROVE  /\ <<s, w>> \notin contended
              /\ step = w => \A g \in Finalizers : Writes(g, s, w) => g = f
  BY <1>4, <1>14 DEF Writes
<1>15. HasNewest(s)'
  BY <1>7 DEF VodOK, HasNewest, IsNewest
<1>16. ListOK(s)'
  <2> SUFFICES ASSUME <<s, "create">> \notin contended'
               PROVE  /\ Len(vods[s]) <= 1
                      /\ \A g \in Finalizers : Writes(g, s, "create")' => vods[s] = <<>>
                      /\ \A g \in Finalizers : Writes(g, s, "repoint")' => vods[s] # <<>>
                      /\ \A g, h \in Finalizers : Writes(g, s, "create")' /\ Writes(h, s, "create")' => g = h
    BY <1>4 DEF ListOK
  <2>1. /\ Len(vods[s]) <= 1
        /\ \A g \in Finalizers : Writes(g, s, "create") => vods[s] = <<>>
        /\ \A g \in Finalizers : Writes(g, s, "repoint") => vods[s] # <<>>
        /\ \A g, h \in Finalizers : Writes(g, s, "create") /\ Writes(h, s, "create") => g = h
    BY <1>7, <1>14 DEF VodOK, ListOK
  <2>2. step = "create" => \A g \in Finalizers : Writes(g, s, "create") => g = f
    BY <1>14
  <2>3. \A g, h \in Finalizers : Writes(g, s, "create")' /\ Writes(h, s, "create")' => g = h
    BY <1>12, <2>1, <2>2
  <2> QED
    BY <1>12, <1>13, <2>1, <2>3
<1>17. PointOK(s)'
  <2> SUFFICES ASSUME Uncontended(s)'
               PROVE  /\ \A g, h \in Finalizers : Writes(g, s, "repoint")' /\ Writes(h, s, "repoint")' => g = h
                      /\ \A g \in Finalizers : Writes(g, s, "repoint")' => vods[s][1] < fin'[g].newest
                      /\ \A g \in Finalizers : Writing(g, s)' => fin'[g].newest \in KeysOf(s) \cup {0}
                      /\ vods[s] # <<>> => vods[s][1] \in KeysOf(s) \cup {0}
    BY <1>4, <1>7 DEF PointOK
  <2>1. /\ Uncontended(s)
        /\ step = "repoint" => \A g \in Finalizers : Writes(g, s, "repoint") => g = f
    BY <1>14 DEF Uncontended
  <2>2. /\ \A g, h \in Finalizers : Writes(g, s, "repoint") /\ Writes(h, s, "repoint") => g = h
        /\ \A g \in Finalizers : Writes(g, s, "repoint") => vods[s][1] < fin[g].newest
        /\ \A g \in Finalizers : Writing(g, s) => fin[g].newest \in KeysOf(s) \cup {0}
        /\ vods[s] # <<>> => vods[s][1] \in KeysOf(s) \cup {0}
        /\ Len(vods[s]) <= 1
    BY <1>7, <2>1 DEF VodOK, PointOK, ListOK, Uncontended
  <2>3. \A g, h \in Finalizers : Writes(g, s, "repoint")' /\ Writes(h, s, "repoint")' => g = h
    BY <1>12, <2>1, <2>2
  <2>4. step = "repoint" => vods[s][1] < n
    <3> SUFFICES ASSUME step = "repoint" PROVE vods[s][1] < n
      OBVIOUS
    <3>1. vods[s] # <<>> /\ vods[s] \in Seq(Newests)
      BY <1>5, <1>13 DEF RowsOK
    <3>2. Len(vods[s]) = 1
      BY <2>2, <3>1, LengthOne
    <3>3. vods[s][1] # n /\ vods[s][1] \in Nat /\ vods[s][1] <= n /\ n \in Nat
      BY <1>8, <1>13, <2>2, <3>1, <3>2
    <3> QED
      BY <3>3
  <2>5. \A g \in Finalizers : Writes(g, s, "repoint")' => vods[s][1] < fin'[g].newest
    BY <1>10, <1>12, <2>2, <2>4
  <2>6. \A g \in Finalizers : Writing(g, s)' => (g # f /\ Writing(g, s)) \/ (g = f /\ step # "done")
    BY <1>12 DEF Writing
  <2>7. \A g \in Finalizers : Writing(g, s)' => fin'[g].newest \in KeysOf(s) \cup {0}
    BY <1>8, <1>10, <2>2, <2>6
  <2> QED
    BY <2>2, <2>3, <2>5, <2>7
<1>18. AimOK(s)'
  <2> SUFFICES ASSUME Uncontended(s)', NEW m \in KeysOf(s), IsNewest(m, s)
               PROVE  Aimed(s, m)'
    BY <1>7 DEF AimOK, IsNewest
  <2>1. m = n
    BY <1>8
  <2>2. CASE step \in {"create", "repoint"}
    <3>1. Writing(f, s)' /\ fin'[f].newest = m
      BY <1>10, <1>12, <2>1, <2>2 DEF Writing
    <3> QED
      BY <3>1 DEF Aimed
  <2>3. CASE step \notin {"create", "repoint"}
    <3>1. vods[s] # <<>> /\ vods[s] \in Seq(Newests) /\ m # 0
      BY <1>5, <1>13, <2>3, NewestIs DEF RowsOK
    <3>2. Len(vods[s]) <= 1
      BY <1>7, <1>14 DEF VodOK, ListOK, Uncontended
    <3>3. Len(vods[s]) = 1
      BY <3>1, <3>2, LengthOne
    <3>4. vods'[s] # <<>> /\ vods'[s][1] = m
      BY <1>4, <1>13, <2>1, <2>3, <3>1, <3>3
    <3> QED
      BY <3>4 DEF Aimed
  <2> QED
    BY <2>2, <2>3
<1>19. VodOK(s)'
  BY <1>15, <1>16, <1>17, <1>18 DEF VodOK
<1> QED
  BY <1>6, <1>11, <1>19 DEF VodInv

\* Writing it: nobody else is about to, so that the Vod is what was found, or new.
LEMMA VodWrite ==
  ASSUME SessionInv, VodInv, NEW f \in Finalizers, FinalizeVod(f)
  PROVE  VodInv'
<1>1. /\ fin[f].stream \in Streams /\ fin[f].pc \in {"create", "repoint"}
      /\ vods \in [Streams -> Seq(Newests)] /\ FinOK /\ RowsOK /\ fin \in [Finalizers -> Finalize]
  BY DEF SessionInv, TypesOK, RowsOK, FinOK, FinalizeVod
<1>2. PICK s, n : s \in Streams /\ s = fin[f].stream /\ n = fin[f].newest
  BY <1>1
<1>3. PICK q : q = IF fin[f].pc = "create" THEN Append(vods[s], n)
                   ELSE [vods[s] EXCEPT ![Len(vods[s])] = n]
  OBVIOUS
<1>4. /\ vods' = [vods EXCEPT ![s] = q] /\ fin' = Returned(f)
      /\ UNCHANGED <<keys, contended, ended, broken, pub, cached, sent>>
  BY <1>1, <1>2, <1>3 DEF FinalizeVod, ingest, history
<1>5. vods'[s] = q /\ \A p \in Streams : p # s => vods'[p] = vods[p]
  BY <1>1, <1>2, <1>4
<1>6. PICK r \in Finalize : fin' = [fin EXCEPT ![f] = r] /\ r.pc \in {"idle", "announce"}
  BY <1>1, <1>4, ReturnFacts
<1>7. \A g \in Finalizers : fin'[g] = IF g = f THEN r ELSE fin[g]
  BY <1>1, <1>6
<1>8. NewKeys' /\ \A k : Unaired(k)' <=> Unaired(k)
  BY <1>4 DEF VodInv, NewKeys, Unaired
<1>9. ASSUME NEW p \in Streams, p # s PROVE VodOK(p)'
  <2>1. VodOK(p) /\ KeysOf(p)' = KeysOf(p) /\ vods'[p] = vods[p]
    BY <1>4, <1>5, <1>9 DEF VodInv, KeysOf
  <2>2. \A g \in Finalizers : /\ Writing(g, p) => fin'[g] = fin[g]
                              /\ Writing(g, p)' => fin'[g] = fin[g]
    BY <1>2, <1>6, <1>7, <1>9 DEF Writing, Writes
  <2>3. HasNewest(p)' /\ ListOK(p)' /\ PointOK(p)'
    BY <1>4, <2>1, <2>2, ListFrame DEF VodOK
  <2>4. At(p, ToFind) => At(p, ToFind)'
    BY <1>2, <1>7, <1>9, AtStep
  <2>5. AimOK(p)'
    BY <1>4, <1>8, <2>1, <2>2, <2>4, AimFrame DEF VodOK
  <2> QED
    BY <2>3, <2>5 DEF VodOK
<1>10. VodOK(s) /\ KeysOf(s)' = KeysOf(s)
  BY <1>2, <1>4 DEF VodInv, KeysOf
<1>11. \A g \in Finalizers, w \in {"create", "repoint"} : Writes(g, s, w)' => g # f /\ Writes(g, s, w)
  BY <1>6, <1>7 DEF Writes
<1>12. HasNewest(s)'
  BY <1>4, <1>10 DEF VodOK, HasNewest, IsNewest
\* With one Vod at most, and one finalizer to create it, it is this one that is written.
<1>13. ASSUME <<s, "create">> \notin contended
       PROVE  /\ Len(q) = 1 /\ q # <<>> /\ q[1] = n
              /\ \A g \in Finalizers : ~ Writes(g, s, "create")'
              /\ \A g \in Finalizers : Writes(g, s, "repoint")' => Writes(f, s, "repoint")
  <2>1. /\ Len(vods[s]) <= 1
        /\ \A g \in Finalizers : Writes(g, s, "create") => vods[s] = <<>>
        /\ \A g \in Finalizers : Writes(g, s, "repoint") => vods[s] # <<>>
        /\ \A g, h \in Finalizers : Writes(g, s, "create") /\ Writes(h, s, "create") => g = h
    BY <1>10, <1>13 DEF VodOK, ListOK
  <2>2. CASE fin[f].pc = "create"
    <3>1. Writes(f, s, "create") /\ vods[s] = <<>>
      BY <1>2, <2>1, <2>2 DEF Writes
    <3>2. q = Append(<<>>, n)
      BY <1>3, <2>2, <3>1
    <3>3. Len(q) = 1 /\ q # <<>> /\ q[1] = n
      BY <3>2
    <3> QED
      BY <1>11, <2>1, <3>1, <3>3
  <2>3. CASE fin[f].pc = "repoint"
    <3>1. Writes(f, s, "repoint") /\ vods[s] # <<>> /\ vods[s] \in Seq(Newests)
      BY <1>1, <1>2, <2>1, <2>3 DEF Writes
    <3>2. Len(vods[s]) = 1
      BY <2>1, <3>1, LengthOne
    <3>3. q = [vods[s] EXCEPT ![1] = n]
      BY <1>3, <2>3, <3>2
    <3>4. DOMAIN vods[s] = 1 .. 1
      BY <3>1, <3>2
    <3>5. n \in Newests
      BY <1>1, <1>2 DEF Finalize
    <3>6. q \in Seq(Newests) /\ Len(q) = 1 /\ q[1] = n
      BY <3>1, <3>2, <3>3, <3>5, ExceptSeq
    <3>7. q # <<>>
      BY <3>6
    <3> QED
      BY <1>11, <2>1, <3>1, <3>6, <3>7
  <2> QED
    BY <1>1, <2>2, <2>3
<1>14. ListOK(s)'
  <2> SUFFICES ASSUME <<s, "create">> \notin contended
               PROVE  /\ Len(vods'[s]) <= 1
                      /\ \A g \in Finalizers : Writes(g, s, "create")' => vods'[s] = <<>>
                      /\ \A g \in Finalizers : Writes(g, s, "repoint")' => vods'[s] # <<>>
                      /\ \A g, h \in Finalizers : Writes(g, s, "create")' /\ Writes(h, s, "create")' => g = h
    BY <1>4 DEF ListOK
  <2>1. vods'[s] # <<>> /\ Len(vods'[s]) = 1
    BY <1>5, <1>13
  <2>2. \A g \in Finalizers : ~ Writes(g, s, "create")'
    BY <1>13
  <2> QED
    BY <2>1, <2>2
<1>15. ASSUME Uncontended(s)
       PROVE  /\ \A g, h \in Finalizers : Writes(g, s, "repoint") /\ Writes(h, s, "repoint") => g = h
              /\ \A g \in Finalizers : Writes(g, s, "repoint") => vods[s][1] < fin[g].newest
              /\ \A g \in Finalizers : Writing(g, s) => fin[g].newest \in KeysOf(s) \cup {0}
              /\ n \in KeysOf(s) \cup {0}
              /\ \A g \in Finalizers : ~ Writing(g, s)'
  <2>1. /\ \A g, h \in Finalizers : Writes(g, s, "repoint") /\ Writes(h, s, "repoint") => g = h
        /\ \A g \in Finalizers : Writes(g, s, "repoint") => vods[s][1] < fin[g].newest
        /\ \A g \in Finalizers : Writing(g, s) => fin[g].newest \in KeysOf(s) \cup {0}
    BY <1>10, <1>15 DEF VodOK, PointOK
  <2>2. Writing(f, s)
    BY <1>1, <1>2 DEF Writing, Writes
  <2>3. \A g \in Finalizers : ~ Writing(g, s)'
    BY <1>11, <1>13, <1>15, <2>1 DEF Writing, Uncontended
  <2> QED
    BY <1>2, <2>1, <2>2, <2>3
<1>16. PointOK(s)'
  <2> SUFFICES ASSUME Uncontended(s)
               PROVE  /\ \A g \in Finalizers : ~ Writing(g, s)'
                      /\ vods'[s][1] \in KeysOf(s) \cup {0}
    BY <1>4, <1>10 DEF PointOK, Uncontended, Writing
  <2> QED
    BY <1>5, <1>13, <1>15 DEF Uncontended
<1>17. AimOK(s)'
  <2> SUFFICES ASSUME Uncontended(s), s \in ended \ broken, NEW m \in KeysOf(s), IsNewest(m, s)
               PROVE  Aimed(s, m)'
    BY <1>4, <1>10 DEF AimOK, Uncontended, IsNewest
  <2>1. Aimed(s, m)
    BY <1>10 DEF VodOK, AimOK
  <2>2. vods'[s] # <<>> /\ vods'[s][1] = n
    BY <1>5, <1>13 DEF Uncontended
  <2>3. CASE At(s, ToFind)
    <3>1. At(s, ToFind)'
      BY <1>1, <1>7, <2>3, AtStep DEF ToFind
    <3> QED
      BY <3>1 DEF Aimed
  <2>4. CASE Unaired(m)
    BY <1>8, <2>4 DEF Aimed
  <2>5. CASE \E g \in Finalizers : Writing(g, s) /\ fin[g].newest = m
    <3>1. PICK g \in Finalizers : Writing(g, s) /\ fin[g].newest = m
      BY <2>5
    <3>2. g = f
      <4>1. Writing(g, s)' \/ g = f
        BY <1>7, <3>1 DEF Writing, Writes
      <4> QED
        BY <1>15, <4>1
    <3>3. vods'[s] # <<>> /\ vods'[s][1] = m
      BY <1>2, <2>2, <3>1, <3>2
    <3> QED
      BY <3>3 DEF Aimed
  <2>6. CASE vods[s] # <<>> /\ vods[s][1] = m
    <3>1. fin[f].pc = "repoint"
      <4>1. fin[f].pc = "create" => vods[s] = <<>>
        BY <1>2, <1>10 DEF VodOK, ListOK, Writes, Uncontended
      <4> QED
        BY <1>1, <2>6, <4>1
    <3>2. m < n /\ n \in KeysOf(s) \cup {0}
      BY <1>2, <1>15, <2>6, <3>1 DEF Writes
    <3>3. m \in Nat /\ m > 0
      BY <1>1, NewestIs
    <3>4. n \in KeysOf(s) => n <= m /\ n \in Nat
      BY <1>1 DEF IsNewest, KeysOf, RowsOK
    <3> QED
      BY <3>2, <3>3, <3>4
  <2> QED
    BY <2>1, <2>3, <2>4, <2>5, <2>6 DEF Aimed
<1>18. VodOK(s)'
  BY <1>12, <1>14, <1>16, <1>17 DEF VodOK
<1> QED
  BY <1>8, <1>9, <1>18 DEF VodInv

LEMMA VodInit ==
  ASSUME Init
  PROVE  VodInv
<1>1. NewKeys
  BY DEF Init, NewKeys, Unaired
<1>2. \A s, n : n \notin KeysOf(s)
  BY DEF Init, KeysOf
<1>3. \A f \in Finalizers, s \in Streams, w \in {"create", "repoint"} : ~ Writes(f, s, w)
  BY DEF Init, Writes, NoCall
<1>4. ASSUME NEW s \in Streams PROVE VodOK(s)
  <2>1. vods[s] = <<>> /\ Len(vods[s]) = 0
    BY DEF Init
  <2>2. HasNewest(s) /\ AimOK(s)
    BY <1>2 DEF HasNewest, AimOK
  <2>3. ListOK(s)
    BY <1>3, <2>1 DEF ListOK
  <2>4. PointOK(s)
    BY <1>3, <2>1 DEF PointOK, Writing
  <2> QED
    BY <2>2, <2>3, <2>4 DEF VodOK
<1> QED
  BY <1>1, <1>4 DEF VodInv

LEMMA VodNext ==
  ASSUME SessionInv, VodInv, [Next]_vars
  PROVE  VodInv'
<1>1. ASSUME NEW k \in KeyIds,
             \/ Publish(k) \/ PublishStep(k) \/ PublishDone(k) \/ ExpireCache(k)
             \/ ValidationFails(k) \/ StartFails(k)
      PROVE  VodInv'
  BY <1>1, VodHandler, VodDone
<1>2. ASSUME NEW f \in Finalizers, FinalizeStep(f) \/ FinalizeFails(f)
      PROVE  VodInv'
  BY <1>2, VodSteps, VodFind, VodWrite DEF FinalizeStep
<1>3. CASE AnnounceEnd
  BY <1>3, VodAnnounce
<1>4. ASSUME NEW s \in Streams, \E f \in Requests : EndByOwner(f, s) \/ EndByTimer(f, s)
      PROVE  VodInv'
  BY <1>4, VodEnd
<1>5. CASE InsertKey
  BY <1>5, VodInsert
<1>6. CASE UNCHANGED <<keys, vods, fin, broken, contended, ended, pub, cached, sent>>
  BY <1>6, VodStill DEF Unaired
<1>7. ASSUME \/ \E k \in KeyIds : RevokeKey(k)
             \/ \E s \in Streams : NewStream(s) \/ RotateKeys(s)
             \/ CreateKey \/ RegenerateKey \/ CheckEnded \/ RevokeAll \/ RevokeStep
             \/ UNCHANGED vars
      PROVE  UNCHANGED <<keys, vods, fin, broken, contended, ended, pub, cached, sent>>
  BY <1>7 DEF RevokeKey, NewStream, RotateKeys, CreateKey, RegenerateKey, CheckEnded, RevokeAll,
     RevokeStep, vars, rows, ingest, history, OnlyStudio
<1> QED
  BY <1>1, <1>2, <1>3, <1>4, <1>5, <1>6, <1>7 DEF Next, StudioStep

\* finalizeStream: unless two of them found none, a stream never gets a second Vod; and at rest
\* the Vod of an ended stream points at its newest key, if that key was on air, unless two
\* calls repointed it at once.
THEOREM OneVodHolds == Spec => []OneVod
<1>1. ASSUME SessionInv, VodInv, NEW s \in Streams, <<s, "create">> \notin contended
      PROVE  LET aired == {k \in KeysOf(s) : sent[k].started > 0} IN
             /\ Len(vods[s]) <= 1
             /\ vods[s] # <<>> /\ s \in ended \ live /\ Quiet(s) /\ s \notin broken
                  /\ <<s, "repoint">> \notin contended /\ Newest(KeysOf(s)) \in aired
                => vods[s][1] = Newest(KeysOf(s))
  <2>1. VodOK(s) /\ RowsOK
    BY <1>1 DEF VodInv, SessionInv, TypesOK
  <2>2. Len(vods[s]) <= 1
    BY <1>1, <2>1 DEF VodOK, ListOK
  <2>3. ASSUME s \in ended, Quiet(s), s \notin broken, <<s, "repoint">> \notin contended,
               Newest(KeysOf(s)) \in KeysOf(s), sent[Newest(KeysOf(s))].started > 0
        PROVE  vods[s][1] = Newest(KeysOf(s))
    <3>1. PICK n \in KeysOf(s) : IsNewest(n, s)
      BY <2>1, <2>3 DEF VodOK, HasNewest
    <3>2. Newest(KeysOf(s)) = n
      BY <2>1, <3>1, NewestIs
    <3>3. Aimed(s, n)
      BY <1>1, <2>1, <2>3, <3>1 DEF VodOK, AimOK, Uncontended
    <3>4. ~ At(s, ToFind) /\ \A f \in Finalizers : ~ Writing(f, s)
      BY <2>3 DEF Quiet, At, Writing, Writes
    <3>5. ~ Unaired(n)
      BY <2>3, <3>2 DEF Unaired
    <3> QED
      BY <3>2, <3>3, <3>4, <3>5 DEF Aimed
  <2> QED
    BY <2>2, <2>3
<1>2. SessionInv /\ VodInv => OneVod
  BY <1>1 DEF OneVod
<1>3. Init => SessionInv /\ VodInv
  BY InitInv, VodInit
<1>4. (SessionInv /\ VodInv) /\ [Next]_vars => (SessionInv /\ VodInv)'
  BY NextInv, VodNext
<1> QED
  BY <1>2, <1>3, <1>4, PTL DEF Spec

----------------------------------------------------------------------------
(* The types.                                                              *)

\* Whatever is live, ended, keyed, finalized or managed is a stream that was made.
MadeOK ==
  /\ live \subseteq made /\ ended \subseteq made /\ keys \in Seq(made)
  /\ \A f \in Finalizers : fin[f].pc # "idle" => fin[f].stream \in made
  /\ studio.pc \in {"createEnded", "regenEnded", "regenRevoke", "rotateRevoke", "insert"}
       => studio.stream \in made

\* Whatever names a key names one that was made; so do the Vods, where they name any.
KeysTyped ==
  /\ cached \cup active \cup lateKeys \cup overtaken \subseteq 1 .. Len(keys)
  /\ \A f \in Finalizers : fin[f].by \in 0 .. Len(keys) /\ fin[f].newest \in 0 .. Len(keys)
VodsTyped == vods \in [Streams -> Seq(0 .. Len(keys))]
StudioTyped ==
  studio \in [pc : StudioSteps, stream : Streams \cup {None}, key : 0 .. Len(keys)]
CountsOK ==
  /\ publishes \in 0 .. MaxPublishes /\ requests \in 0 .. MaxRequests
  /\ failures \in 0 .. MaxFailures
HistoryOK ==
  /\ broken \subseteq Streams /\ contended \subseteq Streams \X {"create", "repoint"}
  /\ crowded \in BOOLEAN

TypeInv == MadeOK /\ KeysTyped /\ VodsTyped /\ StudioTyped /\ CountsOK /\ HistoryOK

LEMMA TypeInit == Init => TypeInv
<1> SUFFICES ASSUME Init PROVE TypeInv
  OBVIOUS
<1>1. Len(keys) = 0 /\ keys \in Seq(made)
  BY EmptySeq DEF Init
<1>2. MadeOK
  BY <1>1 DEF Init, MadeOK, NoCall, NoRequest
<1>3. KeysTyped
  BY <1>1 DEF Init, KeysTyped, NoCall
<1>4. VodsTyped
  BY EmptySeq DEF Init, VodsTyped
<1>5. StudioTyped
  BY <1>1 DEF Init, StudioTyped, NoRequest, StudioSteps
<1>6. CountsOK
  <2>1. \A n \in Nat : 0 \in 0 .. n
    OBVIOUS
  <2>2. MaxPublishes \in Nat /\ MaxRequests \in Nat /\ MaxFailures \in Nat
    BY SessionAssumption
  <2> QED
    BY <2>1, <2>2 DEF Init, CountsOK
<1>7. HistoryOK
  BY DEF Init, HistoryOK
<1> QED
  BY <1>2, <1>3, <1>4, <1>5, <1>6, <1>7 DEF TypeInv

\* The finalizers, as the proofs below see them.
LEMMA FinTypes ==
  ASSUME SessionInv
  PROVE  /\ fin \in [Finalizers -> Finalize] /\ "ingest" \in Finalizers
         /\ pub \in [KeyIds -> PublishSteps]
         /\ \A k \in KeyIds : pub[k] # "none" => k \in 1 .. Len(keys)
         /\ line \subseteq 1 .. Len(keys) /\ Len(keys) \in Nat
         /\ keys \in Seq(Streams) /\ made \subseteq Streams
BY DEF SessionInv, TypesOK, RowsOK, IngestOK, FinOK, Finalizers, KeyIds

\* Only finalizer f changes, to one that is at rest or works for the same stream and the same
\* key; and what it takes for the newest key is what it took before or the newest now.
Changed(f, r) ==
  /\ fin' = [fin EXCEPT ![f] = r]
  /\ \/ r = NoCall
     \/ /\ r.pc # "idle" /\ r.stream = fin[f].stream /\ r.by = fin[f].by
        /\ r.newest \in {fin[f].newest, Newest(KeysOf(fin[f].stream))}

LEMMA ReturnChanges ==
  ASSUME SessionInv, NEW f \in Finalizers, fin' = Returned(f)
  PROVE  \E r : Changed(f, r)
<1>1. fin[f] \in Finalize
  BY FinTypes
<1>2. CASE f = "ingest"
  <2>1. PICK r : r = [fin[f] EXCEPT !.pc = "announce"]
    OBVIOUS
  <2>2. r.pc = "announce" /\ r.stream = fin[f].stream /\ r.by = fin[f].by /\ r.newest = fin[f].newest
    BY <1>1, <2>1 DEF Finalize
  <2>3. fin' = [fin EXCEPT ![f] = r]
    BY <1>2, <2>1 DEF Returned
  <2> QED
    BY <2>2, <2>3 DEF Changed
<1>3. CASE f # "ingest"
  BY <1>3 DEF Returned, Changed
<1> QED
  BY <1>2, <1>3

LEMMA CallChanges ==
  ASSUME SessionInv, NEW f \in Finalizers, NEW pc, pc # "idle", CallTo(f, pc)
  PROVE  \E r : Changed(f, r)
<1>1. PICK r : r = [fin[f] EXCEPT !.pc = pc]
  OBVIOUS
<1>2. r.pc = pc /\ r.stream = fin[f].stream /\ r.by = fin[f].by /\ r.newest = fin[f].newest
  BY <1>1, FinTypes DEF Finalize
<1>3. fin' = [fin EXCEPT ![f] = r]
  BY <1>1 DEF CallTo
<1> QED
  BY <1>2, <1>3 DEF Changed

LEMMA FindVodChanges ==
  ASSUME SessionInv, NEW f \in Finalizers, FinalizeFindVod(f)
  PROVE  \E r : Changed(f, r)
<1>1. PICK s : s = fin[f].stream
  OBVIOUS
<1>2. PICK n : n = Newest(KeysOf(s))
  OBVIOUS
<1>3. PICK step : step = VodStep(s, n)
  OBVIOUS
<1>4. step \in {"create", "repoint", "done"}
  BY <1>3 DEF VodStep
<1>5. CASE fin' = Returned(f)
  BY <1>5, ReturnChanges
<1>6. CASE step # "done" /\ fin' = [fin EXCEPT ![f].pc = step, ![f].newest = n]
  <2>1. PICK r : r = [fin[f] EXCEPT !.pc = step, !.newest = n]
    OBVIOUS
  <2>2. r.pc = step /\ r.stream = fin[f].stream /\ r.by = fin[f].by /\ r.newest = n
    BY <2>1, FinTypes DEF Finalize
  <2>3. fin' = [fin EXCEPT ![f] = r]
    BY <1>6, <2>1, FinTypes
  <2> QED
    BY <1>1, <1>2, <1>4, <1>6, <2>2, <2>3 DEF Changed
<1> QED
  BY <1>1, <1>2, <1>3, <1>5, <1>6 DEF FinalizeFindVod

LEMMA FinalizeChanges ==
  ASSUME SessionInv, NEW f \in Finalizers, FinalizeStep(f) \/ FinalizeFails(f)
  PROVE  fin[f].pc # "idle" /\ \E r : Changed(f, r)
<1>1. fin[f].pc # "idle"
  BY DEF FinalizeStep, FinalizeRead, FinalizeUpdate, FinalizeRevoke, FinalizeFindVod, FinalizeVod,
         FinalizeFails
<1>2. CASE fin' = Returned(f)
  BY <1>1, <1>2, ReturnChanges
<1>3. CASE CallTo(f, "update") \/ CallTo(f, "revoke") \/ CallTo(f, "findVod")
  BY <1>1, <1>3, CallChanges
<1>4. CASE FinalizeFindVod(f)
  BY <1>1, <1>4, FindVodChanges
<1> QED
  BY <1>1, <1>2, <1>3, <1>4
     DEF FinalizeStep, FinalizeRead, FinalizeUpdate, FinalizeRevoke, FinalizeVod, FinalizeFails

\* The newest key of a stream is one of its keys, or there is none.
LEMMA NewestTyped ==
  ASSUME SessionInv, VodInv, NEW s \in Streams
  PROVE  Newest(KeysOf(s)) \in 0 .. Len(keys)
<1>1. RowsOK /\ HasNewest(s) /\ Len(keys) \in Nat
  BY FinTypes DEF SessionInv, TypesOK, VodInv, VodOK
<1>2. CASE KeysOf(s) = {}
  BY <1>1, <1>2, NewestOfNone
<1>3. CASE KeysOf(s) # {}
  <2>1. PICK n \in KeysOf(s) : IsNewest(n, s)
    BY <1>1, <1>3 DEF HasNewest
  <2>2. Newest(KeysOf(s)) = n
    BY <1>1, <2>1, NewestIs
  <2> QED
    BY <1>1, <2>1, <2>2 DEF KeysOf
<1> QED
  BY <1>2, <1>3

----------------------------------------------------------------------------
\* What a finalizer's step leaves of the two parts that speak of finalizers.
LEMMA ChangedTypes ==
  ASSUME SessionInv, VodInv, TypeInv, NEW f \in Finalizers, NEW r, fin[f].pc # "idle", Changed(f, r),
         UNCHANGED <<made, keys, cached, active, lateKeys, overtaken, studio>>,
         live' \subseteq live, ended' \subseteq ended \cup {fin[f].stream}
  PROVE  MadeOK' /\ KeysTyped' /\ StudioTyped'
<1> USE DEF TypeInv
<1>1. \A g \in Finalizers : fin'[g] = IF g = f THEN r ELSE fin[g]
  BY FinTypes DEF Changed
<1>2. fin[f].stream \in made /\ fin[f].stream \in Streams
  BY FinTypes DEF MadeOK
<1>3. r.pc # "idle" => r.stream \in made
  BY <1>2 DEF Changed, NoCall
<1>4. r.by \in 0 .. Len(keys) /\ r.newest \in 0 .. Len(keys)
  <2>1. NoCall.by = 0 /\ NoCall.newest = 0 /\ 0 \in 0 .. Len(keys)
    BY FinTypes DEF NoCall
  <2>2. Newest(KeysOf(fin[f].stream)) \in 0 .. Len(keys)
    BY <1>2, NewestTyped
  <2> QED
    BY <2>1, <2>2 DEF Changed, KeysTyped
<1>5. MadeOK'
  BY <1>1, <1>2, <1>3 DEF MadeOK
<1>6. KeysTyped'
  BY <1>1, <1>4 DEF KeysTyped
<1>7. StudioTyped'
  BY DEF StudioTyped
<1> QED
  BY <1>5, <1>6, <1>7

LEMMA FinalizeTypes ==
  ASSUME SessionInv, VodInv, TypeInv, NEW f \in Finalizers, FinalizeStep(f) \/ FinalizeFails(f)
  PROVE  TypeInv'
<1> USE DEF TypeInv
<1>1. fin[f].pc # "idle" /\ \E r : Changed(f, r)
  BY FinalizeChanges
<1>2. fin[f].stream \in made /\ fin[f].stream \in Streams
  BY <1>1, FinTypes DEF MadeOK
<1>3. /\ UNCHANGED <<made, keys, cached, active, lateKeys, overtaken, studio, publishes, requests, crowded>>
      /\ live' \subseteq live /\ ended' \subseteq ended \cup {fin[f].stream}
  BY DEF FinalizeStep, FinalizeRead, FinalizeUpdate, FinalizeRevoke, FinalizeFindVod, FinalizeVod,
         FinalizeFails, rows, ingest, history, Offline
<1>4. MadeOK' /\ KeysTyped' /\ StudioTyped'
  BY <1>1, <1>3, ChangedTypes
<1>5. VodsTyped'
  <2>1. CASE vods' = vods
    BY <1>3, <2>1 DEF VodsTyped
  <2>2. CASE FinalizeVod(f)
    <3>1. PICK s \in Streams : s = fin[f].stream
      BY <1>2
    <3>2. PICK n \in 0 .. Len(keys) : n = fin[f].newest
      BY DEF KeysTyped
    <3>3. vods[s] \in Seq(0 .. Len(keys))
      BY DEF VodsTyped
    <3>4. /\ Append(vods[s], n) \in Seq(0 .. Len(keys))
          /\ [vods[s] EXCEPT ![Len(vods[s])] = n] \in Seq(0 .. Len(keys))
      BY <3>3, VodLists
    <3>5. \/ vods' = [vods EXCEPT ![s] = Append(vods[s], n)]
          \/ vods' = [vods EXCEPT ![s] = [vods[s] EXCEPT ![Len(vods[s])] = n]]
      BY <2>2, <3>1, <3>2 DEF FinalizeVod, VodsTyped
    <3> QED
      BY <1>3, <3>4, <3>5 DEF VodsTyped
  <2> QED
    BY <2>1, <2>2 DEF FinalizeStep, FinalizeRead, FinalizeUpdate, FinalizeRevoke, FinalizeFindVod,
                      FinalizeFails, rows
<1>6. CountsOK'
  <2>1. failures' = failures \/ (failures < MaxFailures /\ failures' = failures + 1)
    BY DEF FinalizeStep, FinalizeRead, FinalizeUpdate, FinalizeRevoke, FinalizeFindVod, FinalizeVod,
           FinalizeFails
  <2>2. MaxFailures \in Nat
    BY SessionAssumption
  <2> QED
    BY <1>3, <2>1, <2>2 DEF CountsOK
<1>7. HistoryOK'
  <2>1. broken' = broken \/ broken' = broken \cup {fin[f].stream}
    BY DEF FinalizeStep, FinalizeRead, FinalizeUpdate, FinalizeRevoke, FinalizeFindVod, FinalizeVod,
           FinalizeFails, history
  <2>2. contended' = contended \/ \E step \in {"create", "repoint"} :
                                    contended' = contended \cup {<<fin[f].stream, step>>}
    <3>1. CASE FinalizeFindVod(f)
      <4>1. PICK step : step = VodStep(fin[f].stream, Newest(KeysOf(fin[f].stream)))
        OBVIOUS
      <4>2. step \in {"create", "repoint", "done"}
        BY <4>1 DEF VodStep
      <4>3. \/ contended' = contended
            \/ step # "done" /\ contended' = contended \cup {<<fin[f].stream, step>>}
        BY <3>1, <4>1 DEF FinalizeFindVod
      <4> QED
        BY <4>2, <4>3
    <3> QED
      BY <3>1 DEF FinalizeStep, FinalizeRead, FinalizeUpdate, FinalizeRevoke, FinalizeVod,
                  FinalizeFails, history
  <2> QED
    BY <1>2, <1>3, <2>1, <2>2 DEF HistoryOK
<1> QED
  BY <1>4, <1>5, <1>6, <1>7

\* on_publish, and the cache.
LEMMA HandlerTypes ==
  ASSUME SessionInv, TypeInv, NEW k \in KeyIds,
         Publish(k) \/ PublishStep(k) \/ ExpireCache(k) \/ ValidationFails(k) \/ StartFails(k)
  PROVE  TypeInv'
<1> USE DEF TypeInv
<1> USE DEF PublishStep, FindKey, CheckKeyStream, CountLive, StartCount, StartUpdate, AnnounceStart,
            ValidationFails, StartFails, Publish, ExpireCache, Reject, Proceed, Validated
<1>1. UNCHANGED <<made, keys, vods, fin, studio, requests, lateKeys, overtaken, broken, contended>>
  BY DEF rows, history
<1>2. k \in 1 .. Len(keys) \/ ExpireCache(k)
  BY FinTypes DEF Made
<1>3. live' \subseteq live \cup {keys[k]} /\ ended' \subseteq ended
      /\ (live' = live \/ k \in 1 .. Len(keys))
  BY <1>2 DEF rows
<1>4. MadeOK'
  <2>1. k \in 1 .. Len(keys) => keys[k] \in made
    BY ElementOfSeq DEF MadeOK
  <2> QED
    BY <1>1, <1>3, <2>1 DEF MadeOK
<1>5. KeysTyped'
  <2>1. cached' \subseteq cached \cup {k} /\ active' \subseteq active \cup {k}
        /\ ((cached' \subseteq cached /\ active' \subseteq active) \/ k \in 1 .. Len(keys))
    BY <1>2 DEF ingest
  <2> QED
    BY <1>1, <2>1 DEF KeysTyped
<1>6. VodsTyped' /\ StudioTyped'
  BY <1>1 DEF VodsTyped, StudioTyped
<1>7. CountsOK'
  <2>1. /\ (publishes' = publishes \/ (publishes < MaxPublishes /\ publishes' = publishes + 1))
        /\ (failures' = failures \/ (failures < MaxFailures /\ failures' = failures + 1))
    OBVIOUS
  <2>2. MaxFailures \in Nat /\ MaxPublishes \in Nat
    BY SessionAssumption
  <2> QED
    BY <1>1, <2>1, <2>2 DEF CountsOK
<1>8. HistoryOK'
  <2>1. crowded' = crowded \/ crowded' = (crowded \/ \E j \in KeyIds \ {k} : pub[j] = "startUpdate")
    BY DEF history
  <2> QED
    BY <1>1, <2>1 DEF HistoryOK
<1> QED
  BY <1>4, <1>5, <1>6, <1>7, <1>8

\* A call of finalizeStream, for a stream that was made.
LEMMA CallTypes ==
  ASSUME SessionInv, TypeInv, NEW f \in Finalizers, NEW s \in made, NEW k \in 0 .. Len(keys),
         Call(f, s, k), UNCHANGED <<rows, studio, lateKeys>>,
         cached' \subseteq cached, active' \subseteq active, overtaken' \subseteq 1 .. Len(keys)
  PROVE  MadeOK' /\ KeysTyped' /\ VodsTyped' /\ StudioTyped'
<1> USE DEF TypeInv, rows
<1>1. PICK r : r = [pc |-> "read", stream |-> s, by |-> k, newest |-> 0]
  OBVIOUS
<1>2. r.stream = s /\ r.by = k /\ r.newest = 0
  BY <1>1
<1>3. \A g \in Finalizers : fin'[g] = IF g = f THEN r ELSE fin[g]
  BY <1>1, FinTypes DEF Call
<1>4. MadeOK'
  BY <1>2, <1>3 DEF MadeOK
<1>5. 0 \in 0 .. Len(keys)
  BY FinTypes
<1>6. KeysTyped'
  BY <1>2, <1>3, <1>5 DEF KeysTyped
<1> QED
  BY <1>4, <1>6 DEF VodsTyped, StudioTyped

LEMMA EndTypes ==
  ASSUME SessionInv, TypeInv,
         \/ \E k \in KeyIds : PublishDone(k)
         \/ \E s \in Streams, f \in Requests : EndByOwner(f, s) \/ EndByTimer(f, s)
         \/ AnnounceEnd
  PROVE  TypeInv'
<1> USE DEF TypeInv
<1>1. CountsOK' /\ HistoryOK'
  BY DEF PublishDone, EndByOwner, EndByTimer, AnnounceEnd, CountsOK, HistoryOK, history
<1>2. ASSUME NEW k \in KeyIds, PublishDone(k) PROVE TypeInv'
  <2>1. k \in 1 .. Len(keys) /\ k \in 0 .. Len(keys) /\ overtaken' \subseteq 1 .. Len(keys)
    BY <1>2, FinTypes DEF PublishDone, KeysTyped
  <2>2. keys[k] \in made
    BY <2>1, ElementOfSeq DEF MadeOK
  <2>3. CASE UNCHANGED <<active, cached, fin>>
    <3>1. MadeOK'
      BY <1>2, <2>3 DEF PublishDone, MadeOK, rows
    <3>2. KeysTyped'
      BY <1>2, <2>1, <2>3 DEF PublishDone, KeysTyped, rows
    <3>3. VodsTyped' /\ StudioTyped'
      BY <1>2 DEF PublishDone, VodsTyped, StudioTyped, rows
    <3> QED
      BY <1>1, <3>1, <3>2, <3>3
  <2>4. CASE Call("ingest", keys[k], k) /\ active' = active \ {k} /\ cached' = Evicted(k)
    <3>1. UNCHANGED <<rows, studio, lateKeys>>
      BY <1>2 DEF PublishDone
    <3> QED
      BY <1>1, <2>1, <2>2, <2>4, <3>1, FinTypes, CallTypes DEF Evicted
  <2> QED
    BY <1>2, <2>3, <2>4 DEF PublishDone
<1>3. ASSUME NEW s \in Streams, NEW f \in Requests, EndByOwner(f, s) \/ EndByTimer(f, s) PROVE TypeInv'
  <2>1. /\ s \in made /\ f \in Finalizers /\ Call(f, s, 0)
        /\ UNCHANGED <<rows, studio, cached, active, lateKeys, overtaken>>
    BY <1>3 DEF EndByOwner, EndByTimer, Stale, Finalizers, ingest, history
  <2>2. 0 \in 0 .. Len(keys) /\ overtaken' \subseteq 1 .. Len(keys)
    BY <2>1, FinTypes DEF KeysTyped
  <2> QED
    BY <1>1, <2>1, <2>2, CallTypes
<1>4. CASE AnnounceEnd
  <2>1. /\ \A g \in Finalizers : fin'[g] = IF g = "ingest" THEN NoCall ELSE fin[g]
        /\ UNCHANGED <<rows, studio, cached, active, lateKeys, overtaken>>
    BY <1>4, FinTypes DEF AnnounceEnd, history
  <2>2. MadeOK'
    BY <2>1 DEF MadeOK, NoCall, rows
  <2>3. KeysTyped'
    <3>1. 0 \in 0 .. Len(keys) /\ NoCall.by = 0 /\ NoCall.newest = 0
      BY FinTypes DEF NoCall
    <3> QED
      BY <2>1, <3>1 DEF KeysTyped, rows
  <2>4. VodsTyped' /\ StudioTyped'
    BY <2>1 DEF VodsTyped, StudioTyped, rows
  <2> QED
    BY <1>1, <2>2, <2>3, <2>4
<1> QED
  BY <1>2, <1>3, <1>4

\* The studio is at a step for a stream that was made, or for a key, or at none.
Asks(n) ==
  \E pc \in StudioSteps, s \in Streams \cup {None} :
    /\ studio' = [pc |-> pc, stream |-> s, key |-> n]
    /\ pc \in {"createEnded", "regenEnded", "regenRevoke", "rotateRevoke", "insert"} => s \in made'

\* The studio asks, or goes on; no key is inserted.
LEMMA AskTypes ==
  ASSUME SessionInv, TypeInv,
         \/ \E k \in KeyIds : RevokeKey(k)
         \/ \E s \in Streams : NewStream(s) \/ RotateKeys(s)
         \/ CreateKey \/ RegenerateKey \/ CheckEnded \/ RevokeAll \/ RevokeStep
  PROVE  TypeInv'
<1> USE DEF TypeInv
<1> USE DEF RevokeKey, NewStream, RotateKeys, CreateKey, RegenerateKey, CheckEnded, RevokeAll, RevokeStep
<1>1. /\ made \subseteq made'
      /\ UNCHANGED <<live, ended, keys, vods, cached, active, fin, publishes, failures, history>>
  BY DEF OnlyStudio, rows, ingest
<1>2. requests' = requests \/ (requests < MaxRequests /\ requests' = requests + 1)
  BY DEF NewRequest
<1>3. CountsOK' /\ HistoryOK'
  BY <1>1, <1>2, SessionAssumption DEF CountsOK, HistoryOK, history
<1>4. KeysTyped' /\ VodsTyped'
  BY <1>1 DEF KeysTyped, VodsTyped, history
<1>5. made' \subseteq Streams /\ keys \in Seq(made')
  BY <1>1, SeqMonotonic, NextInv, FinTypes DEF MadeOK, OnlyStudio, rows
<1>6. 0 \in 0 .. Len(keys) /\ Len(keys) \in Nat
  BY FinTypes
<1>7. \E n \in 0 .. Len(keys) : Asks(n)
  <2> USE DEF Asks, Request, NoRequest, StudioSteps
  <2>1. ASSUME NEW k \in KeyIds, RevokeKey(k) PROVE \E n \in 0 .. Len(keys) : Asks(n)
    <3>1. k \in 0 .. Len(keys)
      BY <1>6, <2>1 DEF Unrevoked
    <3>2. studio' = [pc |-> "revokeCount", stream |-> None, key |-> k]
      BY <2>1
    <3>3. Asks(k)
      BY <3>2
    <3> QED
      BY <3>1, <3>3
  <2>2. ASSUME NEW s \in Streams, NewStream(s) \/ RotateKeys(s) PROVE Asks(0)
    BY <1>1, <2>2
  <2>3. ASSUME CreateKey \/ RegenerateKey PROVE Asks(0)
    <3>1. keys[Len(keys)] \in made /\ made \subseteq Streams
      <4>1. Len(keys) \in 1 .. Len(keys)
        BY <2>3, FinTypes, EmptySeq
      <4> QED
        BY <4>1, FinTypes, ElementOfSeq DEF MadeOK
    <3>2. \E pc \in {"createEnded", "regenEnded"} : Request(pc, keys[Len(keys)], 0)
      BY <2>3
    <3> QED
      BY <1>1, <3>1, <3>2
  <2>4. ASSUME CheckEnded PROVE Asks(0)
    <3>1. studio.stream \in made /\ studio.stream \in Streams
      BY <2>4, FinTypes DEF MadeOK
    <3> QED
      BY <1>1, <2>4, <3>1
  <2>5. ASSUME RevokeAll PROVE Asks(0)
    <3>1. studio.stream \in made /\ studio.stream \in Streams
      BY <2>5, FinTypes DEF MadeOK
    <3> QED
      BY <1>1, <2>5, <3>1
  <2>6. ASSUME RevokeStep PROVE Asks(0) \/ (Asks(studio.key) /\ studio.key \in 0 .. Len(keys))
    BY <2>6 DEF StudioTyped
  <2> QED
    BY <1>6, <2>1, <2>2, <2>3, <2>4, <2>5, <2>6
<1>8. MadeOK' /\ StudioTyped'
  BY <1>1, <1>5, <1>7 DEF Asks, MadeOK, StudioTyped
<1> QED
  BY <1>3, <1>4, <1>8

\* A new key leaves every key there was, and what names one.
LEMMA InsertTypes ==
  ASSUME SessionInv, TypeInv, InsertKey
  PROVE  TypeInv'
<1> USE DEF TypeInv
<1>1. UNCHANGED <<made, live, ended, vods, cached, active, fin, publishes, requests, failures,
                  overtaken, broken, contended, crowded>>
  BY DEF InsertKey, OnlyStudio, ingest
<1>2. studio.stream \in made /\ keys \in Seq(made) /\ Len(keys) \in Nat
  BY FinTypes DEF InsertKey, MadeOK
<1>3. /\ keys' \in Seq(made) /\ Len(keys') \in Nat /\ Len(keys) <= Len(keys')
      /\ lateKeys' \subseteq lateKeys \cup 1 .. Len(keys')
  <2>1. CASE keys' = Append(keys, studio.stream) /\ lateKeys' \subseteq lateKeys \cup {Len(keys) + 1}
    <3>1. keys' \in Seq(made) /\ Len(keys') = Len(keys) + 1
      BY <1>2, <2>1, AppendProperties
    <3> QED
      BY <1>2, <2>1, <3>1
  <2>2. CASE UNCHANGED <<keys, lateKeys>>
    BY <1>2, <2>2
  <2> QED
    BY <2>1, <2>2 DEF InsertKey
<1>4. 0 .. Len(keys) \subseteq 0 .. Len(keys') /\ 1 .. Len(keys) \subseteq 1 .. Len(keys')
  BY <1>2, <1>3
<1>5. studio' = NoRequest
  BY DEF InsertKey
<1>6. MadeOK'
  BY <1>1, <1>3, <1>5 DEF MadeOK, NoRequest
<1>7. KeysTyped'
  BY <1>1, <1>3, <1>4 DEF KeysTyped
<1>8. VodsTyped'
  <2>1. Seq(0 .. Len(keys)) \subseteq Seq(0 .. Len(keys'))
    BY <1>4, SeqMonotonic
  <2> QED
    BY <1>1, <2>1 DEF VodsTyped
<1>9. StudioTyped'
  BY <1>3, <1>5 DEF StudioTyped, NoRequest, StudioSteps
<1>10. CountsOK' /\ HistoryOK'
  BY <1>1 DEF CountsOK, HistoryOK
<1> QED
  BY <1>6, <1>7, <1>8, <1>9, <1>10

LEMMA TypeStutter ==
  ASSUME TypeInv, UNCHANGED vars
  PROVE  TypeInv'
BY DEF TypeInv, MadeOK, KeysTyped, VodsTyped, StudioTyped, CountsOK, HistoryOK, vars, rows, ingest,
       history

LEMMA TypeNext ==
  ASSUME SessionInv, VodInv, TypeInv, [Next]_vars
  PROVE  TypeInv'
<1>1. ASSUME NEW k \in KeyIds,
             \/ Publish(k) \/ PublishStep(k) \/ PublishDone(k) \/ ExpireCache(k)
             \/ ValidationFails(k) \/ StartFails(k) \/ RevokeKey(k)
      PROVE  TypeInv'
  BY <1>1, HandlerTypes, EndTypes, AskTypes
<1>2. ASSUME NEW f \in Finalizers, FinalizeStep(f) \/ FinalizeFails(f)
      PROVE  TypeInv'
  BY <1>2, FinalizeTypes
<1>3. CASE AnnounceEnd
  BY <1>3, EndTypes
<1>4. ASSUME NEW s \in Streams,
             \/ NewStream(s) \/ RotateKeys(s)
             \/ \E f \in Requests : EndByOwner(f, s) \/ EndByTimer(f, s)
      PROVE  TypeInv'
  BY <1>4, AskTypes, EndTypes
<1>5. CASE CreateKey \/ RegenerateKey
  BY <1>5, AskTypes
<1>6. CASE StudioStep
  BY <1>6, AskTypes, InsertTypes DEF StudioStep
<1>7. CASE UNCHANGED vars
  BY <1>7, TypeStutter
<1> QED
  BY <1>1, <1>2, <1>3, <1>4, <1>5, <1>6, <1>7 DEF Next

\* Every variable keeps its type: whatever the database, the validation cache and
\* activeStreams of rtmp-ingest, a finalizer or a Vod names is a row that was made, and the
\* failures and requests stay within their bounds.
THEOREM SessionTypeCorrect == Spec => []TypeOK
<1>1. SessionInv /\ TypeInv => TypeOK
  <2> SUFFICES ASSUME SessionInv, TypeInv PROVE TypeOK
    OBVIOUS
  <2>1. Len(keys) \in Nat /\ Len(keys) <= MaxKeys /\ MaxKeys \in Nat
    BY FinTypes, SessionAssumption DEF SessionInv, TypesOK, RowsOK
  <2>2. 0 .. Len(keys) \subseteq 0 .. MaxKeys
    BY <2>1
  <2>3. /\ made \subseteq Streams /\ live \subseteq made /\ ended \subseteq made
        /\ keys \in Seq(made)
        /\ revoked \cup cached \cup active \cup line \cup lateKeys \cup overtaken
             \subseteq 1 .. Len(keys)
        /\ vods \in [Streams -> Seq(0 .. Len(keys))]
    BY DEF SessionInv, TypesOK, RowsOK, IngestOK, TypeInv, MadeOK, KeysTyped, VodsTyped
  <2>4. pub \in [KeyIds -> PublishSteps] /\ sent \in [KeyIds -> [started : Nat, ended : Nat]]
    BY DEF SessionInv, TypesOK, IngestOK, Counts
  <2>5. fin \in [Finalizers -> [pc : FinalizeSteps, stream : Streams \cup {None},
                                by : 0 .. MaxKeys, newest : 0 .. MaxKeys]]
    <3> DEFINE Small == [pc : FinalizeSteps, stream : Streams \cup {None},
                         by : 0 .. MaxKeys, newest : 0 .. MaxKeys]
    <3>1. ASSUME NEW f \in Finalizers PROVE fin[f] \in Small
      <4>1. fin[f] \in Finalize
        BY FinTypes
      <4>2. fin[f].by \in 0 .. MaxKeys /\ fin[f].newest \in 0 .. MaxKeys
        BY <2>2 DEF TypeInv, KeysTyped
      <4> QED
        BY <4>1, <4>2 DEF Finalize
    <3> QED
      BY <3>1, FinTypes
  <2>6. studio \in [pc : StudioSteps, stream : Streams \cup {None}, key : 0 .. MaxKeys]
    BY <2>2 DEF TypeInv, StudioTyped
  <2>7. /\ publishes \in 0 .. MaxPublishes /\ requests \in 0 .. MaxRequests
        /\ failures \in 0 .. MaxFailures
        /\ broken \subseteq Streams /\ contended \subseteq Streams \X {"create", "repoint"}
        /\ crowded \in BOOLEAN
    BY DEF TypeInv, CountsOK, HistoryOK
  <2> QED
    BY <2>1, <2>3, <2>4, <2>5, <2>6, <2>7 DEF TypeOK
<1>2. Init => SessionInv /\ VodInv /\ TypeInv
  BY InitInv, VodInit, TypeInit
<1>3. (SessionInv /\ VodInv /\ TypeInv) /\ [Next]_vars => (SessionInv /\ VodInv /\ TypeInv)'
  BY NextInv, VodNext, TypeNext
<1> QED
  BY <1>1, <1>2, <1>3, PTL DEF Spec
=============================================================================

------------------------------ MODULE KeyTable ------------------------------
(***************************************************************************)
(* The stream keys of one creator in auth-service, and the requests of the *)
(* dashboard that read and change them, one action per database call: two  *)
(* requests interleave at every await.                                     *)
(*                                                                         *)
(* A stream and a key are numbers in the order of createdAt.  Stream 1 is  *)
(* the one the studio page is open for.  finalizeStream is one step here;  *)
(* its own steps are in StreamSession.                                     *)
(***************************************************************************)
EXTENDS Naturals, Sequences, FiniteSets

CONSTANTS
  Calls,         \* bound: requests at a time
  MaxActiveKeys, \* maxActiveStreamKeys of the creator's plan
  MaxKeys,       \* bound: StreamKey rows
  MaxFailures    \* bound: requests that fail or whose answer is lost

ASSUME KeyTableAssumption ==
  IsFiniteSet(Calls) /\ {MaxActiveKeys, MaxKeys, MaxFailures} \subseteq Nat /\ MaxActiveKeys > 0

VARIABLES
  keyOf,     \* StreamKey rows: keyOf[k] is the streamId of key k
  active,    \* keys without revokedAt
  streams,   \* Stream rows made
  live,      \* Stream rows with isLive
  ended,     \* Stream rows with endedAt
  call,      \* call[c]: a request of a page
  failures,
  uncounted, \* history: keys made without a count of the others that still held
  unseen     \* history: the keys changed and the keys page was not told

rows == <<keyOf, active, streams, live, ended>>
table == <<rows, call, failures, uncounted, unseen>>

\* A request: its page, operation, argument and next step; what it has read of the stream
\* and of the keys; and whether what it counted no longer holds (history).
Idle == [by |-> "nobody", op |-> "none", at |-> "idle", arg |-> 0,
         row |-> [live |-> FALSE, ended |-> FALSE], saw |-> {}, late |-> FALSE]
Made == 1 .. Len(keyOf)

Steps == {"idle", "find", "count", "stream", "keys", "update", "revoke", "insert", "answered", "refused"}
CallRecord ==
  [by : {"nobody", "keys", "studio"},
   op : {"none", "list", "create", "revoke", "regenerate", "rotate", "detail", "end"},
   at : Steps,
   arg : Nat, row : [live : BOOLEAN, ended : BOOLEAN], saw : SUBSET Nat, late : BOOLEAN]
TableTypeOK ==
  /\ keyOf \in Seq(Nat) /\ streams \in Nat
  /\ active \subseteq Made /\ uncounted \subseteq Made
  /\ live \subseteq Nat /\ ended \subseteq Nat
  /\ call \in [Calls -> CallRecord]
  /\ failures \in Nat /\ unseen \in BOOLEAN

Of(s) == {k \in Made : keyOf[k] = s}
Ended(s) == s \in ended /\ s \notin live

----------------------------------------------------------------------------
(* A request: sent by a page, answered or refused once it is done.         *)

FirstStep(op) ==
  CASE op \in {"list", "revoke"} -> "find"
    [] op = "create" -> "count"
    [] OTHER -> "stream"

NewCall(by, op, arg) == [Idle EXCEPT !.by = by, !.op = op, !.at = FirstStep(op), !.arg = arg]
Request(c, by, op, arg) == call' = [call EXCEPT ![c] = NewCall(by, op, arg)]

At(c, op, at) == call[c].op = op /\ call[c].at = at
Moved(c, at) == [call[c] EXCEPT !.at = at]
Proceed(c, at) ==
  /\ call' = [call EXCEPT ![c] = Moved(c, at)]
  /\ UNCHANGED <<rows, failures, uncounted, unseen>>
Refuse(c) == Proceed(c, "refused")
Answer(c, saw) ==
  /\ call' = [call EXCEPT ![c] = [Moved(c, "answered") EXCEPT !.saw = saw]]
  /\ UNCHANGED <<rows, failures, uncounted, unseen>>

Unseen(c) == unseen' = (unseen \/ call[c].by # "keys")

\* A key is made: whoever has counted before this no longer knows the number.
Counted(x) == call[x].at = "insert" \/ At(x, "create", "stream")
Insert(c, s) ==
  LET k == Len(keyOf) + 1 IN
    /\ k <= MaxKeys
    /\ keyOf' = Append(keyOf, s) /\ active' = active \cup {k}
    /\ streams' = IF s > streams THEN s ELSE streams
    /\ uncounted' = IF call[c].late THEN uncounted \cup {k} ELSE uncounted
    /\ call' = [x \in Calls |->
                  IF x = c THEN [Moved(c, "answered") EXCEPT !.saw = {k}]
                  ELSE [call[x] EXCEPT !.late = @ \/ Counted(x)]]
    /\ Unseen(c) /\ UNCHANGED <<live, ended, failures>>

\* Keys are revoked: whoever has seen that another one is left may be wrong.
Without(S) ==
  /\ active' = active \ S
  /\ UNCHANGED <<keyOf, streams, uncounted>>
Warned(c, at) == [x \in Calls |->
  IF x = c THEN Moved(c, at)
  ELSE [call[x] EXCEPT !.late = @ \/ At(x, "revoke", "update")]]

----------------------------------------------------------------------------
(* stream-key.controller, user.controller.                                 *)

\* getStreamKeys: the keys that are not revoked; for want of any, a stream and a key.
ListKeys(c) ==
  /\ At(c, "list", "find")
  /\ IF active # {} THEN Answer(c, active) ELSE Proceed(c, "insert")

Bootstrap(c) == At(c, "list", "insert") /\ Insert(c, streams + 1)

\* createStreamKey.  Mutant: one too many.
AboveLimit == Cardinality(active) > MaxActiveKeys
AtLimit == Cardinality(active) >= MaxActiveKeys
CountKeys(c) ==
  /\ At(c, "create", "count")
  /\ IF AtLimit THEN Refuse(c) ELSE Proceed(c, "stream")

\* The stream of the newest key, revoked or not; a new one for the first key.
StreamOfNewest == IF keyOf = <<>> THEN streams + 1 ELSE keyOf[Len(keyOf)]
CheckStream(c) ==
  /\ At(c, "create", "stream")
  /\ IF Ended(StreamOfNewest) THEN Refuse(c)
     ELSE /\ call' = [call EXCEPT ![c] = [Moved(c, "insert") EXCEPT !.arg = StreamOfNewest]]
          /\ UNCHANGED <<rows, failures, uncounted, unseen>>
InsertKey(c) == call[c].op # "list" /\ call[c].at = "insert" /\ Insert(c, call[c].arg)

\* revokeStreamKey: not the last one.  Mutant: it counts none left too late.
NoneLeft == active = {}
LastOne == Cardinality(active) <= 1
FindKey(c) ==
  /\ At(c, "revoke", "find")
  /\ IF call[c].arg \in active THEN Proceed(c, "count") ELSE Refuse(c)
CountLeft(c) ==
  /\ At(c, "revoke", "count")
  /\ IF LastOne THEN Refuse(c) ELSE Proceed(c, "update")
RevokeKey(c) ==
  /\ At(c, "revoke", "update")
  /\ Without({call[c].arg})
  /\ call' = Warned(c, "answered")
  /\ Unseen(c) /\ UNCHANGED <<live, ended, failures>>

\* regenerateStreamKey: every key of the creator gives way to one.
CheckAll(c) ==
  /\ At(c, "regenerate", "stream")
  /\ IF Ended(StreamOfNewest) THEN Refuse(c)
     ELSE /\ call' = [call EXCEPT ![c] = [Moved(c, "revoke") EXCEPT !.arg = StreamOfNewest]]
          /\ UNCHANGED <<rows, failures, uncounted, unseen>>
RevokeAll(c) ==
  /\ At(c, "regenerate", "revoke")
  /\ Without(active)
  /\ call' = Warned(c, "insert")
  /\ Unseen(c) /\ UNCHANGED <<live, ended, failures>>

\* rotateStreamKeys: every key of the stream; nobody counts the others.  The new key takes
\* the place of one that was counted, if there was one.
CheckRotate(c) ==
  /\ At(c, "rotate", "stream")
  /\ IF Ended(call[c].arg) THEN Refuse(c) ELSE Proceed(c, "revoke")
RevokeOfStream(c) ==
  /\ At(c, "rotate", "revoke")
  /\ Without(Of(call[c].arg))
  /\ call' = [Warned(c, "insert") EXCEPT ![c].late = ((active \ uncounted) \cap Of(call[c].arg) = {})]
  /\ Unseen(c) /\ UNCHANGED <<live, ended, failures>>

\* getStreamById: the row, then its keys.
ReadStream(c) ==
  /\ At(c, "detail", "stream")
  /\ call' = [call EXCEPT ![c] = [Moved(c, "keys") EXCEPT
                !.row = [live |-> call[c].arg \in live, ended |-> call[c].arg \in ended]]]
  /\ UNCHANGED <<rows, failures, uncounted, unseen>>
ReadKeys(c) ==
  /\ At(c, "detail", "keys")
  /\ Answer(c, active \cap Of(call[c].arg))

\* endStream and on_publish_done: the stream ends and its keys with it.
Finalized(s) ==
  /\ live' = live \ {s} /\ ended' = ended \cup {s}
  /\ active' = active \ Of(s)
  /\ UNCHANGED <<keyOf, streams, uncounted, failures>>
EndStream(c) ==
  /\ At(c, "end", "stream")
  /\ IF call[c].arg \in ended THEN Refuse(c)
     ELSE Finalized(call[c].arg) /\ call' = Warned(c, "answered") /\ Unseen(c)

ServerStep(c) ==
  \/ ListKeys(c) \/ Bootstrap(c) \/ CountKeys(c) \/ CheckStream(c) \/ InsertKey(c)
  \/ FindKey(c) \/ CountLeft(c) \/ RevokeKey(c) \/ CheckAll(c) \/ RevokeAll(c)
  \/ CheckRotate(c) \/ RevokeOfStream(c) \/ ReadStream(c) \/ ReadKeys(c) \/ EndStream(c)

\* A request fails halfway, or is done and its answer lost.
Fail(c) ==
  /\ call[c].at \notin {"idle", "refused"} /\ failures < MaxFailures
  /\ failures' = failures + 1
  /\ call' = [call EXCEPT ![c] = Moved(c, "refused")]
  /\ unseen' = (unseen \/ (call[c].op # "list" /\ call[c].at \in {"insert", "answered"}))
  /\ UNCHANGED <<rows, uncounted>>

----------------------------------------------------------------------------
(* What others do.                                                         *)

\* OBS goes on air or off: startStreamInternal, on_publish_done.
GoLive ==
  /\ active \cap Of(1) # {} /\ 1 \notin live \cup ended
  /\ live' = live \cup {1}
  /\ UNCHANGED <<keyOf, active, streams, ended, call, failures, uncounted, unseen>>
GoOffline ==
  /\ 1 \in live /\ Finalized(1)
  /\ call' = [x \in Calls |-> [call[x] EXCEPT !.late = @ \/ At(x, "revoke", "update")]]
  /\ unseen' = TRUE

\* createStream of the wizard in another tab: a stream and its key, uncounted.
NewStream ==
  LET k == Len(keyOf) + 1 IN
    /\ k <= MaxKeys
    /\ streams' = streams + 1 /\ keyOf' = Append(keyOf, streams + 1)
    /\ active' = active \cup {k} /\ uncounted' = uncounted \cup {k}
    /\ call' = [x \in Calls |-> [call[x] EXCEPT !.late = @ \/ Counted(x)]]
    /\ unseen' = TRUE
    /\ UNCHANGED <<live, ended, failures>>

TableInit ==
  /\ \E n \in 0 .. MaxActiveKeys : keyOf = [k \in 1 .. n |-> 1]
  /\ active = DOMAIN keyOf /\ streams = IF keyOf = <<>> THEN 0 ELSE 1
  /\ live = {} /\ ended = {}
  /\ failures = 0 /\ uncounted = {} /\ unseen = FALSE
=============================================================================

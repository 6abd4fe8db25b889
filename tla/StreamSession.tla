---------------------------- MODULE StreamSession ----------------------------
(***************************************************************************)
(* The broadcasts of one creator, between auth-service (the Stream,        *)
(* StreamKey and Vod tables) and rtmp-ingest (its validation cache and     *)
(* activeStreams).                                                         *)
(*                                                                         *)
(* Every handler is split at its awaits: one action is what happens        *)
(* between two of them.  Per key there is one on_publish handler; a        *)
(* finalizer is an actor that runs finalizeStream (the on_publish_done     *)
(* handler, "End Broadcast" of the studio, the auto-end job); one further  *)
(* studio request creates, rotates or revokes keys.                        *)
(***************************************************************************)
EXTENDS Naturals, Sequences, FiniteSets

CONSTANTS
  Streams,       \* the Stream rows the creator may make
  MaxKeys,       \* bound: StreamKey rows
  MaxActiveKeys, \* maxActiveStreamKeys of the creator's plan
  MaxLive,       \* maxConcurrentLive of the creator's plan
  MaxPublishes,  \* bound: connections OBS makes
  MaxRequests,   \* bound: requests that manage keys
  MaxFailures,   \* bound: requests to auth-service or its database that fail
  Requests,      \* bound: calls of finalizeStream at a time besides on_publish_done's
  None           \* no stream

ASSUME SessionAssumption ==
  /\ IsFiniteSet(Streams)
  /\ "ingest" \notin Requests
  /\ {MaxKeys, MaxActiveKeys, MaxLive, MaxPublishes, MaxRequests, MaxFailures} \subseteq Nat
  /\ None \notin Streams

KeyIds == 1 .. MaxKeys
Finalizers == Requests \cup {"ingest"}

VARIABLES
  made,      \* Stream rows
  live,      \* rows with isLive
  ended,     \* rows with endedAt
  keys,      \* StreamKey rows by createdAt: keys[k] is the streamId of key k
  revoked,   \* keys with revokedAt
  vods,      \* vods[s]: the Vod rows of s, each the key of its playlistUrl (0: null)
  cached,    \* rtmp-ingest: keys with an unexpired entry in validationCache
  active,    \* rtmp-ingest: keys of activeStreams
  line,      \* keys that OBS has an open RTMP connection for
  pub,       \* pub[k]: the on_publish handler of k
  sent,      \* sent[k]: stream.started and stream.ended events published for k
  fin,       \* fin[f]: the finalizeStream call of f and the handler around it
  studio,    \* the studio request in flight
  publishes, \* connections made so far
  requests,  \* requests that manage keys so far
  failures,  \* failures so far
  lateKeys,  \* history: keys inserted for a stream whose row said ended
  overtaken, \* history: keys whose on_publish_done came during on_publish
  broken,    \* history: streams a finalizeStream failed on
  contended, \* history: <<s, step>> when two finalizers wrote the Vod of s by that step at once
  crowded    \* history: two starts were past the live count at once

rows == <<made, live, ended, keys, revoked, vods>>
ingest == <<cached, active, line, sent>>
history == <<lateKeys, overtaken, broken, contended, crowded>>
vars == <<rows, ingest, pub, fin, studio, requests, publishes, failures, history>>

PublishSteps == {"none", "findKey", "isEnded", "countLive", "startCount",
                 "startUpdate", "announce"}
FinalizeSteps == {"idle", "read", "update", "revoke", "findVod", "create",
                  "repoint", "announce"}
StudioSteps == {"idle", "createEnded", "regenEnded", "regenRevoke",
                "rotateRevoke", "revokeCount", "revokeUpdate", "insert"}

TypeOK ==
  /\ made \subseteq Streams /\ live \subseteq made /\ ended \subseteq made
  /\ keys \in Seq(made) /\ Len(keys) <= MaxKeys
  /\ revoked \cup cached \cup active \cup line \cup lateKeys \cup overtaken
       \subseteq 1 .. Len(keys)
  /\ vods \in [Streams -> Seq(0 .. Len(keys))]
  /\ pub \in [KeyIds -> PublishSteps]
  /\ sent \in [KeyIds -> [started : Nat, ended : Nat]]
  /\ fin \in [Finalizers -> [pc : FinalizeSteps, stream : Streams \cup {None},
                             by : 0 .. MaxKeys, newest : 0 .. MaxKeys]]
  /\ studio \in [pc : StudioSteps, stream : Streams \cup {None}, key : 0 .. MaxKeys]
  /\ publishes \in 0 .. MaxPublishes /\ requests \in 0 .. MaxRequests /\ failures \in 0 .. MaxFailures
  /\ broken \subseteq Streams /\ contended \subseteq Streams \X {"create", "repoint"}
  /\ crowded \in BOOLEAN

NoCall == [pc |-> "idle", stream |-> None, by |-> 0, newest |-> 0]
NoRequest == [pc |-> "idle", stream |-> None, key |-> 0]

Init ==
  /\ made = {} /\ live = {} /\ ended = {}
  /\ keys = <<>> /\ revoked = {}
  /\ vods = [s \in Streams |-> <<>>]
  /\ cached = {} /\ active = {} /\ line = {}
  /\ pub = [k \in KeyIds |-> "none"]
  /\ sent = [k \in KeyIds |-> [started |-> 0, ended |-> 0]]
  /\ fin = [f \in Finalizers |-> NoCall]
  /\ studio = NoRequest
  /\ publishes = 0 /\ requests = 0 /\ failures = 0
  /\ lateKeys = {} /\ overtaken = {}
  /\ broken = {} /\ contended = {} /\ crowded = FALSE

----------------------------------------------------------------------------
(* Reads.                                                                  *)

Made(k) == k \in 1 .. Len(keys)
KeysOf(s) == {k \in 1 .. Len(keys) : keys[k] = s}
Newest(S) == CHOOSE k \in S \cup {0} : \A j \in S : j <= k
Unrevoked == (1 .. Len(keys)) \ revoked

\* isStreamEnded.
IsEnded(s) == s \in ended /\ s \notin live

\* The live sessions other than s, against the plan.  Mutant: one too many.
LiveLimitOffByOne(s) == Cardinality(live \ (ended \cup {s})) > MaxLive
LiveLimitReached(s) == Cardinality(live \ (ended \cup {s})) >= MaxLive

----------------------------------------------------------------------------
(* on_publish of key k.                                                    *)

PublishTo(k, pc) == pub' = [pub EXCEPT ![k] = pc]

\* OBS connects and nginx calls on_publish.  A cached key is accepted at once.
Publish(k) ==
  /\ Made(k) /\ k \notin line /\ pub[k] = "none"
  /\ publishes < MaxPublishes
  /\ publishes' = publishes + 1
  /\ line' = line \cup {k}
  /\ IF k \in cached
       THEN active' = active \cup {k} /\ PublishTo(k, "startCount")
       ELSE PublishTo(k, "findKey") /\ UNCHANGED active
  /\ UNCHANGED <<rows, cached, sent, fin, studio, requests, failures, history>>

\* 401: nginx drops the connection.
Reject(k) ==
  /\ PublishTo(k, "none")
  /\ line' = line \ {k}
  /\ UNCHANGED <<rows, cached, active, sent, fin, studio, requests, publishes, history>>

Proceed(k, pc) ==
  /\ PublishTo(k, pc)
  /\ UNCHANGED <<rows, ingest, fin, studio, requests, publishes, history>>

\* auth-service validateStreamKey: a revoked key, a key of an ended stream and
\* one stream too many are refused.
FindKey(k) ==
  /\ pub[k] = "findKey"
  /\ IF k \in revoked THEN Reject(k) ELSE Proceed(k, "isEnded")
  /\ UNCHANGED failures

CheckKeyStream(k) ==
  /\ pub[k] = "isEnded"
  /\ IF IsEnded(keys[k]) THEN Reject(k) ELSE Proceed(k, "countLive")
  /\ UNCHANGED failures

\* The answer at rtmp-ingest: a valid one is cached, and the stream is registered.
Validated(k) == cached' = cached \cup {k} /\ active' = active \cup {k}

\* The live count, and its answer.  (What may change between the two steps,
\* StartCount looks at again.)
CountLive(k) ==
  /\ pub[k] = "countLive"
  /\ IF LiveLimitReached(keys[k])
       THEN Reject(k)
       ELSE /\ Validated(k)
            /\ PublishTo(k, "startCount")
            /\ UNCHANGED <<rows, line, sent, fin, studio, requests, publishes, history>>
  /\ UNCHANGED failures

\* The call fails or takes 5 s: outside development the key counts as invalid.
ValidationFails(k) ==
  /\ pub[k] \in {"findKey", "isEnded", "countLive"}
  /\ failures < MaxFailures
  /\ failures' = failures + 1
  /\ Reject(k)

\* auth-service startStreamInternal counts the other live streams.  Its 403 is
\* not looked at.
StartCount(k) ==
  /\ pub[k] = "startCount"
  /\ IF LiveLimitReached(keys[k])
       THEN PublishTo(k, "announce") /\ UNCHANGED crowded
       ELSE /\ PublishTo(k, "startUpdate")
            /\ crowded' = (crowded \/ \E j \in KeyIds \ {k} : pub[j] = "startUpdate")
  /\ UNCHANGED <<rows, ingest, fin, studio, requests, publishes, failures,
                 lateKeys, overtaken, broken, contended>>

\* It marks the stream live and clears endedAt.
StartUpdate(k) ==
  /\ pub[k] = "startUpdate"
  /\ live' = live \cup {keys[k]}
  /\ ended' = ended \ {keys[k]}
  /\ PublishTo(k, "announce")
  /\ UNCHANGED <<made, keys, revoked, vods, ingest, fin, studio, requests, publishes,
                 failures, history>>

\* The start request fails: logged only.
StartFails(k) ==
  /\ pub[k] \in {"startCount", "startUpdate"}
  /\ failures < MaxFailures
  /\ failures' = failures + 1
  /\ PublishTo(k, "announce")
  /\ UNCHANGED <<rows, ingest, fin, studio, requests, publishes, history>>

\* stream.started is published and nginx gets its 200.
AnnounceStart(k) ==
  /\ pub[k] = "announce"
  /\ sent' = [sent EXCEPT ![k].started = @ + 1]
  /\ PublishTo(k, "none")
  /\ UNCHANGED <<rows, cached, active, line, fin, studio, requests, publishes, failures, history>>

\* A cache entry reaches its time to live.
ExpireCache(k) ==
  /\ k \in cached
  /\ cached' = cached \ {k}
  /\ UNCHANGED <<rows, active, line, sent, pub, fin, studio, requests, publishes, failures, history>>

----------------------------------------------------------------------------
(* Ending a stream.                                                        *)

Call(f, s, k) == fin' = [fin EXCEPT ![f] =
                   [pc |-> "read", stream |-> s, by |-> k, newest |-> 0]]
CallTo(f, pc) == fin' = [fin EXCEPT ![f].pc = pc]

\* finalizeStream is over: on_publish_done goes on to publish, the others return.
Returned(f) == [fin EXCEPT ![f] =
  IF f = "ingest" THEN [@ EXCEPT !.pc = "announce"] ELSE NoCall]

\* OBS goes away and nginx calls on_publish_done.  Without an entry in
\* activeStreams the handler does nothing; with one it drops the entry and the
\* cached validation and asks auth-service to end the stream.
\* Mutant of Evicted: the cached validation survives.
NotEvicted(k) == cached
Evicted(k) == cached \ {k}
PublishDone(k) ==
  /\ k \in line
  /\ line' = line \ {k}
  /\ overtaken' = IF pub[k] = "none" THEN overtaken ELSE overtaken \cup {k}
  /\ IF k \in active
       THEN /\ fin["ingest"].pc = "idle"
            /\ active' = active \ {k}
            /\ cached' = Evicted(k)
            /\ Call("ingest", keys[k], k)
       ELSE UNCHANGED <<active, cached, fin>>
  /\ UNCHANGED <<rows, sent, pub, studio, requests, publishes, failures, lateKeys,
                 broken, contended, crowded>>

\* "End Broadcast" of the studio.
EndByOwner(f, s) ==
  /\ s \in made
  /\ fin[f].pc = "idle"
  /\ Call(f, s, 0)
  /\ UNCHANGED <<rows, ingest, pub, studio, requests, publishes, failures, history>>

\* autoEndInactiveStreams: a stream offline for two hours and not ended; nothing
\* looks again before finalizeStream is called.
\* Mutant of Stale: the filter on endedAt is inverted.
StaleInverted == ended \ live
Stale == made \ (live \cup ended)
EndByTimer(f, s) ==
  /\ s \in Stale
  /\ fin[f].pc = "idle"
  /\ Call(f, s, 0)
  /\ UNCHANGED <<rows, ingest, pub, studio, requests, publishes, failures, history>>

\* finalizeStream reads the row; already ended, it returns.
FinalizeRead(f) ==
  /\ fin[f].pc = "read"
  /\ IF IsEnded(fin[f].stream) THEN fin' = Returned(f) ELSE CallTo(f, "update")
  /\ UNCHANGED <<rows, ingest, pub, studio, requests, publishes, failures, history>>

\* Mutant of Offline: endedAt is set, isLive stays.
StillLive(s) == live
Offline(s) == live \ {s}
FinalizeUpdate(f) ==
  /\ fin[f].pc = "update"
  /\ live' = Offline(fin[f].stream)
  /\ ended' = ended \cup {fin[f].stream}
  /\ CallTo(f, "revoke")
  /\ UNCHANGED <<made, keys, revoked, vods, ingest, pub, studio, requests, publishes,
                 failures, history>>

\* Mutant of RevokedWith: only the newest key of the stream is revoked.
RevokedNewest(s) == revoked \cup ({Newest(KeysOf(s))} \ {0})
RevokedWith(s) == revoked \cup KeysOf(s)
FinalizeRevoke(f) ==
  /\ fin[f].pc = "revoke"
  /\ revoked' = RevokedWith(fin[f].stream)
  /\ CallTo(f, "findVod")
  /\ UNCHANGED <<made, live, ended, keys, vods, ingest, pub, studio, requests, publishes,
                 failures, history>>

\* The stream's newest key, taken for the key it was ingested with, and its
\* newest Vod.  (Reading both at once loses no behaviour: no other step both
\* inserts a key and writes a Vod.)
\* Mutant of VodStep: an existing Vod is not looked for.
AlwaysCreate(s, k) == "create"
VodStep(s, k) ==
  IF vods[s] = <<>> THEN "create"
  ELSE IF k # 0 /\ vods[s][Len(vods[s])] # k THEN "repoint" ELSE "done"
FinalizeFindVod(f) ==
  LET s == fin[f].stream
      newest == Newest(KeysOf(s))
      step == VodStep(s, newest)
  IN /\ fin[f].pc = "findVod"
     /\ fin' = IF step = "done" THEN Returned(f)
               ELSE [fin EXCEPT ![f].pc = step, ![f].newest = newest]
     /\ contended' = IF step # "done" /\ \E g \in Finalizers \ {f} :
                            fin[g].pc = step /\ fin[g].stream = s
                     THEN contended \cup {<<s, step>>} ELSE contended
     /\ UNCHANGED <<rows, ingest, pub, studio, requests, publishes, failures,
                    lateKeys, overtaken, broken, crowded>>

FinalizeVod(f) ==
  LET s == fin[f].stream IN
  /\ \/ /\ fin[f].pc = "create"
        /\ vods' = [vods EXCEPT ![s] = Append(@, fin[f].newest)]
     \/ /\ fin[f].pc = "repoint"
        /\ vods' = [vods EXCEPT ![s][Len(vods[s])] = fin[f].newest]
  /\ fin' = Returned(f)
  /\ UNCHANGED <<made, live, ended, keys, revoked, ingest, pub, studio, requests, publishes,
                 failures, history>>

\* A query of finalizeStream throws, or the request never gets there: the steps
\* left are not taken.
FinalizeFails(f) ==
  /\ fin[f].pc \notin {"idle", "announce"}
  /\ failures < MaxFailures
  /\ failures' = failures + 1
  /\ broken' = broken \cup {fin[f].stream}
  /\ fin' = Returned(f)
  /\ UNCHANGED <<rows, ingest, pub, studio, requests, publishes, lateKeys, overtaken,
                 contended, crowded>>

\* on_publish_done publishes stream.ended.
\* Mutant of CountEnded: the event is not sent.
NotCounted(k) == sent
CountEnded(k) == [sent EXCEPT ![k].ended = @ + 1]
AnnounceEnd ==
  /\ fin["ingest"].pc = "announce"
  /\ sent' = CountEnded(fin["ingest"].by)
  /\ fin' = [fin EXCEPT !["ingest"] = NoCall]
  /\ UNCHANGED <<rows, cached, active, line, pub, studio, requests, publishes, failures, history>>

----------------------------------------------------------------------------
(* Key management.                                                         *)

Request(pc, s, k) == studio' = [pc |-> pc, stream |-> s, key |-> k]
NewRequest ==
  /\ studio.pc = "idle" /\ requests < MaxRequests
  /\ requests' = requests + 1
OnlyStudio == UNCHANGED <<ingest, pub, fin, publishes, failures>>

\* createStream, and the stream row getStreamKeys, createStreamKey and
\* regenerateStreamKey make for a creator without keys.
NewStream(s) ==
  /\ studio.pc = "idle" /\ s \notin made
  /\ made' = made \cup {s}
  /\ Request("insert", s, 0)
  /\ OnlyStudio /\ UNCHANGED <<requests, live, ended, keys, revoked, vods, history>>

\* createStreamKey within the plan's limit, and regenerateStreamKey: for the
\* stream of the newest key.
CreateKey ==
  /\ NewRequest /\ keys # <<>>
  /\ Cardinality(Unrevoked) < MaxActiveKeys
  /\ Request("createEnded", keys[Len(keys)], 0)
  /\ OnlyStudio /\ UNCHANGED <<rows, history>>

RegenerateKey ==
  /\ NewRequest /\ keys # <<>>
  /\ Request("regenEnded", keys[Len(keys)], 0)
  /\ OnlyStudio /\ UNCHANGED <<rows, history>>

\* rotateStreamKeys: refused once the stream has ended.
RotateKeys(s) ==
  /\ NewRequest /\ s \in made /\ ~IsEnded(s)
  /\ Request("rotateRevoke", s, 0)
  /\ OnlyStudio /\ UNCHANGED <<rows, history>>

\* createStreamKey and regenerateStreamKey: isStreamEnded.
CheckEnded ==
  /\ studio.pc \in {"createEnded", "regenEnded"}
  /\ IF IsEnded(studio.stream) THEN studio' = NoRequest
     ELSE Request(IF studio.pc = "createEnded" THEN "insert" ELSE "regenRevoke",
                  studio.stream, 0)
  /\ OnlyStudio /\ UNCHANGED <<requests, rows, history>>

\* Every key of the creator, or of the stream, is revoked.
RevokeAll ==
  /\ \/ studio.pc = "regenRevoke" /\ revoked' = 1 .. Len(keys)
     \/ studio.pc = "rotateRevoke" /\ revoked' = revoked \cup KeysOf(studio.stream)
  /\ Request("insert", studio.stream, 0)
  /\ OnlyStudio /\ UNCHANGED <<requests, made, live, ended, keys, vods, history>>

InsertKey ==
  /\ studio.pc = "insert"
  /\ IF Len(keys) < MaxKeys
       THEN /\ keys' = Append(keys, studio.stream)
            /\ lateKeys' = IF studio.stream \in ended
                           THEN lateKeys \cup {Len(keys) + 1} ELSE lateKeys
       ELSE UNCHANGED <<keys, lateKeys>>  \* the bound: the insert fails
  /\ studio' = NoRequest
  /\ OnlyStudio /\ UNCHANGED <<requests, made, live, ended, revoked, vods, overtaken,
                               broken, contended, crowded>>

\* revokeStreamKey: not an already revoked key, and never the last one.
RevokeKey(k) ==
  /\ NewRequest /\ k \in Unrevoked
  /\ Request("revokeCount", None, k)
  /\ OnlyStudio /\ UNCHANGED <<rows, history>>

RevokeStep ==
  /\ \/ /\ studio.pc = "revokeCount"
        /\ IF Cardinality(Unrevoked) <= 1 THEN studio' = NoRequest
           ELSE Request("revokeUpdate", None, studio.key)
        /\ UNCHANGED revoked
     \/ /\ studio.pc = "revokeUpdate"
        /\ revoked' = revoked \cup {studio.key}
        /\ studio' = NoRequest
  /\ OnlyStudio /\ UNCHANGED <<requests, made, live, ended, keys, vods, history>>

----------------------------------------------------------------------------
PublishStep(k) ==
  \/ FindKey(k) \/ CheckKeyStream(k) \/ CountLive(k)
  \/ StartCount(k) \/ StartUpdate(k) \/ AnnounceStart(k)

FinalizeStep(f) ==
  \/ FinalizeRead(f) \/ FinalizeUpdate(f) \/ FinalizeRevoke(f)
  \/ FinalizeFindVod(f) \/ FinalizeVod(f)

StudioStep == CheckEnded \/ RevokeAll \/ InsertKey \/ RevokeStep

Next ==
  \/ \E k \in KeyIds :
       \/ Publish(k) \/ PublishStep(k) \/ PublishDone(k) \/ ExpireCache(k)
       \/ ValidationFails(k) \/ StartFails(k) \/ RevokeKey(k)
  \/ \E f \in Finalizers : FinalizeStep(f) \/ FinalizeFails(f)
  \/ AnnounceEnd
  \/ \E s \in Streams :
       \/ NewStream(s) \/ RotateKeys(s)
       \/ \E f \in Requests : EndByOwner(f, s) \/ EndByTimer(f, s)
  \/ CreateKey \/ RegenerateKey \/ StudioStep

\* The auto-end job runs every five minutes, for as long as the service: strong
\* fairness, because the calls of finalizeStream it shares with the studio are a
\* bound of the model, not a resource it waits for.
AutoEndJob == \A s \in Streams : SF_vars(\E f \in Requests : EndByTimer(f, s))

\* Requests under way are carried through.  Nothing makes OBS or the creator do anything.
Fairness ==
  /\ \A k \in KeyIds : WF_vars(PublishStep(k))
  /\ \A f \in Finalizers : WF_vars(FinalizeStep(f))
  /\ WF_vars(AnnounceEnd)
  /\ AutoEndJob

Spec == Init /\ [][Next]_vars
FairSpec == Spec /\ Fairness

----------------------------------------------------------------------------
(* Properties.                                                             *)

\* No call of finalizeStream and no on_publish is under way for stream s.
Quiet(s) ==
  /\ \A f \in Finalizers : fin[f].stream # s
  /\ \A k \in KeysOf(s) : pub[k] = "none"

\* A stream the database calls live is on air with one of its keys, unless an
\* on_publish_done overtook its on_publish or finalizeStream failed half way:
\* viewers are not shown dead streams.
LiveMeansOnAir ==
  \A s \in live :
    Quiet(s) /\ s \notin broken /\ KeysOf(s) \cap overtaken = {}
      => KeysOf(s) \cap active # {}

\* Finalizing leaves no key of the stream usable, but for keys inserted by a
\* request that had found the stream still open; and it leaves a Vod.
EndedIsFinalized ==
  \A s \in ended : Quiet(s) /\ s \notin broken =>
    /\ KeysOf(s) \subseteq revoked \cup lateKeys
    /\ vods[s] # <<>>

\* However often a stream is ended, it has one Vod, unless two finalizers both
\* found none: the table has no unique index on streamId.  At rest that Vod points at
\* the key of the broadcast, unless the stream was given another key after that one, or
\* two finalizers repointed it at once: the one that read the keys first may write last.
OneVod ==
  \A s \in Streams : <<s, "create">> \notin contended =>
    LET aired == {k \in KeysOf(s) : sent[k].started > 0} IN
    /\ Len(vods[s]) <= 1
    /\ vods[s] # <<>> /\ s \in ended \ live /\ Quiet(s) /\ s \notin broken
         /\ <<s, "repoint">> \notin contended /\ Newest(KeysOf(s)) \in aired
       => vods[s][1] = Newest(KeysOf(s))

\* The plan's limit on concurrent live streams holds as long as no two starts
\* are between their count and their update at once.
LiveWithinLimit == ~crowded => Cardinality(live) <= MaxLive

\* At rest a key has as many stream.ended as stream.started events, but for the
\* broadcast it is on air with: what transcoding-service relies on to give a
\* slot back.
EventsBalance ==
  \A k \in KeyIds \ overtaken :
    pub[k] = "none" /\ fin["ingest"].by # k =>
      sent[k].started = sent[k].ended + (IF k \in active THEN 1 ELSE 0)

\* The 30 s validation cache does not let a revoked key in, unless its
\* on_publish_done came too early to evict the entry.
RevokedNotFromCache ==
  [][\A k \in KeyIds \ overtaken :
       pub[k] = "none" /\ pub'[k] = "startCount" => k \notin revoked]_vars

\* An abandoned session does not stay open for ever: it goes live or the auto-end
\* job ends it, whatever request failed before.
IdleSessionsEnd ==
  \A s \in Streams : (s \in made \ (live \cup ended)) ~> (s \in live \cup ended)

\* "Permanent end": an ended stream stays ended.
EndIsPermanent == [][ended \subseteq ended']_vars
=============================================================================

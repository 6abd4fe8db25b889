------------------------------ MODULE WorkerPool ------------------------------
(***************************************************************************)
(* One instance of transcoding-service: the WorkerPool, its StreamWorkers  *)
(* and their FFmpeg processes, driven by the Kafka topics stream.started   *)
(* and stream.ended.                                                       *)
(*                                                                         *)
(* kafkajs runs one message handler at a time and awaits it, so `handler'  *)
(* is the program counter of the single handler in flight.  What           *)
(* interleaves with it are the callbacks of the child processes, the       *)
(* timers of StreamWorker.cleanup and FfmpegProcess.stop, and the arrival  *)
(* of messages on the two topics, which have no order between them.        *)
(***************************************************************************)
EXTENDS Naturals, Sequences, FiniteSets

CONSTANTS
  Keys,             \* the stream keys
  MaxConcurrent,    \* config.MAX_CONCURRENT_STREAMS
  MaxSessions,      \* bound: MaxSessions[k] broadcasts of key k
  MaxRedeliveries,  \* bound: stream.started messages Kafka delivers again
  MaxWorkers,       \* bound: one worker for each stream.started ever consumed
  None              \* no key, no worker

ASSUME PoolAssumption ==
  /\ IsFiniteSet(Keys)
  /\ MaxConcurrent \in Nat \ {0}
  /\ MaxSessions \in [Keys -> Nat]
  /\ MaxRedeliveries \in Nat
  /\ MaxWorkers \in Nat
  /\ None \notin Keys \cup Nat

Workers == 1 .. MaxWorkers

VARIABLES
  published,   \* published[k]: messages rtmp-ingest sent for k; odd while k is on air
  gotStarted,  \* gotStarted[k]: stream.started messages of k consumed
  gotEnded,    \* gotEnded[k]: stream.ended messages of k consumed
  redelivered, \* how many messages were delivered a second time
  ordered,     \* history: k's messages were consumed once each, in publishing order
  refused,     \* history: a worker of k failed to start
  pool,        \* WorkerPool.workers: key -> worker or None
  queue,       \* WorkerPool.queue: keys of the waiting events
  spawned,     \* workers constructed so far: 1 .. spawned
  state,       \* StreamWorker.state
  keyOf,       \* StreamWorker.event.streamKey
  proc,        \* the FFmpeg child: none, running, signalled, killed, exited
  cleanup,     \* StreamWorker.cleanup(true): no, exit, settle, over
  dir,         \* temp directory: none, used, reclaimed (its rm timer is armed)
  handler      \* the message handler in flight: [pc, key]

busVars == <<published, gotStarted, gotEnded, redelivered, ordered>>
poolVars == <<pool, queue, spawned, keyOf, refused>>
workerVars == <<state, proc, cleanup, dir>>
vars == <<busVars, poolVars, workerVars, handler>>

WorkerStates == {"IDLE", "STARTING", "TRANSCODING", "STOPPING", "DONE", "ERROR"}
ProcStates == {"none", "running", "signalled", "killed", "exited"}
HandlerSteps == {"idle", "replace", "spawn", "remove", "drain", "drainSpawn",
                 "drainAll", "exited"}

TypeOK ==
  /\ published \in [Keys -> Nat]
  /\ gotStarted \in [Keys -> Nat]
  /\ gotEnded \in [Keys -> Nat]
  /\ redelivered \in Nat
  /\ ordered \in [Keys -> BOOLEAN]
  /\ refused \in [Keys -> BOOLEAN]
  /\ pool \in [Keys -> Workers \cup {None}]
  /\ queue \in Seq(Keys)
  /\ spawned \in 0 .. MaxWorkers
  /\ state \in [Workers -> WorkerStates]
  /\ keyOf \in [Workers -> Keys \cup {None}]
  /\ proc \in [Workers -> ProcStates]
  /\ cleanup \in [Workers -> {"no", "exit", "settle", "over"}]
  /\ dir \in [Workers -> {"none", "used", "reclaimed"}]
  /\ handler \in [pc : HandlerSteps, key : Keys \cup {None}]

Idle == [pc |-> "idle", key |-> None]
At(pc, k) == [pc |-> pc, key |-> k]

Init ==
  /\ published = [k \in Keys |-> 0]
  /\ gotStarted = [k \in Keys |-> 0]
  /\ gotEnded = [k \in Keys |-> 0]
  /\ redelivered = 0
  /\ ordered = [k \in Keys |-> TRUE]
  /\ refused = [k \in Keys |-> FALSE]
  /\ pool = [k \in Keys |-> None]
  /\ queue = <<>>
  /\ spawned = 0
  /\ state = [w \in Workers |-> "IDLE"]
  /\ keyOf = [w \in Workers |-> None]
  /\ proc = [w \in Workers |-> "none"]
  /\ cleanup = [w \in Workers |-> "no"]
  /\ dir = [w \in Workers |-> "none"]
  /\ handler = Idle

----------------------------------------------------------------------------
(* The bus.  The broadcasts of one key alternate (nginx-rtmp admits one    *)
(* publisher per stream name), and each topic keeps its own order.         *)

OnAir(k) == published[k] % 2 = 1
StartedSent(k) == (published[k] + 1) \div 2
EndedSent(k) == published[k] \div 2

\* rtmp-ingest publishes stream.started or stream.ended for k, in turn.
Broadcast(k) ==
  /\ published[k] < 2 * MaxSessions[k]
  /\ published' = [published EXCEPT ![k] = @ + 1]
  /\ UNCHANGED <<gotStarted, gotEnded, redelivered, ordered, poolVars, workerVars, handler>>

\* The next stream.started of k reaches the handler: in publishing order only
\* if every earlier stream.ended of k has been consumed.
ConsumeStarted(k) ==
  \/ /\ gotStarted[k] < StartedSent(k)
     /\ gotStarted' = [gotStarted EXCEPT ![k] = @ + 1]
     /\ ordered' = [ordered EXCEPT ![k] = @ /\ gotEnded[k] = gotStarted[k]]
     /\ UNCHANGED <<published, gotEnded, redelivered>>
  \/ /\ gotStarted[k] > 0
     /\ redelivered < MaxRedeliveries
     /\ redelivered' = redelivered + 1
     /\ ordered' = [ordered EXCEPT ![k] = FALSE]
     /\ UNCHANGED <<published, gotStarted, gotEnded>>

ConsumeEnded(k) ==
  /\ gotEnded[k] < EndedSent(k)
  /\ gotEnded' = [gotEnded EXCEPT ![k] = @ + 1]
  /\ ordered' = [ordered EXCEPT ![k] = @ /\ gotStarted[k] = gotEnded[k] + 1]
  /\ UNCHANGED <<published, gotStarted, redelivered>>

\* A message never reaches the pool: the producer drops it while Kafka is away,
\* or an on_publish_done that came too early sent none (see StreamSession).
LoseMessage(k) ==
  /\ \/ /\ gotStarted[k] < StartedSent(k)
        /\ gotStarted' = [gotStarted EXCEPT ![k] = @ + 1]
        /\ UNCHANGED gotEnded
     \/ /\ gotEnded[k] < EndedSent(k)
        /\ gotEnded' = [gotEnded EXCEPT ![k] = @ + 1]
        /\ UNCHANGED gotStarted
  /\ ordered' = [ordered EXCEPT ![k] = FALSE]
  /\ UNCHANGED <<published, redelivered, poolVars, workerVars, handler>>

----------------------------------------------------------------------------
(* StreamWorker.                                                           *)

ActiveKeys == {k \in Keys : pool[k] # None}

\* isFull, for the map p.  Mutant: off by one.
FullOffByOne(p) == Cardinality({k \in Keys : p[k] # None}) > MaxConcurrent
Full(p) == Cardinality({k \in Keys : p[k] # None}) >= MaxConcurrent
IsFull == Full(pool)

\* The timer that removes the temp directory is armed.  Mutant: it is not.
KeepDir(w) == dir
ReclaimDir(w) == [dir EXCEPT ![w] = "reclaimed"]

\* The state the ffmpeg-error handler sets.
CrashState == "ERROR"

\* FfmpegProcess.isRunning(): from start() until the child's close event.
IsRunning(w) == proc[w] \in {"running", "signalled", "killed"}

\* stop() on every worker of S: a no-op for one already stopping or done, else
\* SIGINT to a running FFmpeg and on to its exit, or straight to finalizing.
StopWorkers(S) ==
  LET stopping == {w \in S : state[w] \notin {"DONE", "STOPPING"}} IN
  /\ state' = [w \in Workers |-> IF w \in stopping THEN "STOPPING" ELSE state[w]]
  /\ proc' = [w \in Workers |->
       IF w \in stopping /\ IsRunning(w) THEN "signalled" ELSE proc[w]]
  /\ cleanup' = [w \in Workers |->
       IF w \in stopping THEN IF IsRunning(w) THEN "exit" ELSE "settle" ELSE cleanup[w]]
  /\ UNCHANGED dir

StopReturned(w) == cleanup[w] \in {"no", "over"}

\* spawnWorker up to its await: construct the worker, put it in the map
\* (over any worker already there), enter STARTING and create its directory.
SpawnWorker(k, p) ==
  LET w == spawned + 1 IN
  /\ w \in Workers
  /\ spawned' = w
  /\ keyOf' = [keyOf EXCEPT ![w] = k]
  /\ pool' = [p EXCEPT ![k] = w]
  /\ state' = [state EXCEPT ![w] = "STARTING"]
  /\ dir' = [dir EXCEPT ![w] = "used"]
  /\ UNCHANGED <<proc, cleanup, refused>>

\* The rest of addStream, once the map is p: queue the event or start it.
Admit(k, p) ==
  IF Full(p)
    THEN /\ queue' = Append(queue, k)
         /\ pool' = p
         /\ handler' = Idle
         /\ UNCHANGED <<spawned, keyOf, refused, workerVars>>
    ELSE /\ SpawnWorker(k, p)
         /\ UNCHANGED queue
         /\ handler' = At("spawn", k)

----------------------------------------------------------------------------
(* The handlers.                                                           *)

\* addStream: ignore a redelivery for a live worker, replace a stale one, else
\* queue or start.
AddStream(k) ==
  /\ handler.pc = "idle"
  /\ ConsumeStarted(k)
  /\ \/ /\ pool[k] # None
        /\ state[pool[k]] \in {"TRANSCODING", "STARTING"}
        /\ UNCHANGED <<poolVars, workerVars, handler>>
     \/ /\ pool[k] # None
        /\ state[pool[k]] \notin {"TRANSCODING", "STARTING"}
        /\ StopWorkers({pool[k]})
        /\ handler' = At("replace", k)
        /\ UNCHANGED poolVars
     \/ /\ pool[k] = None
        /\ Admit(k, pool)

\* addStream after `await existing.stop()'.
FinishReplace ==
  LET k == handler.key IN
  /\ handler.pc = "replace"
  /\ StopReturned(pool[k])
  /\ Admit(k, [pool EXCEPT ![k] = None])
  /\ UNCHANGED busVars

\* FFmpeg and the watcher are up; spawnWorker returns to its caller.
StartSucceeds ==
  LET w == pool[handler.key] IN
  /\ handler.pc \in {"spawn", "drainSpawn"}
  /\ proc' = [proc EXCEPT ![w] = "running"]
  /\ state' = [state EXCEPT ![w] = "TRANSCODING"]
  /\ handler' = IF handler.pc = "spawn" THEN Idle ELSE At("drain", None)
  /\ UNCHANGED <<busVars, poolVars, cleanup, dir>>

\* start() throws (file system): ERROR, cleanup(false), and out of the map.
StartFails ==
  LET w == pool[handler.key] IN
  /\ handler.pc \in {"spawn", "drainSpawn"}
  /\ state' = [state EXCEPT ![w] = "ERROR"]
  /\ dir' = ReclaimDir(w)
  /\ pool' = [pool EXCEPT ![handler.key] = None]
  /\ refused' = [refused EXCEPT ![handler.key] = TRUE]
  /\ handler' = IF handler.pc = "spawn" THEN Idle ELSE At("drain", None)
  /\ UNCHANGED <<busVars, queue, spawned, keyOf, proc, cleanup>>

\* removeStream: stop the key's worker, or withdraw its first queued event.
Positions(k) == {i \in 1 .. Len(queue) : queue[i] = k}
Without(i) == [j \in 1 .. Len(queue) - 1 |-> IF j < i THEN queue[j] ELSE queue[j + 1]]
\* Mutant of WithdrawEvent: the waiting event is not found.
EventNotFound(k) == UNCHANGED queue
WithdrawEvent(k) ==
  \/ Positions(k) = {} /\ UNCHANGED queue
  \/ \E i \in Positions(k) :
       /\ \A j \in Positions(k) : i <= j
       /\ queue' = Without(i)

RemoveStream(k) ==
  /\ handler.pc = "idle"
  /\ ConsumeEnded(k)
  /\ \/ /\ pool[k] # None
        /\ StopWorkers({pool[k]})
        /\ handler' = At("remove", k)
        /\ UNCHANGED poolVars
     \/ /\ pool[k] = None
        /\ WithdrawEvent(k)
        /\ UNCHANGED <<pool, spawned, keyOf, refused, workerVars, handler>>

\* removeStream after `await worker.stop()': free the slot, then drainQueue.
AfterRemove == At("drain", None)
FinishRemove ==
  /\ handler.pc = "remove"
  /\ StopReturned(pool[handler.key])
  /\ pool' = [pool EXCEPT ![handler.key] = None]
  /\ handler' = AfterRemove
  /\ UNCHANGED <<busVars, queue, spawned, keyOf, refused, workerVars>>

\* drainQueue: start the head of the queue while there is a free slot.
\* Mutant of Shifted: the head is read, not removed.
NotShifted == queue
Shifted == Tail(queue)
DrainQueue ==
  /\ handler.pc = "drain"
  /\ \/ /\ IsFull \/ queue = <<>>
        /\ handler' = Idle
        /\ UNCHANGED <<poolVars, workerVars>>
     \/ /\ ~IsFull
        /\ queue # <<>>
        /\ SpawnWorker(Head(queue), pool)
        /\ queue' = Shifted
        /\ handler' = At("drainSpawn", Head(queue))
  /\ UNCHANGED busVars

\* SIGTERM: the consumer is disconnected once the handler in flight is over,
\* then drainAll clears the queue and stops every worker of the map.
Shutdown ==
  /\ handler.pc = "idle"
  /\ StopWorkers({pool[k] : k \in ActiveKeys})
  /\ queue' = <<>>
  /\ handler' = At("drainAll", None)
  /\ UNCHANGED <<busVars, pool, spawned, keyOf, refused>>

\* drainAll after its Promise.all, and process.exit.
FinishShutdown ==
  /\ handler.pc = "drainAll"
  /\ \A k \in ActiveKeys : StopReturned(pool[k])
  /\ pool' = [k \in Keys |-> None]
  /\ handler' = At("exited", None)
  /\ UNCHANGED <<busVars, queue, spawned, keyOf, refused, workerVars>>

----------------------------------------------------------------------------
(* Child processes and timers.                                             *)

\* The process exits with an "end" event.  A worker that was not stopping runs
\* cleanup(false): its directory is reclaimed, its state and slot are not.
FfmpegEnds(w) ==
  /\ IsRunning(w)
  /\ proc' = [proc EXCEPT ![w] = "exited"]
  /\ cleanup' = [cleanup EXCEPT ![w] = IF @ = "exit" THEN "settle" ELSE @]
  /\ dir' = IF state[w] \in {"STOPPING", "DONE"} THEN dir ELSE ReclaimDir(w)
  /\ UNCHANGED <<busVars, poolVars, state, handler>>

\* The process exits with "ffmpeg-error": the worker is marked, nothing else.
FfmpegFails(w) ==
  /\ IsRunning(w)
  /\ proc' = [proc EXCEPT ![w] = "exited"]
  /\ state' = [state EXCEPT ![w] = CrashState]
  /\ cleanup' = [cleanup EXCEPT ![w] = IF @ = "exit" THEN "settle" ELSE @]
  /\ UNCHANGED <<busVars, poolVars, dir, handler>>

\* FfmpegProcess.stop gives up after 8 s: SIGKILL, and its promise resolves.
\* Mutant of ForceKill: no 8 s timer.
NoForceKill(w) == FALSE /\ UNCHANGED vars
\* Mutant of ForceKill: the timer resolves without SIGKILL.
ResolveWithoutKill(w) ==
  /\ cleanup[w] = "exit"
  /\ cleanup' = [cleanup EXCEPT ![w] = "settle"]
  /\ UNCHANGED <<busVars, poolVars, state, proc, dir, handler>>
ForceKill(w) ==
  /\ cleanup[w] = "exit"
  /\ proc' = [proc EXCEPT ![w] = "killed"]
  /\ cleanup' = [cleanup EXCEPT ![w] = "settle"]
  /\ UNCHANGED <<busVars, poolVars, state, dir, handler>>

\* cleanup(true) after its 2.5 s wait: finalize, arm the rm timer, DONE.
Settle(w) ==
  /\ cleanup[w] = "settle"
  /\ cleanup' = [cleanup EXCEPT ![w] = "over"]
  /\ dir' = ReclaimDir(w)
  /\ state' = [state EXCEPT ![w] = "DONE"]
  /\ UNCHANGED <<busVars, poolVars, proc, handler>>

----------------------------------------------------------------------------
HandlerStep ==
  \/ FinishReplace \/ StartSucceeds \/ StartFails
  \/ FinishRemove \/ DrainQueue \/ FinishShutdown

WorkerStep(w) == FfmpegEnds(w) \/ FfmpegFails(w) \/ ForceKill(w) \/ Settle(w)

Next ==
  \/ \E k \in Keys : Broadcast(k) \/ LoseMessage(k) \/ AddStream(k) \/ RemoveStream(k)
  \/ HandlerStep
  \/ Shutdown
  \/ \E w \in Workers : WorkerStep(w)

\* An await of the handler returns, and the timers fire.  Nothing promises that
\* FFmpeg ever exits, that a message is delivered or that OBS goes off air.
Fairness ==
  /\ WF_vars(HandlerStep)
  /\ \A w \in Workers : WF_vars(ForceKill(w)) /\ WF_vars(Settle(w))

Spec == Init /\ [][Next]_vars
FairSpec == Spec /\ Fairness

----------------------------------------------------------------------------
(* Properties.                                                             *)

AllOrdered == \A k \in Keys : ordered[k]
NoneRefused == \A k \in Keys : ~refused[k]
Encoding == {w \in Workers : proc[w] \in {"running", "signalled"}}
Queued(k) == \E i \in 1 .. Len(queue) : queue[i] = k

\* The map never holds more workers than the configured cap, whatever the order
\* of messages, failures and reconnects (workerPool.ts: isFull, addStream,
\* drainQueue).
Capacity == Cardinality(ActiveKeys) <= MaxConcurrent

\* The cap the machine feels: FFmpeg processes not yet killed, the ones of
\* workers that have left the map included.  "Hard concurrency cap" of the
\* comment at the top of workerPool.ts.
EncodersWithinCap == Cardinality(Encoding) <= MaxConcurrent

\* As long as every key's messages are consumed once and in publishing order,
\* the processes respect the cap too: no worker is overwritten while it encodes.
OrderedEncodersWithinCap == AllOrdered => EncodersWithinCap

\* A worker that has left the map holds nothing: its FFmpeg is gone or killed and
\* its directory is due for removal, however its stop raced with FFmpeg's exit.
RemovedIsReleased ==
  \A w \in 1 .. spawned :
    /\ pool[keyOf[w]] # w
    /\ ordered[keyOf[w]]
    => /\ proc[w] \notin {"running", "signalled"}
       /\ dir[w] = "reclaimed"

\* Once everything rtmp-ingest published for a key has been consumed in order,
\* the pool agrees with the air: a key off air has neither slot nor place in the
\* queue, and a key on air has exactly one of them unless its worker failed to
\* start.
CaughtUp(k) ==
  /\ handler.pc = "idle"
  /\ ordered[k]
  /\ gotStarted[k] = StartedSent(k)
  /\ gotEnded[k] = EndedSent(k)
PoolTracksBroadcasts ==
  \A k \in Keys : CaughtUp(k) =>
    IF OnAir(k)
      THEN /\ pool[k] = None \/ ~Queued(k)
           /\ refused[k] \/ pool[k] # None \/ Queued(k)
      ELSE pool[k] = None /\ ~Queued(k)

\* Between handlers a stream waits only if every slot is taken, unless a failed
\* start has left one empty.
WaitsOnlyWhenFull ==
  handler.pc = "idle" /\ NoneRefused /\ queue # <<>> => IsFull

\* The consumer is never stuck in a handler: an FFmpeg that ignores SIGINT is
\* killed after 8 s and drainQueue runs out of slots or of events.
HandlerReturns ==
  handler.pc \notin {"idle", "exited"} ~> handler.pc \in {"idle", "exited"}

\* The pool implements the bounded first-in first-out slot queue.
Slots == INSTANCE SlotQueue WITH
  Streams <- Keys, Slots <- MaxConcurrent,
  active <- ActiveKeys, waiting <- queue, excused <- ~NoneRefused
ImplementsSlotQueue == Slots!Spec
=============================================================================

-------------------------- MODULE WorkerPool_proofs --------------------------
(***************************************************************************)
(* What holds of WorkerPool for every set of keys and every cap, in three  *)
(* parts, each with an inductive invariant that extends the one before:    *)
(*   PoolInv   the types and the concurrency cap;                          *)
(*   QueueInv  who waits, and the refinement of SlotQueue;                 *)
(*   RunInv    what becomes of workers, and of keys whose messages come    *)
(*             once and in order.                                          *)
(***************************************************************************)
EXTENDS WorkerPool, FiniteSetTheorems, TLAPS

USE PoolAssumption

----------------------------------------------------------------------------
(* Types and the cap.                                                      *)

ActiveOf(p) == {k \in Keys : p[k] # None}

\* TypeOK by the groups of variables that actions leave alone together.
BusOK ==
  /\ published \in [Keys -> Nat]
  /\ gotStarted \in [Keys -> Nat]
  /\ gotEnded \in [Keys -> Nat]
  /\ redelivered \in Nat
  /\ ordered \in [Keys -> BOOLEAN]
MapOK ==
  /\ refused \in [Keys -> BOOLEAN]
  /\ pool \in [Keys -> Workers \cup {None}]
  /\ queue \in Seq(Keys)
  /\ spawned \in 0 .. MaxWorkers
  /\ keyOf \in [Workers -> Keys \cup {None}]
WorkersOK ==
  /\ state \in [Workers -> WorkerStates]
  /\ proc \in [Workers -> ProcStates]
  /\ cleanup \in [Workers -> {"no", "exit", "settle", "over"}]
  /\ dir \in [Workers -> {"none", "used", "reclaimed"}]
HandlerOK == handler \in [pc : HandlerSteps, key : Keys \cup {None}]

\* A handler that awaits a worker knows its key.
HandlerKey ==
  handler.pc \in {"replace", "spawn", "remove", "drainSpawn"} => handler.key \in Keys

\* The inductive invariant behind TypeOK and Capacity.
CapOK == Cardinality(ActiveOf(pool)) <= MaxConcurrent
PoolInv == BusOK /\ MapOK /\ WorkersOK /\ HandlerOK /\ HandlerKey /\ CapOK

----------------------------------------------------------------------------

LEMMA NoneIsNoWorker == None \notin Keys /\ None \notin Workers
  BY DEF Workers

\* The map has finitely many entries.
LEMMA ActiveFinite ==
  ASSUME NEW p
  PROVE  IsFiniteSet(ActiveOf(p)) /\ Cardinality(ActiveOf(p)) \in Nat
<1>1. ActiveOf(p) \in SUBSET Keys
  BY DEF ActiveOf
<1>2. IsFiniteSet(ActiveOf(p))
  BY <1>1, FS_Subset
<1>3. QED
  BY <1>2, FS_CardinalityType

\* Deleting a key never makes the map larger.
LEMMA DeleteShrinks ==
  ASSUME NEW p \in [Keys -> Workers \cup {None}], NEW k \in Keys
  PROVE  /\ [p EXCEPT ![k] = None] \in [Keys -> Workers \cup {None}]
         /\ ActiveOf([p EXCEPT ![k] = None]) = ActiveOf(p) \ {k}
         /\ Cardinality(ActiveOf([p EXCEPT ![k] = None])) <= Cardinality(ActiveOf(p))
<1>1. ActiveOf([p EXCEPT ![k] = None]) = ActiveOf(p) \ {k}
  BY DEF ActiveOf
<1>2. IsFiniteSet(ActiveOf(p)) /\ Cardinality(ActiveOf(p)) \in Nat
  BY ActiveFinite
<1>3. Cardinality(ActiveOf(p) \ {k}) =
        IF k \in ActiveOf(p) THEN Cardinality(ActiveOf(p)) - 1 ELSE Cardinality(ActiveOf(p))
  BY <1>2, FS_RemoveElement
<1>4. Cardinality(ActiveOf(p) \ {k}) <= Cardinality(ActiveOf(p))
  BY <1>2, <1>3
<1>5. [p EXCEPT ![k] = None] \in [Keys -> Workers \cup {None}]
  OBVIOUS
<1>6. QED
  BY <1>1, <1>4, <1>5

\* Setting a key of a map that is not full keeps it within the cap.
LEMMA SetKeepsCap ==
  ASSUME NEW p \in [Keys -> Workers \cup {None}], NEW k \in Keys, NEW w \in Workers,
         ~Full(p)
  PROVE  /\ [p EXCEPT ![k] = w] \in [Keys -> Workers \cup {None}]
         /\ ActiveOf([p EXCEPT ![k] = w]) = ActiveOf(p) \cup {k}
         /\ Cardinality(ActiveOf([p EXCEPT ![k] = w])) <= MaxConcurrent
<1>1. ActiveOf([p EXCEPT ![k] = w]) = ActiveOf(p) \cup {k}
  BY NoneIsNoWorker DEF ActiveOf
<1>2. IsFiniteSet(ActiveOf(p)) /\ Cardinality(ActiveOf(p)) \in Nat
  BY ActiveFinite
<1>3. Cardinality(ActiveOf(p) \cup {k}) =
        IF k \in ActiveOf(p) THEN Cardinality(ActiveOf(p)) ELSE Cardinality(ActiveOf(p)) + 1
  BY <1>2, FS_AddElement
<1>4. Cardinality(ActiveOf(p)) < MaxConcurrent
  BY <1>2 DEF Full, ActiveOf
<1>5. Cardinality(ActiveOf(p) \cup {k}) <= MaxConcurrent
  BY <1>2, <1>3, <1>4
<1>6. [p EXCEPT ![k] = w] \in [Keys -> Workers \cup {None}]
  OBVIOUS
<1>7. QED
  BY <1>1, <1>5, <1>6

\* Withdrawing an event leaves a queue of keys.
LEMMA WithdrawType ==
  ASSUME queue \in Seq(Keys), NEW k \in Keys, WithdrawEvent(k)
  PROVE  queue' \in Seq(Keys)
<1>1. ASSUME NEW i \in Positions(k), queue' = Without(i)
      PROVE  queue' \in Seq(Keys)
  <2>1. Len(queue) - 1 \in Nat
    BY <1>1 DEF Positions
  <2>2. \A j \in 1 .. Len(queue) - 1 : queue[j] \in Keys /\ queue[j + 1] \in Keys
    OBVIOUS
  <2>3. QED
    BY <1>1, <2>1, <2>2 DEF Without
<1>2. QED
  BY <1>1 DEF WithdrawEvent

\* stop() keeps the types of what it writes.
LEMMA StopWorkersType ==
  ASSUME WorkersOK, NEW S, StopWorkers(S)
  PROVE  WorkersOK'
  BY DEF WorkersOK, StopWorkers, WorkerStates, ProcStates, IsRunning

\* spawnWorker keeps the types of what it writes, and the cap.
LEMMA SpawnKeepsCap ==
  ASSUME MapOK, WorkersOK, NEW p \in [Keys -> Workers \cup {None}], NEW k \in Keys,
         ~Full(p), SpawnWorker(k, p), queue' \in Seq(Keys)
  PROVE  /\ MapOK' /\ WorkersOK'
         /\ CapOK'
<1>1. spawned + 1 \in Workers /\ pool' = [p EXCEPT ![k] = spawned + 1]
  BY DEF SpawnWorker
<1>2. spawned' \in 0 .. MaxWorkers
  BY DEF SpawnWorker, Workers
<1>3. /\ pool' \in [Keys -> Workers \cup {None}]
      /\ CapOK'
  BY <1>1, SetKeepsCap DEF CapOK
<1>4. keyOf' \in [Workers -> Keys \cup {None}] /\ refused' = refused
  BY DEF SpawnWorker, MapOK
<1>5. WorkersOK'
  BY DEF SpawnWorker, WorkersOK, WorkerStates
<1>6. QED
  BY <1>2, <1>3, <1>4, <1>5 DEF MapOK

\* The end of addStream, from a map within the cap.
LEMMA AdmitKeepsCap ==
  ASSUME MapOK, WorkersOK, NEW p \in [Keys -> Workers \cup {None}], NEW k \in Keys,
         Cardinality(ActiveOf(p)) <= MaxConcurrent, Admit(k, p)
  PROVE  /\ MapOK' /\ WorkersOK' /\ HandlerOK' /\ HandlerKey'
         /\ CapOK'
<1>1. CASE Full(p)
  <2>1. /\ queue' = Append(queue, k) /\ pool' = p /\ handler' = Idle
        /\ UNCHANGED <<spawned, keyOf, refused, state, proc, cleanup, dir>>
    BY <1>1 DEF Admit, workerVars
  <2>2. MapOK' /\ WorkersOK'
    BY <2>1 DEF MapOK, WorkersOK
  <2>3. HandlerOK' /\ HandlerKey'
    BY <2>1 DEF HandlerOK, HandlerKey, HandlerSteps, Idle
  <2>4. CapOK'
    BY <2>1 DEF CapOK
  <2>5. QED
    BY <2>2, <2>3, <2>4
<1>2. CASE ~Full(p)
  <2>1. SpawnWorker(k, p) /\ queue' = queue /\ handler' = At("spawn", k)
    BY <1>2 DEF Admit
  <2>2. queue' \in Seq(Keys)
    BY <2>1 DEF MapOK
  <2>3. HandlerOK' /\ HandlerKey'
    BY <2>1 DEF HandlerOK, HandlerKey, HandlerSteps, At
  <2>4. QED
    BY <1>2, <2>1, <2>2, <2>3, SpawnKeepsCap
<1>3. QED
  BY <1>1, <1>2

----------------------------------------------------------------------------

LEMMA InitPoolInv == Init => PoolInv
<1> SUFFICES ASSUME Init PROVE PoolInv
  OBVIOUS
<1>1. BusOK /\ MapOK /\ WorkersOK
  BY DEF Init, BusOK, MapOK, WorkersOK, WorkerStates, ProcStates
<1>2. HandlerOK /\ HandlerKey
  BY DEF Init, HandlerOK, HandlerKey, HandlerSteps, Idle
<1>3. ActiveOf(pool) = {}
  BY DEF Init, ActiveOf
<1>4. CapOK
  BY <1>3, FS_EmptySet DEF CapOK
<1>5. QED
  BY <1>1, <1>2, <1>4 DEF PoolInv

\* The steps of the bus keep its types.
LEMMA BusStep ==
  ASSUME BusOK, NEW k \in Keys,
         Broadcast(k) \/ LoseMessage(k) \/ ConsumeStarted(k) \/ ConsumeEnded(k)
  PROVE  BusOK'
<1>1. CASE Broadcast(k)
  BY <1>1 DEF BusOK, Broadcast
<1>2. CASE ConsumeStarted(k)
  <2>1. ordered' \in [Keys -> BOOLEAN]
    BY <1>2, Zenon DEF BusOK, ConsumeStarted
  <2>2. /\ published' \in [Keys -> Nat] /\ gotStarted' \in [Keys -> Nat]
        /\ gotEnded' \in [Keys -> Nat] /\ redelivered' \in Nat
    BY <1>2 DEF BusOK, ConsumeStarted
  <2>3. QED
    BY <2>1, <2>2 DEF BusOK
<1>3. CASE ConsumeEnded(k)
  <2>1. ordered' \in [Keys -> BOOLEAN]
    BY <1>3, Zenon DEF BusOK, ConsumeEnded
  <2>2. /\ published' \in [Keys -> Nat] /\ gotStarted' \in [Keys -> Nat]
        /\ gotEnded' \in [Keys -> Nat] /\ redelivered' \in Nat
    BY <1>3 DEF BusOK, ConsumeEnded
  <2>3. QED
    BY <2>1, <2>2 DEF BusOK
<1>4. CASE LoseMessage(k)
  <2>1. ordered' \in [Keys -> BOOLEAN]
    BY <1>4, Zenon DEF BusOK, LoseMessage
  <2>2. /\ published' \in [Keys -> Nat] /\ gotStarted' \in [Keys -> Nat]
        /\ gotEnded' \in [Keys -> Nat] /\ redelivered' \in Nat
    BY <1>4 DEF BusOK, LoseMessage
  <2>3. QED
    BY <2>1, <2>2 DEF BusOK
<1>5. QED
  BY <1>1, <1>2, <1>3, <1>4

\* addStream, up to its first await.
LEMMA AddStreamStep ==
  ASSUME PoolInv, NEW k \in Keys, AddStream(k)
  PROVE  PoolInv'
<1>1. BusOK'
  <2>1. ConsumeStarted(k)
    BY DEF AddStream
  <2>2. QED
    BY <2>1, BusStep DEF PoolInv
<1>2. CASE UNCHANGED <<poolVars, workerVars, handler>>
  BY <1>1, <1>2
  DEF PoolInv, poolVars, workerVars, MapOK, WorkersOK, HandlerOK, HandlerKey, CapOK
<1>3. CASE StopWorkers({pool[k]}) /\ handler' = At("replace", k) /\ UNCHANGED poolVars
  <2>1. WorkersOK'
    BY <1>3, StopWorkersType DEF PoolInv
  <2>2. MapOK' /\ CapOK'
    BY <1>3 DEF PoolInv, poolVars, MapOK, CapOK
  <2>3. HandlerOK' /\ HandlerKey'
    BY <1>3 DEF HandlerOK, HandlerKey, HandlerSteps, At
  <2>4. QED
    BY <1>1, <2>1, <2>2, <2>3 DEF PoolInv
<1>4. CASE Admit(k, pool)
  <2>1. pool \in [Keys -> Workers \cup {None}] /\ Cardinality(ActiveOf(pool)) <= MaxConcurrent
    BY DEF PoolInv, MapOK, CapOK
  <2>2. QED
    BY <1>1, <1>4, <2>1, AdmitKeepsCap DEF PoolInv
<1>5. QED
  BY <1>2, <1>3, <1>4 DEF AddStream

\* addStream, after the stale worker has stopped.
LEMMA FinishReplaceStep ==
  ASSUME PoolInv, FinishReplace
  PROVE  PoolInv'
<1> DEFINE k == handler.key
           p == [pool EXCEPT ![k] = None]
<1>1. k \in Keys
  BY DEF PoolInv, HandlerKey, FinishReplace
<1>2. p \in [Keys -> Workers \cup {None}] /\ Cardinality(ActiveOf(p)) <= Cardinality(ActiveOf(pool))
  BY <1>1, DeleteShrinks DEF PoolInv, MapOK
<1>3. Cardinality(ActiveOf(p)) <= MaxConcurrent
  BY <1>2, ActiveFinite DEF PoolInv, CapOK
<1>4. Admit(k, p)
  BY DEF FinishReplace
<1>5. MapOK' /\ WorkersOK' /\ HandlerOK' /\ HandlerKey' /\ CapOK'
  <2> HIDE DEF p, k
  <2>1. QED
    BY <1>1, <1>2, <1>3, <1>4, AdmitKeepsCap DEF PoolInv
<1>6. BusOK'
  BY DEF FinishReplace, PoolInv, BusOK, busVars
<1>7. QED
  BY <1>5, <1>6 DEF PoolInv

\* start() returns or throws.
LEMMA StartStep ==
  ASSUME PoolInv, StartSucceeds \/ StartFails
  PROVE  PoolInv'
<1>1. BusOK'
  BY DEF PoolInv, StartSucceeds, StartFails, BusOK, busVars
<1>2. handler.key \in Keys
  BY DEF PoolInv, HandlerKey, StartSucceeds, StartFails
<1>3. HandlerOK' /\ HandlerKey'
  BY DEF StartSucceeds, StartFails, HandlerOK, HandlerKey, HandlerSteps, Idle, At
<1>4. WorkersOK'
  BY DEF PoolInv, StartSucceeds, StartFails, WorkersOK, WorkerStates, ProcStates, ReclaimDir
<1>5. CASE StartSucceeds
  <2>1. MapOK' /\ CapOK'
    BY <1>5 DEF PoolInv, StartSucceeds, MapOK, CapOK, poolVars
  <2>2. QED
    BY <1>1, <1>3, <1>4, <2>1 DEF PoolInv
<1>6. CASE StartFails
  <2>1. pool' = [pool EXCEPT ![handler.key] = None] /\ UNCHANGED <<queue, spawned, keyOf>>
        /\ refused' = [refused EXCEPT ![handler.key] = TRUE]
    BY <1>6 DEF StartFails
  <2>2. /\ pool' \in [Keys -> Workers \cup {None}]
        /\ Cardinality(ActiveOf(pool')) <= Cardinality(ActiveOf(pool))
    BY <1>2, <2>1, DeleteShrinks DEF PoolInv, MapOK
  <2>3. CapOK'
    <3>1. Cardinality(ActiveOf(pool)) \in Nat /\ Cardinality(ActiveOf(pool')) \in Nat
      BY ActiveFinite
    <3>2. QED
      BY <2>2, <3>1 DEF PoolInv, CapOK
  <2>4. MapOK'
    BY <2>1, <2>2 DEF PoolInv, MapOK
  <2>5. QED
    BY <1>1, <1>3, <1>4, <2>3, <2>4 DEF PoolInv
<1>7. QED
  BY <1>5, <1>6

\* removeStream, up to its await.
LEMMA RemoveStreamStep ==
  ASSUME PoolInv, NEW k \in Keys, RemoveStream(k)
  PROVE  PoolInv'
<1>1. BusOK'
  <2>1. ConsumeEnded(k)
    BY DEF RemoveStream
  <2>2. QED
    BY <2>1, BusStep DEF PoolInv
<1>2. CASE StopWorkers({pool[k]}) /\ handler' = At("remove", k) /\ UNCHANGED poolVars
  <2>1. WorkersOK'
    BY <1>2, StopWorkersType DEF PoolInv
  <2>2. MapOK' /\ CapOK'
    BY <1>2 DEF PoolInv, poolVars, MapOK, CapOK
  <2>3. HandlerOK' /\ HandlerKey'
    BY <1>2 DEF HandlerOK, HandlerKey, HandlerSteps, At
  <2>4. QED
    BY <1>1, <2>1, <2>2, <2>3 DEF PoolInv
<1>3. CASE /\ WithdrawEvent(k)
           /\ UNCHANGED <<pool, spawned, keyOf, refused, workerVars, handler>>
  <2>1. queue' \in Seq(Keys)
    BY <1>3, WithdrawType DEF PoolInv, MapOK
  <2>2. MapOK' /\ CapOK'
    BY <1>3, <2>1 DEF PoolInv, MapOK, CapOK
  <2>3. WorkersOK' /\ HandlerOK' /\ HandlerKey'
    BY <1>3 DEF PoolInv, workerVars, WorkersOK, HandlerOK, HandlerKey
  <2>4. QED
    BY <1>1, <2>2, <2>3 DEF PoolInv
<1>4. QED
  BY <1>2, <1>3 DEF RemoveStream

\* removeStream, after the worker has stopped.
LEMMA FinishRemoveStep ==
  ASSUME PoolInv, FinishRemove
  PROVE  PoolInv'
<1>1. handler.key \in Keys
  BY DEF PoolInv, HandlerKey, FinishRemove
<1>2. pool' = [pool EXCEPT ![handler.key] = None]
  BY DEF FinishRemove
<1>3. /\ pool' \in [Keys -> Workers \cup {None}]
      /\ Cardinality(ActiveOf(pool')) <= Cardinality(ActiveOf(pool))
  BY <1>1, <1>2, DeleteShrinks DEF PoolInv, MapOK
<1>4. CapOK'
  <2>1. Cardinality(ActiveOf(pool)) \in Nat /\ Cardinality(ActiveOf(pool')) \in Nat
    BY ActiveFinite
  <2>2. QED
    BY <1>3, <2>1 DEF PoolInv, CapOK
<1>5. BusOK' /\ MapOK' /\ WorkersOK'
  BY <1>3 DEF PoolInv, FinishRemove, BusOK, MapOK, WorkersOK, busVars, workerVars
<1>6. HandlerOK' /\ HandlerKey'
  BY DEF FinishRemove, AfterRemove, At, HandlerOK, HandlerKey, HandlerSteps
<1>7. QED
  BY <1>4, <1>5, <1>6 DEF PoolInv

\* drainQueue, one iteration of its loop.
LEMMA DrainQueueStep ==
  ASSUME PoolInv, DrainQueue
  PROVE  PoolInv'
<1>1. BusOK'
  BY DEF PoolInv, DrainQueue, BusOK, busVars
<1>2. CASE handler' = Idle /\ UNCHANGED <<poolVars, workerVars>>
  <2>1. MapOK' /\ WorkersOK' /\ CapOK'
    BY <1>2 DEF PoolInv, MapOK, WorkersOK, CapOK, poolVars, workerVars
  <2>2. HandlerOK' /\ HandlerKey'
    BY <1>2 DEF Idle, HandlerOK, HandlerKey, HandlerSteps
  <2>3. QED
    BY <1>1, <2>1, <2>2 DEF PoolInv
<1>3. CASE /\ ~IsFull /\ queue # <<>> /\ SpawnWorker(Head(queue), pool)
           /\ queue' = Shifted /\ handler' = At("drainSpawn", Head(queue))
  <2>1. Head(queue) \in Keys /\ queue' \in Seq(Keys)
    BY <1>3 DEF PoolInv, MapOK, Shifted
  <2>2. pool \in [Keys -> Workers \cup {None}] /\ ~Full(pool)
    BY <1>3 DEF PoolInv, MapOK, IsFull
  <2>3. MapOK' /\ WorkersOK' /\ CapOK'
    BY <1>3, <2>1, <2>2, SpawnKeepsCap DEF PoolInv
  <2>4. HandlerOK' /\ HandlerKey'
    BY <1>3, <2>1 DEF At, HandlerOK, HandlerKey, HandlerSteps
  <2>5. QED
    BY <1>1, <2>3, <2>4 DEF PoolInv
<1>4. QED
  BY <1>2, <1>3 DEF DrainQueue

\* drainAll.
LEMMA ShutdownStep ==
  ASSUME PoolInv, Shutdown \/ FinishShutdown
  PROVE  PoolInv'
<1>1. BusOK'
  BY DEF PoolInv, Shutdown, FinishShutdown, BusOK, busVars
<1>2. HandlerOK' /\ HandlerKey'
  BY DEF Shutdown, FinishShutdown, At, HandlerOK, HandlerKey, HandlerSteps
<1>3. CASE Shutdown
  <2>1. WorkersOK'
    BY <1>3, StopWorkersType DEF PoolInv, Shutdown
  <2>2. MapOK' /\ CapOK'
    BY <1>3 DEF PoolInv, Shutdown, MapOK, CapOK
  <2>3. QED
    BY <1>1, <1>2, <2>1, <2>2 DEF PoolInv
<1>4. CASE FinishShutdown
  <2>1. ActiveOf(pool') = {}
    BY <1>4 DEF FinishShutdown, ActiveOf
  <2>2. CapOK'
    BY <2>1, FS_EmptySet DEF CapOK
  <2>3. MapOK' /\ WorkersOK'
    BY <1>4 DEF PoolInv, FinishShutdown, MapOK, WorkersOK, workerVars
  <2>4. QED
    BY <1>1, <1>2, <2>2, <2>3 DEF PoolInv
<1>5. QED
  BY <1>3, <1>4

\* Child processes and timers leave the map alone.
LEMMA WorkerStepStep ==
  ASSUME PoolInv, NEW w \in Workers, WorkerStep(w)
  PROVE  PoolInv'
<1>1. UNCHANGED <<busVars, poolVars, handler>>
  BY DEF WorkerStep, FfmpegEnds, FfmpegFails, ForceKill, Settle
<1>2. BusOK' /\ MapOK' /\ HandlerOK' /\ HandlerKey' /\ CapOK'
  BY <1>1 DEF PoolInv, BusOK, MapOK, HandlerOK, HandlerKey, CapOK, busVars, poolVars
<1>3. WorkersOK'
  <2>1. CASE FfmpegEnds(w)
    BY <2>1 DEF PoolInv, WorkersOK, FfmpegEnds, ReclaimDir, ProcStates
  <2>2. CASE FfmpegFails(w)
    BY <2>2 DEF PoolInv, WorkersOK, FfmpegFails, CrashState, ProcStates, WorkerStates
  <2>3. CASE ForceKill(w)
    BY <2>3 DEF PoolInv, WorkersOK, ForceKill, ProcStates
  <2>4. CASE Settle(w)
    BY <2>4 DEF PoolInv, WorkersOK, Settle, ReclaimDir, WorkerStates
  <2>5. QED
    BY <2>1, <2>2, <2>3, <2>4 DEF WorkerStep
<1>4. QED
  BY <1>2, <1>3 DEF PoolInv

LEMMA NextPoolInv == PoolInv /\ [Next]_vars => PoolInv'
<1> SUFFICES ASSUME PoolInv, [Next]_vars PROVE PoolInv'
  OBVIOUS
<1>1. ASSUME NEW k \in Keys, Broadcast(k) \/ LoseMessage(k) PROVE PoolInv'
  <2>1. BusOK'
    BY <1>1, BusStep DEF PoolInv
  <2>2. MapOK' /\ WorkersOK' /\ HandlerOK' /\ HandlerKey' /\ CapOK'
    BY <1>1 DEF PoolInv, Broadcast, LoseMessage, MapOK, WorkersOK, HandlerOK, HandlerKey, CapOK,
                poolVars, workerVars
  <2>3. QED
    BY <2>1, <2>2 DEF PoolInv
<1>2. ASSUME NEW k \in Keys, AddStream(k) PROVE PoolInv'
  BY <1>2, AddStreamStep
<1>3. ASSUME NEW k \in Keys, RemoveStream(k) PROVE PoolInv'
  BY <1>3, RemoveStreamStep
<1>4. CASE HandlerStep
  BY <1>4, FinishReplaceStep, StartStep, FinishRemoveStep, DrainQueueStep, ShutdownStep
  DEF HandlerStep
<1>5. CASE Shutdown
  BY <1>5, ShutdownStep
<1>6. ASSUME NEW w \in Workers, WorkerStep(w) PROVE PoolInv'
  BY <1>6, WorkerStepStep
<1>7. CASE UNCHANGED vars
  BY <1>7 DEF vars, busVars, poolVars, workerVars, PoolInv, BusOK, MapOK, WorkersOK,
              HandlerOK, HandlerKey, CapOK
<1>8. QED
  BY <1>1, <1>2, <1>3, <1>4, <1>5, <1>6, <1>7 DEF Next

THEOREM PoolInvHolds == Spec => []PoolInv
  BY InitPoolInv, NextPoolInv, PTL DEF Spec

\* Every variable keeps its type in every behaviour (workerPool.ts and
\* streamWorker.ts, whatever the number of keys, messages and workers).
THEOREM TypeCorrect == Spec => []TypeOK
<1>1. PoolInv => TypeOK
  BY DEF PoolInv, BusOK, MapOK, WorkersOK, HandlerOK, TypeOK
<1>2. QED
  BY <1>1, PoolInvHolds, PTL

\* The map never holds more workers than MAX_CONCURRENT_STREAMS: every entry is
\* made on a path that has just found the pool not full.
THEOREM CapacityHolds == Spec => []Capacity
<1>1. PoolInv => Capacity
  BY DEF PoolInv, CapOK, Capacity, ActiveKeys, ActiveOf
<1>2. QED
  BY <1>1, PoolInvHolds, PTL

----------------------------------------------------------------------------
(* Waiting, and the slot queue.                                            *)

\* Outside drainQueue the queue is empty or the map full, until a start fails.
QueueOrder ==
  NoneRefused /\ queue # <<>> /\ handler.pc \notin {"drain", "drainSpawn"} => IsFull

\* drainAll has cleared the queue and nothing fills it again.
QueueCleared == handler.pc \in {"drainAll", "exited"} => queue = <<>>

\* The worker a handler waits for is in the map.
HeldKey ==
  handler.pc \in {"replace", "spawn", "remove", "drainSpawn"} => pool[handler.key] # None

\* The inductive invariant behind the refinement.
QueueInv == PoolInv /\ QueueOrder /\ QueueCleared /\ HeldKey

\* What a step may do to what SlotQueue sees, if it does anything.
SlotStep == [Slots!Next]_(Slots!slotVars)

----------------------------------------------------------------------------

LEMMA ActiveIsActiveOf == ActiveKeys = ActiveOf(pool) /\ (ActiveKeys)' = ActiveOf(pool')
  BY DEF ActiveKeys, ActiveOf

\* SlotQueue counts with its own instance of FiniteSets.
LEMMA SameCardinality ==
  ASSUME NEW S
  PROVE  Slots!Cardinality(S) = Cardinality(S)
  BY DEF Slots!Cardinality, Cardinality, Slots!IsFiniteSet, IsFiniteSet

LEMMA FullIsActive ==
  ASSUME NEW p
  PROVE  Full(p) <=> Cardinality(ActiveOf(p)) >= MaxConcurrent
  BY DEF Full, ActiveOf

LEMMA FreeIsNotFull == Slots!Free <=> ~Full(pool)
<1>1. Cardinality(ActiveOf(pool)) \in Nat /\ MaxConcurrent \in Nat
  BY ActiveFinite
<1>2. Full(pool) <=> Cardinality(ActiveOf(pool)) >= MaxConcurrent
  BY FullIsActive
<1>3. Slots!Cardinality(ActiveKeys) = Cardinality(ActiveOf(pool))
  BY SameCardinality, ActiveIsActiveOf
<1>4. Slots!Free <=> Slots!Cardinality(ActiveKeys) < MaxConcurrent
  BY DEF Slots!Free
<1>5. QED
  BY <1>1, <1>2, <1>3, <1>4

\* A step that leaves map, queue and refused alone is a stutter of SlotQueue.
LEMMA Stutter ==
  ASSUME UNCHANGED <<pool, queue, refused>>
  PROVE  SlotStep /\ (IsFull' <=> IsFull) /\ (NoneRefused' <=> NoneRefused)
<1>1. UNCHANGED <<ActiveKeys, queue, NoneRefused>>
  BY DEF ActiveKeys, NoneRefused
<1>2. SlotStep
  BY <1>1 DEF SlotStep, Slots!slotVars
<1>3. QED
  BY <1>1, <1>2 DEF IsFull, Full

\* Such a step keeps the invariant if it leaves the handler alone as well.
LEMMA StutterKeepsInv ==
  ASSUME QueueInv, UNCHANGED <<pool, queue, refused, handler>>
  PROVE  (QueueOrder /\ QueueCleared /\ HeldKey)' /\ SlotStep
<1>1. SlotStep /\ (IsFull' <=> IsFull) /\ (NoneRefused' <=> NoneRefused)
  BY Stutter
<1>2. QED
  BY <1>1 DEF QueueInv, QueueOrder, QueueCleared, HeldKey

\* spawnWorker in terms of the map's keys.
LEMMA SpawnAddsKey ==
  ASSUME NEW p \in [Keys -> Workers \cup {None}], NEW k \in Keys, SpawnWorker(k, p)
  PROVE  /\ ActiveOf(pool') = ActiveOf(p) \cup {k}
         /\ pool'[k] # None
         /\ refused' = refused
<1>1. spawned + 1 \in Workers /\ pool' = [p EXCEPT ![k] = spawned + 1]
  BY DEF SpawnWorker
<1>2. QED
  BY <1>1, NoneIsNoWorker DEF SpawnWorker, ActiveOf

LEMMA InitQueueInv == Init => QueueInv /\ Slots!Init
<1> SUFFICES ASSUME Init PROVE QueueInv /\ Slots!Init
  OBVIOUS
<1>1. QueueOrder /\ QueueCleared /\ HeldKey
  BY DEF Init, QueueOrder, QueueCleared, HeldKey, Idle
<1>2. ActiveKeys = {} /\ NoneRefused
  BY DEF Init, ActiveKeys, NoneRefused
<1>3. Slots!Init
  BY <1>2 DEF Init, Slots!Init
<1>4. QED
  BY <1>1, <1>3, InitPoolInv DEF QueueInv

\* addStream, up to its first await: a stutter, Wait or Start.
LEMMA AddStreamRefines ==
  ASSUME QueueInv, NEW k \in Keys, AddStream(k)
  PROVE  (QueueOrder /\ QueueCleared /\ HeldKey)' /\ SlotStep
<1>1. handler.pc = "idle"
  BY DEF AddStream
<1>2. CASE UNCHANGED <<poolVars, workerVars, handler>>
  BY <1>2, StutterKeepsInv DEF poolVars
<1>3. CASE pool[k] # None /\ handler' = At("replace", k) /\ UNCHANGED poolVars
  <2>1. SlotStep /\ (IsFull' <=> IsFull) /\ (NoneRefused' <=> NoneRefused)
    BY <1>3, Stutter DEF poolVars
  <2>2. QED
    BY <1>1, <1>3, <2>1 DEF QueueInv, QueueOrder, QueueCleared, HeldKey, At, poolVars
<1>4. CASE pool[k] = None /\ Full(pool) /\ Admit(k, pool)
  <2>1. /\ queue' = Append(queue, k) /\ pool' = pool /\ handler' = Idle
        /\ refused' = refused
    BY <1>4 DEF Admit
  <2>2. IsFull'
    BY <1>4, <2>1 DEF IsFull, Full
  <2>3. (QueueOrder /\ QueueCleared /\ HeldKey)'
    BY <2>1, <2>2 DEF QueueOrder, QueueCleared, HeldKey, Idle
  <2>4. UNCHANGED <<ActiveKeys, NoneRefused>>
    BY <2>1 DEF ActiveKeys, NoneRefused
  <2>5. ~Slots!Free
    BY <1>4, FreeIsNotFull
  <2>6. Slots!Wait(k)
    BY <2>1, <2>4, <2>5 DEF Slots!Wait
  <2>7. QED
    BY <2>3, <2>6 DEF SlotStep, Slots!Next
<1>5. CASE pool[k] = None /\ ~Full(pool) /\ Admit(k, pool)
  <2>1. SpawnWorker(k, pool) /\ queue' = queue /\ handler' = At("spawn", k)
    BY <1>5 DEF Admit
  <2>2. pool \in [Keys -> Workers \cup {None}]
    BY DEF QueueInv, PoolInv, MapOK
  <2>3. /\ ActiveOf(pool') = ActiveOf(pool) \cup {k}
        /\ pool'[k] # None /\ refused' = refused
    BY <2>1, <2>2, SpawnAddsKey
  <2>4. queue = <<>> \/ ~NoneRefused
    BY <1>1, <1>5 DEF QueueInv, QueueOrder, IsFull
  <2>5. NoneRefused' <=> NoneRefused
    BY <2>3 DEF NoneRefused
  <2>6. (QueueOrder /\ QueueCleared /\ HeldKey)'
    BY <2>1, <2>3, <2>4, <2>5 DEF QueueOrder, QueueCleared, HeldKey, At
  <2>7. Slots!Free
    BY <1>5, FreeIsNotFull
  <2>8. k \notin ActiveKeys
    BY <1>5 DEF ActiveKeys
  <2>9. Slots!Start(k)
    BY <2>1, <2>3, <2>4, <2>5, <2>7, <2>8, ActiveIsActiveOf DEF Slots!Start
  <2>10. QED
    BY <2>6, <2>9 DEF SlotStep, Slots!Next
<1>6. QED
  BY <1>2, <1>3, <1>4, <1>5 DEF AddStream

\* addStream, after the stale worker has stopped: the key keeps its slot, which
\* is free by then, so that SlotQueue sees nothing.
LEMMA FinishReplaceRefines ==
  ASSUME QueueInv, FinishReplace
  PROVE  (QueueOrder /\ QueueCleared /\ HeldKey)' /\ SlotStep
<1> DEFINE k == handler.key
           p == [pool EXCEPT ![k] = None]
<1>1. /\ k \in Keys /\ pool[k] # None
      /\ pool \in [Keys -> Workers \cup {None}]
      /\ handler.pc = "replace"
  BY DEF QueueInv, PoolInv, MapOK, HandlerKey, HeldKey, FinishReplace
<1>2. p \in [Keys -> Workers \cup {None}] /\ ActiveOf(p) = ActiveOf(pool) \ {k}
  BY <1>1, DeleteShrinks
<1>3. k \in ActiveOf(pool)
  BY <1>1 DEF ActiveOf
<1>4. ~Full(p)
  <2>1. IsFiniteSet(ActiveOf(pool)) /\ Cardinality(ActiveOf(pool)) \in Nat
    BY ActiveFinite
  <2>2. Cardinality(ActiveOf(p)) = Cardinality(ActiveOf(pool)) - 1
    BY <1>2, <1>3, <2>1, FS_RemoveElement
  <2>3. Cardinality(ActiveOf(pool)) <= MaxConcurrent
    BY DEF QueueInv, PoolInv, CapOK
  <2>4. ~(Cardinality(ActiveOf(p)) >= MaxConcurrent)
    BY <2>1, <2>2, <2>3
  <2>5. QED
    BY <2>4, FullIsActive
<1>5. Admit(k, p)
  BY DEF FinishReplace
<1>6. SpawnWorker(k, p) /\ queue' = queue /\ handler' = At("spawn", k)
  BY <1>4, <1>5 DEF Admit
<1>7. /\ ActiveOf(pool') = ActiveOf(p) \cup {k}
      /\ pool'[k] # None /\ refused' = refused
  <2> HIDE DEF p, k
  <2>1. QED
    BY <1>1, <1>2, <1>6, SpawnAddsKey
<1>8. ActiveKeys' = ActiveKeys /\ NoneRefused' = NoneRefused
  <2> HIDE DEF p, k
  <2>1. ActiveOf(pool') = ActiveOf(pool)
    BY <1>2, <1>3, <1>7
  <2>2. ActiveKeys' = ActiveKeys
    BY <2>1, ActiveIsActiveOf
  <2>3. QED
    BY <1>7, <2>2 DEF NoneRefused
<1>9. IsFull' <=> IsFull
  BY <1>8 DEF IsFull, Full, ActiveKeys
<1>10. SlotStep
  BY <1>6, <1>8 DEF SlotStep, Slots!slotVars
<1>11. (QueueOrder /\ QueueCleared /\ HeldKey)'
  BY <1>1, <1>6, <1>7, <1>8, <1>9 DEF QueueInv, QueueOrder, QueueCleared, HeldKey, At
<1>12. QED
  BY <1>10, <1>11

\* start() returns: a stutter.  It throws: the slot is given back.
LEMMA StartRefines ==
  ASSUME QueueInv, StartSucceeds \/ StartFails
  PROVE  (QueueOrder /\ QueueCleared /\ HeldKey)' /\ SlotStep
<1>1. /\ handler.pc \in {"spawn", "drainSpawn"}
      /\ handler' = IF handler.pc = "spawn" THEN Idle ELSE At("drain", None)
  BY DEF StartSucceeds, StartFails
<1>2. CASE StartSucceeds
  <2>1. UNCHANGED <<pool, queue, refused>>
    BY <1>2 DEF StartSucceeds, poolVars
  <2>2. SlotStep /\ (IsFull' <=> IsFull) /\ (NoneRefused' <=> NoneRefused)
    BY <2>1, Stutter
  <2>3. QED
    BY <1>1, <2>1, <2>2 DEF QueueInv, QueueOrder, QueueCleared, HeldKey, Idle, At
<1>3. CASE StartFails
  <2>1. /\ handler.key \in Keys /\ pool[handler.key] # None
        /\ pool \in [Keys -> Workers \cup {None}] /\ refused \in [Keys -> BOOLEAN]
    BY <1>1 DEF QueueInv, PoolInv, MapOK, HandlerKey, HeldKey
  <2>2. /\ pool' = [pool EXCEPT ![handler.key] = None] /\ queue' = queue
        /\ refused' = [refused EXCEPT ![handler.key] = TRUE]
    BY <1>3 DEF StartFails
  <2>3. ~NoneRefused'
    BY <2>1, <2>2 DEF NoneRefused
  <2>4. ActiveKeys' = ActiveKeys \ {handler.key} /\ handler.key \in ActiveKeys
    BY <2>1, <2>2 DEF ActiveKeys
  <2>5. Slots!Leave(handler.key)
    BY <2>2, <2>3, <2>4 DEF Slots!Leave
  <2>6. (QueueOrder /\ QueueCleared /\ HeldKey)'
    BY <1>1, <2>3 DEF QueueOrder, QueueCleared, HeldKey, Idle, At
  <2>7. QED
    BY <2>1, <2>5, <2>6 DEF SlotStep, Slots!Next
<1>4. QED
  BY <1>2, <1>3

\* removeStream, up to its await: a stutter, or Withdraw.
LEMMA RemoveStreamRefines ==
  ASSUME QueueInv, NEW k \in Keys, RemoveStream(k)
  PROVE  (QueueOrder /\ QueueCleared /\ HeldKey)' /\ SlotStep
<1>1. handler.pc = "idle"
  BY DEF RemoveStream
<1>2. CASE pool[k] # None /\ handler' = At("remove", k) /\ UNCHANGED poolVars
  <2>1. SlotStep /\ (IsFull' <=> IsFull) /\ (NoneRefused' <=> NoneRefused)
    BY <1>2, Stutter DEF poolVars
  <2>2. QED
    BY <1>1, <1>2, <2>1 DEF QueueInv, QueueOrder, QueueCleared, HeldKey, At, poolVars
<1>3. CASE Positions(k) = {} /\ UNCHANGED <<pool, queue, refused, handler>>
  BY <1>3, StutterKeepsInv
<1>4. ASSUME NEW i \in Positions(k), queue' = Without(i),
             UNCHANGED <<pool, refused, handler>>
      PROVE  (QueueOrder /\ QueueCleared /\ HeldKey)' /\ SlotStep
  <2>1. i \in 1 .. Len(queue) /\ queue # <<>>
    BY <1>4 DEF Positions, QueueInv, PoolInv, MapOK
  <2>2. UNCHANGED <<ActiveKeys, NoneRefused, IsFull>>
    BY <1>4 DEF ActiveKeys, NoneRefused, IsFull, Full
  <2>3. Slots!Withdraw(i)
    BY <1>4, <2>2 DEF Slots!Withdraw, Without
  <2>4. (QueueOrder /\ QueueCleared /\ HeldKey)'
    BY <1>1, <1>4, <2>1, <2>2 DEF QueueInv, QueueOrder, QueueCleared, HeldKey
  <2>5. QED
    BY <2>1, <2>3, <2>4 DEF SlotStep, Slots!Next
<1>5. QED
  BY <1>2, <1>3, <1>4 DEF RemoveStream, WithdrawEvent

\* removeStream, after the worker has stopped: the slot is given back.
LEMMA FinishRemoveRefines ==
  ASSUME QueueInv, FinishRemove
  PROVE  (QueueOrder /\ QueueCleared /\ HeldKey)' /\ SlotStep
<1>1. /\ handler.key \in Keys /\ pool[handler.key] # None
      /\ pool \in [Keys -> Workers \cup {None}]
  BY DEF QueueInv, PoolInv, MapOK, HandlerKey, HeldKey, FinishRemove
<1>2. /\ pool' = [pool EXCEPT ![handler.key] = None]
      /\ handler' = At("drain", None) /\ UNCHANGED <<queue, refused>>
  BY DEF FinishRemove, AfterRemove
<1>3. ActiveKeys' = ActiveKeys \ {handler.key} /\ handler.key \in ActiveKeys
  BY <1>1, <1>2 DEF ActiveKeys
<1>4. NoneRefused' = NoneRefused
  BY <1>2 DEF NoneRefused
<1>5. Slots!Leave(handler.key)
  BY <1>2, <1>3, <1>4 DEF Slots!Leave
<1>6. (QueueOrder /\ QueueCleared /\ HeldKey)'
  BY <1>2 DEF QueueOrder, QueueCleared, HeldKey, At
<1>7. QED
  BY <1>1, <1>5, <1>6 DEF SlotStep, Slots!Next

\* drainQueue: a stutter when its loop ends, Dispatch while it goes on.
LEMMA DrainQueueRefines ==
  ASSUME QueueInv, DrainQueue
  PROVE  (QueueOrder /\ QueueCleared /\ HeldKey)' /\ SlotStep
<1>1. CASE /\ IsFull \/ queue = <<>>
           /\ handler' = Idle /\ UNCHANGED poolVars
  <2>1. SlotStep /\ (IsFull' <=> IsFull) /\ (NoneRefused' <=> NoneRefused)
    BY <1>1, Stutter DEF poolVars
  <2>2. QED
    BY <1>1, <2>1 DEF QueueOrder, QueueCleared, HeldKey, Idle, poolVars
<1>2. CASE /\ ~IsFull /\ queue # <<>> /\ SpawnWorker(Head(queue), pool)
           /\ queue' = Shifted /\ handler' = At("drainSpawn", Head(queue))
  <2>1. Head(queue) \in Keys /\ pool \in [Keys -> Workers \cup {None}]
    BY <1>2 DEF QueueInv, PoolInv, MapOK
  <2>2. /\ ActiveOf(pool') = ActiveOf(pool) \cup {Head(queue)}
        /\ pool'[Head(queue)] # None /\ refused' = refused
    BY <1>2, <2>1, SpawnAddsKey
  <2>3. Slots!Free
    BY <1>2, FreeIsNotFull DEF IsFull
  <2>4. NoneRefused' = NoneRefused
    BY <2>2 DEF NoneRefused
  <2>5. Slots!Dispatch
    BY <1>2, <2>2, <2>3, <2>4, ActiveIsActiveOf DEF Slots!Dispatch, Shifted
  <2>6. (QueueOrder /\ QueueCleared /\ HeldKey)'
    BY <1>2, <2>2 DEF QueueOrder, QueueCleared, HeldKey, At
  <2>7. QED
    BY <2>5, <2>6 DEF SlotStep, Slots!Next
<1>3. QED
  BY <1>1, <1>2 DEF DrainQueue

\* drainAll: nobody waits any more, and then nobody holds a slot.
LEMMA ShutdownRefines ==
  ASSUME QueueInv, Shutdown \/ FinishShutdown
  PROVE  (QueueOrder /\ QueueCleared /\ HeldKey)' /\ SlotStep
<1>1. CASE Shutdown
  <2>1. queue' = <<>> /\ handler' = At("drainAll", None) /\ UNCHANGED <<pool, refused>>
    BY <1>1 DEF Shutdown
  <2>2. UNCHANGED <<ActiveKeys, NoneRefused>>
    BY <2>1 DEF ActiveKeys, NoneRefused
  <2>3. Slots!Close
    BY <2>1, <2>2 DEF Slots!Close
  <2>4. QED
    BY <2>1, <2>3 DEF QueueOrder, QueueCleared, HeldKey, At, SlotStep, Slots!Next
<1>2. CASE FinishShutdown
  <2>1. queue = <<>>
    BY <1>2 DEF FinishShutdown, QueueInv, QueueCleared
  <2>2. /\ pool' = [k \in Keys |-> None] /\ handler' = At("exited", None)
        /\ UNCHANGED <<queue, refused>>
    BY <1>2 DEF FinishShutdown
  <2>3. ActiveKeys' = {} /\ NoneRefused' = NoneRefused
    BY <2>2 DEF ActiveKeys, NoneRefused
  <2>4. Slots!Close
    BY <2>1, <2>2, <2>3 DEF Slots!Close
  <2>5. QED
    BY <2>1, <2>2, <2>4 DEF QueueOrder, QueueCleared, HeldKey, At, SlotStep, Slots!Next
<1>3. QED
  BY <1>1, <1>2

----------------------------------------------------------------------------

LEMMA NextRefines == QueueInv /\ [Next]_vars => QueueInv' /\ SlotStep
<1> SUFFICES ASSUME QueueInv, [Next]_vars PROVE QueueInv' /\ SlotStep
  OBVIOUS
<1>1. PoolInv'
  BY NextPoolInv DEF QueueInv
<1>2. (QueueOrder /\ QueueCleared /\ HeldKey)' /\ SlotStep
  <2>1. ASSUME NEW k \in Keys, Broadcast(k) \/ LoseMessage(k)
        PROVE  (QueueOrder /\ QueueCleared /\ HeldKey)' /\ SlotStep
    BY <2>1, StutterKeepsInv DEF Broadcast, LoseMessage, poolVars
  <2>2. ASSUME NEW k \in Keys, AddStream(k) \/ RemoveStream(k)
        PROVE  (QueueOrder /\ QueueCleared /\ HeldKey)' /\ SlotStep
    BY <2>2, AddStreamRefines, RemoveStreamRefines
  <2>3. CASE HandlerStep
    BY <2>3, FinishReplaceRefines, StartRefines, FinishRemoveRefines,
       DrainQueueRefines, ShutdownRefines DEF HandlerStep
  <2>4. CASE Shutdown
    BY <2>4, ShutdownRefines
  <2>5. ASSUME NEW w \in Workers, WorkerStep(w)
        PROVE  (QueueOrder /\ QueueCleared /\ HeldKey)' /\ SlotStep
    BY <2>5, StutterKeepsInv
    DEF WorkerStep, FfmpegEnds, FfmpegFails, ForceKill, Settle, poolVars
  <2>6. CASE UNCHANGED vars
    BY <2>6, StutterKeepsInv DEF vars, poolVars
  <2>7. QED
    BY <2>1, <2>2, <2>3, <2>4, <2>5, <2>6 DEF Next
<1>3. QED
  BY <1>1, <1>2 DEF QueueInv

THEOREM QueueInvHolds == Spec => []QueueInv
<1>1. Init => QueueInv
  BY InitQueueInv
<1>2. QueueInv /\ [Next]_vars => QueueInv'
  BY NextRefines
<1>3. QED
  BY <1>1, <1>2, PTL DEF Spec

\* Between two handlers a stream waits only while every slot is taken, unless a
\* failed start has left one empty (addStream, removeStream and drainQueue).
THEOREM WaitsOnlyWhenFullHolds == Spec => []WaitsOnlyWhenFull
<1>1. QueueInv => WaitsOnlyWhenFull
  BY DEF QueueInv, QueueOrder, WaitsOnlyWhenFull
<1>2. QED
  BY <1>1, QueueInvHolds, PTL

\* The pool implements the bounded first-in first-out slot queue: no newcomer
\* overtakes a waiting stream, whatever stops, fails or reconnects.
THEOREM PoolRefinesSlotQueue == Spec => ImplementsSlotQueue
<1>1. Init => Slots!Init
  BY InitQueueInv
<1>2. QueueInv /\ [Next]_vars => [Slots!Next]_(Slots!slotVars)
  BY NextRefines DEF SlotStep
<1>3. QED
  BY <1>1, <1>2, QueueInvHolds, PTL DEF Spec, ImplementsSlotQueue, Slots!Spec

----------------------------------------------------------------------------
(* Workers, and keys in order.                                             *)

\* What a worker's process, cleanup and directory may be together.
WorkerShape ==
  \A w \in Workers :
    /\ w > spawned => state[w] = "IDLE" /\ proc[w] = "none" /\ cleanup[w] = "no"
    /\ w <= spawned => keyOf[w] \in Keys
    /\ state[w] \in {"STOPPING", "DONE"} => cleanup[w] # "no"
    /\ cleanup[w] = "exit" => proc[w] = "signalled"
    /\ cleanup[w] \in {"settle", "over"} => proc[w] \notin {"running", "signalled"}
    /\ cleanup[w] = "over" => dir[w] = "reclaimed"

\* The map names workers of its own keys.
MapAgrees ==
  \A k \in Keys : pool[k] # None => pool[k] \in 1 .. spawned /\ keyOf[pool[k]] = k

\* A worker whose start is awaited has no process yet; one whose stop is
\* awaited has begun its cleanup; only disorder makes addStream replace one.
AwaitOK ==
  /\ handler.pc \in {"spawn", "drainSpawn"} =>
       proc[pool[handler.key]] = "none" /\ cleanup[pool[handler.key]] = "no"
  /\ handler.pc \in {"replace", "remove"} => cleanup[pool[handler.key]] # "no"
  /\ handler.pc = "replace" => ~ordered[handler.key]
  /\ handler.pc = "remove" /\ ordered[handler.key] =>
       gotStarted[handler.key] = gotEnded[handler.key]
  /\ handler.pc = "drainAll" => \A k \in ActiveKeys : cleanup[pool[k]] # "no"

\* A key in order waits at most once, and not while it has a worker.
QueuedOnce ==
  \A k \in Keys : ordered[k] =>
    /\ \A i, j \in 1 .. Len(queue) : queue[i] = k /\ queue[j] = k => i = j
    /\ Queued(k) => pool[k] = None

\* A key in order whose broadcasts are over has left, or is leaving; one with a
\* broadcast under way has a worker or waits, unless its start failed.
OffOK(k) ==
  /\ gotStarted[k] = gotEnded[k]
  /\ ~Queued(k)
  /\ \/ pool[k] = None
     \/ handler.pc = "remove" /\ handler.key = k
     \/ handler.pc = "drainAll"
OnOK(k) ==
  /\ gotStarted[k] = gotEnded[k] + 1
  /\ refused[k] \/ pool[k] # None \/ Queued(k) \/ handler.pc \in {"drainAll", "exited"}
OrderOK == \A k \in Keys : ordered[k] => OffOK(k) \/ OnOK(k)

RunParts ==
  WorkerShape /\ MapAgrees /\ AwaitOK /\ RemovedIsReleased /\ QueuedOnce /\ OrderOK

\* The inductive invariant behind RemovedIsReleased, OrderedEncodersWithinCap
\* and PoolTracksBroadcasts.
RunInv == QueueInv /\ RunParts

----------------------------------------------------------------------------

LEMMA RunTypes ==
  ASSUME RunInv
  PROVE  /\ published \in [Keys -> Nat] /\ gotStarted \in [Keys -> Nat]
         /\ gotEnded \in [Keys -> Nat] /\ ordered \in [Keys -> BOOLEAN]
         /\ refused \in [Keys -> BOOLEAN]
         /\ pool \in [Keys -> Workers \cup {None}]
         /\ queue \in Seq(Keys) /\ spawned \in 0 .. MaxWorkers
         /\ keyOf \in [Workers -> Keys \cup {None}]
         /\ WorkersOK
         /\ handler.pc \in {"replace", "spawn", "remove", "drainSpawn"} =>
              handler.key \in Keys /\ pool[handler.key] # None
  BY DEF RunInv, QueueInv, PoolInv, BusOK, MapOK, HandlerKey, HeldKey

\* stop() on workers of the map: their cleanup begins, and the others' goes on.
LEMMA StopKeepsShape ==
  ASSUME WorkersOK, WorkerShape, spawned \in 0 .. MaxWorkers, NEW S, StopWorkers(S),
         \A w \in S : w \in 1 .. spawned, UNCHANGED <<spawned, keyOf>>
  PROVE  /\ WorkerShape'
         /\ \A w \in Workers : cleanup[w] # "no" \/ w \in S => cleanup'[w] # "no"
         /\ \A w \in Workers : w \notin S => proc'[w] = proc[w]
         /\ dir' = dir
<1>1. /\ \A w \in Workers : w \notin S =>
           state'[w] = state[w] /\ proc'[w] = proc[w] /\ cleanup'[w] = cleanup[w]
      /\ dir' = dir
  BY DEF StopWorkers
<1>2. ASSUME NEW w \in Workers, w \in S
      PROVE  \/ /\ state[w] \in {"DONE", "STOPPING"}
                /\ state'[w] = state[w] /\ proc'[w] = proc[w] /\ cleanup'[w] = cleanup[w]
             \/ /\ IsRunning(w)
                /\ state'[w] = "STOPPING" /\ proc'[w] = "signalled" /\ cleanup'[w] = "exit"
             \/ /\ ~IsRunning(w)
                /\ state'[w] = "STOPPING" /\ proc'[w] = proc[w] /\ cleanup'[w] = "settle"
  BY <1>2 DEF StopWorkers
<1>3. ASSUME NEW w \in Workers, w \in S PROVE cleanup'[w] # "no"
  BY <1>2, <1>3 DEF WorkerShape
<1>4. WorkerShape'
  <2> SUFFICES ASSUME NEW w \in Workers
        PROVE  /\ w > spawned => state'[w] = "IDLE" /\ proc'[w] = "none" /\ cleanup'[w] = "no"
               /\ w <= spawned => keyOf[w] \in Keys
               /\ state'[w] \in {"STOPPING", "DONE"} => cleanup'[w] # "no"
               /\ cleanup'[w] = "exit" => proc'[w] = "signalled"
               /\ cleanup'[w] \in {"settle", "over"} => proc'[w] \notin {"running", "signalled"}
               /\ cleanup'[w] = "over" => dir'[w] = "reclaimed"
    BY DEF WorkerShape
  <2>1. CASE w \notin S
    BY <1>1, <2>1 DEF WorkerShape
  <2>2. CASE w \in S
    <3>1. ~(w > spawned)
      BY <2>2
    <3>2. QED
      BY <1>1, <1>2, <2>2, <3>1 DEF WorkerShape, IsRunning
  <2>3. QED
    BY <2>1, <2>2
<1>5. QED
  BY <1>1, <1>3, <1>4

\* What the counters of a key in order say after a message of k.
LEMMA StartedInOrder ==
  ASSUME BusOK, NEW k \in Keys, ConsumeStarted(k)
  PROVE  /\ \A j \in Keys : ordered'[j] => ordered[j]
         /\ \A j \in Keys \ {k} :
              gotStarted'[j] = gotStarted[j] /\ gotEnded'[j] = gotEnded[j]
         /\ ordered'[k] => /\ gotStarted[k] = gotEnded[k]
                           /\ gotStarted'[k] = gotEnded'[k] + 1
<1>1. CASE /\ gotStarted' = [gotStarted EXCEPT ![k] = @ + 1]
           /\ ordered' = [ordered EXCEPT ![k] = @ /\ gotEnded[k] = gotStarted[k]]
           /\ gotEnded' = gotEnded
  <2>1. \A j \in Keys \ {k} : ordered'[j] = ordered[j]
    BY <1>1 DEF BusOK
  <2>2. ordered'[k] = (ordered[k] /\ gotEnded[k] = gotStarted[k])
    BY <1>1, Zenon DEF BusOK
  <2>3. QED
    BY <1>1, <2>1, <2>2 DEF BusOK
<1>2. CASE /\ ordered' = [ordered EXCEPT ![k] = FALSE]
           /\ UNCHANGED <<gotStarted, gotEnded>>
  BY <1>2 DEF BusOK
<1>3. QED
  BY <1>1, <1>2 DEF ConsumeStarted

LEMMA EndedInOrder ==
  ASSUME BusOK, NEW k \in Keys, ConsumeEnded(k)
  PROVE  /\ \A j \in Keys : ordered'[j] => ordered[j]
         /\ \A j \in Keys \ {k} :
              gotStarted'[j] = gotStarted[j] /\ gotEnded'[j] = gotEnded[j]
         /\ ordered'[k] => /\ gotStarted[k] = gotEnded[k] + 1
                           /\ gotStarted'[k] = gotEnded'[k]
<1>1. /\ gotEnded' = [gotEnded EXCEPT ![k] = @ + 1]
      /\ ordered' = [ordered EXCEPT ![k] = @ /\ gotStarted[k] = gotEnded[k] + 1]
      /\ gotStarted' = gotStarted
  BY DEF ConsumeEnded
<1>2. \A j \in Keys \ {k} : ordered'[j] = ordered[j]
  BY <1>1 DEF BusOK
<1>3. ordered'[k] = (ordered[k] /\ gotStarted[k] = gotEnded[k] + 1)
  BY <1>1, Zenon DEF BusOK
<1>4. QED
  BY <1>1, <1>2, <1>3 DEF BusOK

\* A key in order between two handlers.
LEMMA OffBetweenHandlers ==
  ASSUME RunInv, NEW k \in Keys, ordered[k], handler.pc = "idle",
         gotStarted[k] = gotEnded[k]
  PROVE  pool[k] = None /\ ~Queued(k)
<1>1. gotEnded[k] \in Nat
  BY RunTypes
<1>2. OffOK(k) \/ OnOK(k)
  BY DEF RunInv, RunParts, OrderOK
<1>3. QED
  BY <1>1, <1>2 DEF OffOK, OnOK

LEMMA OnBetweenHandlers ==
  ASSUME RunInv, NEW k \in Keys, ordered[k], gotStarted[k] = gotEnded[k] + 1
  PROVE  OnOK(k)
<1>1. gotEnded[k] \in Nat
  BY RunTypes
<1>2. OffOK(k) \/ OnOK(k)
  BY DEF RunInv, RunParts, OrderOK
<1>3. QED
  BY <1>1, <1>2 DEF OffOK, OnOK

\* The workers that have left the map stay released while nobody touches them.
LEMMA ReleasedFrame ==
  ASSUME RunInv, \A k \in Keys : ordered'[k] => ordered[k],
         UNCHANGED <<pool, spawned, keyOf>>,
         \A w \in 1 .. spawned : pool[keyOf[w]] # w =>
           /\ proc'[w] = proc[w] \/ proc'[w] \notin {"running", "signalled"}
           /\ dir'[w] = dir[w] \/ dir'[w] = "reclaimed"
  PROVE  RemovedIsReleased'
<1> SUFFICES ASSUME NEW w \in 1 .. spawned, pool[keyOf[w]] # w, ordered'[keyOf[w]]
      PROVE  proc'[w] \notin {"running", "signalled"} /\ dir'[w] = "reclaimed"
  BY DEF RemovedIsReleased
<1>1. w \in Workers /\ w <= spawned
  BY RunTypes DEF Workers
<1>2. keyOf[w] \in Keys
  BY <1>1 DEF RunInv, RunParts, WorkerShape
<1>3. ordered[keyOf[w]]
  BY <1>2
<1>4. proc[w] \notin {"running", "signalled"} /\ dir[w] = "reclaimed"
  BY <1>3 DEF RunInv, RunParts, RemovedIsReleased
<1>5. QED
  BY <1>4

\* A step that leaves map, queue and handler alone keeps what is said of the
\* keys whose counters it leaves alone or that it takes out of order.
LEMMA KeysFrame ==
  ASSUME RunInv, UNCHANGED <<pool, queue, handler, refused>>,
         \A k \in Keys : ordered'[k] =>
           ordered[k] /\ gotStarted'[k] = gotStarted[k] /\ gotEnded'[k] = gotEnded[k]
  PROVE  QueuedOnce' /\ OrderOK'
<1>1. QueuedOnce'
  BY DEF RunInv, RunParts, QueuedOnce, Queued
<1>2. OrderOK'
  <2> SUFFICES ASSUME NEW k \in Keys, ordered'[k] PROVE OffOK(k)' \/ OnOK(k)'
    BY DEF OrderOK
  <2>1. OffOK(k) \/ OnOK(k)
    BY DEF RunInv, RunParts, OrderOK
  <2>2. QED
    BY <2>1 DEF OffOK, OnOK, Queued
<1>3. QED
  BY <1>1, <1>2

LEMMA SamePool ==
  ASSUME RunInv, UNCHANGED <<spawned, keyOf, pool, workerVars>>
  PROVE  WorkerShape' /\ MapAgrees'
<1>1. WorkerShape'
  BY DEF RunInv, RunParts, WorkerShape, workerVars
<1>2. MapAgrees'
  BY DEF RunInv, RunParts, MapAgrees
<1>3. QED
  BY <1>1, <1>2

\* stop() on workers of the map leaves the others' release alone.
LEMMA StopInMap ==
  ASSUME RunInv, \A k \in Keys : ordered'[k] => ordered[k],
         NEW S, StopWorkers(S), UNCHANGED <<pool, spawned, keyOf>>,
         \A w \in S : \E k \in Keys : w = pool[k] /\ pool[k] # None
  PROVE  /\ WorkerShape' /\ MapAgrees' /\ RemovedIsReleased'
         /\ \A w \in Workers : cleanup[w] # "no" \/ w \in S => cleanup'[w] # "no"
<1>1. \A w \in S : w \in 1 .. spawned /\ pool[keyOf[w]] = w
  BY DEF RunInv, RunParts, MapAgrees
<1>2. /\ WorkerShape'
      /\ \A w \in Workers : cleanup[w] # "no" \/ w \in S => cleanup'[w] # "no"
      /\ \A w \in Workers : w \notin S => proc'[w] = proc[w]
      /\ dir' = dir
  BY <1>1, RunTypes, StopKeepsShape DEF RunInv, RunParts
<1>3. \A w \in 1 .. spawned : pool[keyOf[w]] # w => proc'[w] = proc[w] /\ dir'[w] = dir[w]
  BY <1>1, <1>2, RunTypes DEF Workers
<1>4. RemovedIsReleased'
  BY <1>3, ReleasedFrame
<1>5. MapAgrees'
  BY DEF RunInv, RunParts, MapAgrees
<1>6. QED
  BY <1>2, <1>4, <1>5

\* spawnWorker: the new worker is in the map and has no process; the entry it
\* overwrites is none, unless the key is out of order.
LEMMA SpawnKeepsRun ==
  ASSUME RunInv, NEW p \in [Keys -> Workers \cup {None}], NEW k \in Keys,
         \A j \in Keys \ {k} : p[j] = pool[j],
         SpawnWorker(k, p), \A j \in Keys : ordered'[j] => ordered[j],
         ordered'[k] => pool[k] = None
  PROVE  /\ WorkerShape' /\ MapAgrees' /\ RemovedIsReleased'
         /\ pool'[k] # None
         /\ \A j \in Keys \ {k} : pool'[j] = pool[j]
         /\ proc'[pool'[k]] = "none" /\ cleanup'[pool'[k]] = "no"
<1> DEFINE n == spawned + 1
<1>1. /\ n \in Workers /\ n \notin 1 .. spawned /\ spawned' = n
      /\ pool' = [p EXCEPT ![k] = n] /\ keyOf' = [keyOf EXCEPT ![n] = k]
      /\ state' = [state EXCEPT ![n] = "STARTING"] /\ dir' = [dir EXCEPT ![n] = "used"]
      /\ proc' = proc /\ cleanup' = cleanup
  BY RunTypes DEF SpawnWorker
<1>2. proc[n] = "none" /\ cleanup[n] = "no"
  BY <1>1, RunTypes DEF RunInv, RunParts, WorkerShape
<1>3. pool'[k] = n /\ n # None /\ \A j \in Keys \ {k} : pool'[j] = pool[j]
  BY <1>1, NoneIsNoWorker
<1>4. keyOf'[n] = k /\ \A w \in Workers \ {n} : keyOf'[w] = keyOf[w]
  BY <1>1, RunTypes
<1>5. /\ state'[n] = "STARTING"
      /\ \A w \in Workers \ {n} : state'[w] = state[w] /\ dir'[w] = dir[w]
  BY <1>1, RunTypes DEF WorkersOK
<1>6. spawned \in Nat /\ n = spawned + 1
  BY RunTypes
<1>7. WorkerShape'
  <2> SUFFICES ASSUME NEW w \in Workers
        PROVE  /\ w > n => state'[w] = "IDLE" /\ proc'[w] = "none" /\ cleanup'[w] = "no"
               /\ w <= n => keyOf'[w] \in Keys
               /\ state'[w] \in {"STOPPING", "DONE"} => cleanup'[w] # "no"
               /\ cleanup'[w] = "exit" => proc'[w] = "signalled"
               /\ cleanup'[w] \in {"settle", "over"} => proc'[w] \notin {"running", "signalled"}
               /\ cleanup'[w] = "over" => dir'[w] = "reclaimed"
    BY <1>1 DEF WorkerShape
  <2>1. CASE w = n
    BY <1>1, <1>2, <1>4, <1>5, <1>6, <2>1
  <2>2. CASE w # n
    <3>1. (w > n => w > spawned) /\ (w <= n => w <= spawned)
      BY <1>6, <2>2 DEF Workers
    <3>2. QED
      BY <1>1, <1>4, <1>5, <2>2, <3>1 DEF RunInv, RunParts, WorkerShape
  <2>3. QED
    BY <2>1, <2>2
<1>8. MapAgrees'
  <2> SUFFICES ASSUME NEW j \in Keys, pool'[j] # None
        PROVE  pool'[j] \in 1 .. n /\ keyOf'[pool'[j]] = j
    BY <1>1 DEF MapAgrees
  <2>1. CASE j = k
    BY <1>3, <1>4, <1>6, <2>1
  <2>2. CASE j # k
    <3>1. pool'[j] = pool[j] /\ pool[j] \in 1 .. spawned /\ keyOf[pool[j]] = j
      BY <1>3, <2>2 DEF RunInv, RunParts, MapAgrees
    <3>2. pool[j] \in Workers \ {n}
      BY <1>1, <3>1, RunTypes
    <3>3. QED
      BY <1>4, <1>6, <3>1, <3>2
  <2>3. QED
    BY <2>1, <2>2
<1>9. RemovedIsReleased'
  <2> SUFFICES ASSUME NEW w \in 1 .. n, pool'[keyOf'[w]] # w, ordered'[keyOf'[w]]
        PROVE  proc'[w] \notin {"running", "signalled"} /\ dir'[w] = "reclaimed"
    BY <1>1 DEF RemovedIsReleased
  <2>1. w # n
    BY <1>3, <1>4
  <2>2. w \in 1 .. spawned /\ w \in Workers \ {n}
    BY <1>6, <2>1, RunTypes DEF Workers
  <2>3. keyOf'[w] = keyOf[w] /\ keyOf[w] \in Keys /\ ordered[keyOf[w]]
    BY <1>4, <2>2 DEF RunInv, RunParts, WorkerShape
  <2>4. pool[keyOf[w]] # w
    BY <1>3, <2>2, <2>3, NoneIsNoWorker
  <2>5. proc[w] \notin {"running", "signalled"} /\ dir[w] = "reclaimed"
    BY <2>2, <2>3, <2>4 DEF RunInv, RunParts, RemovedIsReleased
  <2>6. QED
    BY <1>1, <1>5, <2>2, <2>5
<1>10. proc'[pool'[k]] = "none" /\ cleanup'[pool'[k]] = "no"
  BY <1>1, <1>2, <1>3
<1>11. QED
  BY <1>3, <1>7, <1>8, <1>9, <1>10

----------------------------------------------------------------------------

LEMMA InitRunInv == Init => RunInv
<1> SUFFICES ASSUME Init PROVE RunInv
  OBVIOUS
<1>1. WorkerShape
  BY DEF Init, WorkerShape, Workers
<1>2. MapAgrees /\ AwaitOK
  BY DEF Init, MapAgrees, AwaitOK, Idle
<1>3. RemovedIsReleased
  BY DEF Init, RemovedIsReleased
<1>4. QueuedOnce /\ OrderOK
  BY DEF Init, QueuedOnce, OrderOK, OffOK, Queued
<1>5. QED
  BY <1>1, <1>2, <1>3, <1>4, InitQueueInv DEF RunInv, RunParts

\* The bus alone: Broadcast, and LoseMessage, which puts the key out of order.
LEMMA BusRun ==
  ASSUME RunInv, NEW k \in Keys, Broadcast(k) \/ LoseMessage(k)
  PROVE  RunParts'
<1>1. UNCHANGED <<pool, queue, handler, refused, spawned, keyOf, workerVars>>
  BY DEF Broadcast, LoseMessage, poolVars
<1>2. \A j \in Keys : ordered'[j] =>
        ordered[j] /\ gotStarted'[j] = gotStarted[j] /\ gotEnded'[j] = gotEnded[j]
  <2>1. CASE Broadcast(k)
    BY <2>1 DEF Broadcast
  <2>2. CASE LoseMessage(k)
    BY <2>2, RunTypes DEF LoseMessage
  <2>3. QED
    BY <2>1, <2>2
<1>3. QueuedOnce' /\ OrderOK'
  BY <1>1, <1>2, KeysFrame
<1>4. WorkerShape' /\ MapAgrees'
  BY <1>1, SamePool
<1>5. RemovedIsReleased'
  BY <1>1, <1>2, ReleasedFrame DEF workerVars
<1>6. AwaitOK'
  BY <1>1, <1>2, RunTypes DEF RunInv, RunParts, AwaitOK, ActiveKeys, workerVars
<1>7. QED
  BY <1>3, <1>4, <1>5, <1>6 DEF RunParts

\* What a consumed message leaves of the keys in order, map and queue apart.
LEMMA AppendOnce ==
  ASSUME NEW q \in Seq(Keys), NEW k \in Keys, \A i \in 1 .. Len(q) : q[i] # k
  PROVE  LET r == Append(q, k) IN
         /\ \A i, j \in 1 .. Len(r) : r[i] = k /\ r[j] = k => i = j
         /\ \E i \in 1 .. Len(r) : r[i] = k
<1>1. /\ Len(Append(q, k)) = Len(q) + 1 /\ Append(q, k)[Len(q) + 1] = k
      /\ \A i \in 1 .. Len(q) : Append(q, k)[i] = q[i]
      /\ Len(q) \in Nat
  OBVIOUS
<1>2. QED
  BY <1>1

LEMMA AppendOther ==
  ASSUME NEW q \in Seq(Keys), NEW k \in Keys, NEW j \in Keys, j # k
  PROVE  LET r == Append(q, k) IN
         /\ (\E i \in 1 .. Len(r) : r[i] = j) <=> (\E i \in 1 .. Len(q) : q[i] = j)
         /\ (\A a, b \in 1 .. Len(q) : q[a] = j /\ q[b] = j => a = b) =>
              (\A a, b \in 1 .. Len(r) : r[a] = j /\ r[b] = j => a = b)
<1>1. /\ Len(Append(q, k)) = Len(q) + 1 /\ Append(q, k)[Len(q) + 1] = k
      /\ \A i \in 1 .. Len(q) : Append(q, k)[i] = q[i]
      /\ Len(q) \in Nat
  OBVIOUS
<1>2. \A i \in 1 .. Len(q) + 1 : i = Len(q) + 1 \/ i \in 1 .. Len(q)
  BY <1>1
<1>3. \A i \in 1 .. Len(Append(q, k)) :
        Append(q, k)[i] = j => i \in 1 .. Len(q) /\ q[i] = j
  BY <1>1, <1>2
<1>4. \A i \in 1 .. Len(q) : i \in 1 .. Len(Append(q, k))
  BY <1>1
<1>5. (\E i \in 1 .. Len(Append(q, k)) : Append(q, k)[i] = j) <=>
        (\E i \in 1 .. Len(q) : q[i] = j)
  BY <1>1, <1>3, <1>4
<1>6. QED
  BY <1>3, <1>5

\* addStream, up to its first await.
LEMMA AddStreamRun ==
  ASSUME RunInv, NEW k \in Keys, AddStream(k)
  PROVE  RunParts'
<1>1. handler.pc = "idle" /\ ConsumeStarted(k)
  BY DEF AddStream
<1>2. /\ \A j \in Keys : ordered'[j] => ordered[j]
      /\ \A j \in Keys \ {k} :
           gotStarted'[j] = gotStarted[j] /\ gotEnded'[j] = gotEnded[j]
      /\ ordered'[k] => /\ gotStarted[k] = gotEnded[k]
                        /\ gotStarted'[k] = gotEnded'[k] + 1
  <2>1. BusOK
    BY DEF RunInv, QueueInv, PoolInv
  <2>2. QED
    BY <1>1, <2>1, StartedInOrder
<1>3. ordered'[k] => pool[k] = None /\ ~Queued(k)
  BY <1>1, <1>2, OffBetweenHandlers
<1>4. CASE pool[k] # None /\ UNCHANGED <<poolVars, workerVars, handler>>
  <2>1. QueuedOnce' /\ OrderOK'
    BY <1>2, <1>3, <1>4, KeysFrame DEF poolVars
  <2>2. WorkerShape' /\ MapAgrees'
    BY <1>4, SamePool DEF poolVars
  <2>3. RemovedIsReleased'
    BY <1>2, <1>4, ReleasedFrame DEF poolVars, workerVars
  <2>4. AwaitOK'
    BY <1>1, <1>4 DEF AwaitOK
  <2>5. QED
    BY <2>1, <2>2, <2>3, <2>4 DEF RunParts
<1>5. CASE /\ pool[k] # None /\ StopWorkers({pool[k]})
           /\ handler' = At("replace", k) /\ UNCHANGED poolVars
  <2>1. /\ WorkerShape' /\ MapAgrees' /\ RemovedIsReleased'
        /\ \A w \in Workers : cleanup[w] # "no" \/ w \in {pool[k]} => cleanup'[w] # "no"
    <3>1. \A w \in {pool[k]} : \E j \in Keys : w = pool[j] /\ pool[j] # None
      BY <1>5
    <3>2. UNCHANGED <<pool, spawned, keyOf>>
      BY <1>5 DEF poolVars
    <3>3. QED
      BY <1>2, <1>5, <3>1, <3>2, StopInMap
  <2>2. pool[k] \in Workers
    BY <1>5, RunTypes
  <2>3. AwaitOK'
    BY <1>3, <1>5, <2>1, <2>2 DEF AwaitOK, At, poolVars
  <2>4. QueuedOnce'
    BY <1>2, <1>5 DEF RunInv, RunParts, QueuedOnce, Queued, poolVars
  <2>5. OrderOK'
    <3> SUFFICES ASSUME NEW j \in Keys, ordered'[j] PROVE OffOK(j)' \/ OnOK(j)'
      BY DEF OrderOK
    <3>1. j # k
      BY <1>3, <1>5
    <3>2. OffOK(j) \/ OnOK(j)
      BY <1>2 DEF RunInv, RunParts, OrderOK
    <3>3. QED
      BY <1>1, <1>2, <1>5, <3>1, <3>2 DEF OffOK, OnOK, Queued, poolVars
  <2>6. QED
    BY <2>1, <2>3, <2>4, <2>5 DEF RunParts
<1>6. CASE pool[k] = None /\ Full(pool) /\ Admit(k, pool)
  <2>1. /\ queue' = Append(queue, k) /\ handler' = Idle
        /\ UNCHANGED <<pool, spawned, keyOf, refused, workerVars>>
    BY <1>6 DEF Admit
  <2>2. WorkerShape' /\ MapAgrees'
    BY <2>1, SamePool
  <2>3. RemovedIsReleased'
    BY <1>2, <2>1, ReleasedFrame DEF workerVars
  <2>4. AwaitOK'
    BY <2>1 DEF AwaitOK, Idle
  <2>5. queue \in Seq(Keys)
    BY RunTypes
  <2>6. ordered'[k] => /\ \A i, j \in 1 .. Len(queue') : queue'[i] = k /\ queue'[j] = k => i = j
                       /\ Queued(k)'
    BY <1>3, <2>1, <2>5, AppendOnce DEF Queued
  <2>7. \A j \in Keys \ {k} : /\ Queued(j)' <=> Queued(j)
                              /\ (\A a, b \in 1 .. Len(queue) : queue[a] = j /\ queue[b] = j => a = b) =>
                                   (\A a, b \in 1 .. Len(queue') : queue'[a] = j /\ queue'[b] = j => a = b)
    BY <2>1, <2>5, AppendOther DEF Queued
  <2>8. QueuedOnce'
    <3> SUFFICES ASSUME NEW j \in Keys, ordered'[j]
          PROVE  /\ \A a, b \in 1 .. Len(queue') : queue'[a] = j /\ queue'[b] = j => a = b
                 /\ Queued(j)' => pool'[j] = None
      BY DEF QueuedOnce
    <3>1. CASE j = k
      BY <1>6, <2>1, <2>6, <3>1
    <3>2. CASE j # k
      BY <1>2, <2>1, <2>7, <3>2 DEF RunInv, RunParts, QueuedOnce
    <3>3. QED
      BY <3>1, <3>2
  <2>9. OrderOK'
    <3> SUFFICES ASSUME NEW j \in Keys, ordered'[j] PROVE OffOK(j)' \/ OnOK(j)'
      BY DEF OrderOK
    <3>1. CASE j = k
      BY <1>2, <2>6, <3>1 DEF OnOK
    <3>2. CASE j # k
      <4>1. OffOK(j) \/ OnOK(j)
        BY <1>2 DEF RunInv, RunParts, OrderOK
      <4>2. (Queued(j)' <=> Queued(j)) /\ gotStarted'[j] = gotStarted[j] /\ gotEnded'[j] = gotEnded[j]
        BY <1>2, <2>7, <3>2
      <4>3. QED
        BY <1>1, <2>1, <4>1, <4>2 DEF OffOK, OnOK
    <3>3. QED
      BY <3>1, <3>2
  <2>10. QED
    BY <2>2, <2>3, <2>4, <2>8, <2>9 DEF RunParts
<1>7. CASE pool[k] = None /\ ~Full(pool) /\ Admit(k, pool)
  <2>1. SpawnWorker(k, pool) /\ queue' = queue /\ handler' = At("spawn", k)
    BY <1>7 DEF Admit
  <2>2. /\ WorkerShape' /\ MapAgrees' /\ RemovedIsReleased'
        /\ pool'[k] # None
        /\ \A j \in Keys \ {k} : pool'[j] = pool[j]
        /\ proc'[pool'[k]] = "none" /\ cleanup'[pool'[k]] = "no"
    BY <1>2, <1>7, <2>1, RunTypes, SpawnKeepsRun
  <2>3. AwaitOK'
    BY <2>1, <2>2 DEF AwaitOK, At
  <2>4. QueuedOnce'
    BY <1>2, <1>3, <2>1, <2>2 DEF RunInv, RunParts, QueuedOnce, Queued
  <2>5. OrderOK'
    <3> SUFFICES ASSUME NEW j \in Keys, ordered'[j] PROVE OffOK(j)' \/ OnOK(j)'
      BY DEF OrderOK
    <3>1. CASE j = k
      BY <1>2, <2>2, <3>1 DEF OnOK
    <3>2. CASE j # k
      <4>1. OffOK(j) \/ OnOK(j)
        BY <1>2 DEF RunInv, RunParts, OrderOK
      <4>2. pool'[j] = pool[j] /\ gotStarted'[j] = gotStarted[j] /\ gotEnded'[j] = gotEnded[j]
        BY <1>2, <2>2, <3>2
      <4>3. refused' = refused
        BY <2>1 DEF SpawnWorker
      <4>4. QED
        BY <1>1, <2>1, <4>1, <4>2, <4>3 DEF OffOK, OnOK, Queued
    <3>3. QED
      BY <3>1, <3>2
  <2>6. QED
    BY <2>2, <2>3, <2>4, <2>5 DEF RunParts
<1>8. QED
  BY <1>4, <1>5, <1>6, <1>7 DEF AddStream

\* addStream, after the stale worker has stopped: its key is out of order.
LEMMA FinishReplaceRun ==
  ASSUME RunInv, FinishReplace
  PROVE  RunParts'
<1>1. PICK k : k = handler.key
  OBVIOUS
<1>2. PICK p : p = [pool EXCEPT ![k] = None]
  OBVIOUS
<1>3. k \in Keys /\ pool[k] # None /\ handler.pc = "replace" /\ ~ordered[k]
  BY <1>1, RunTypes DEF FinishReplace, RunInv, RunParts, AwaitOK
<1>4. p \in [Keys -> Workers \cup {None}] /\ \A j \in Keys \ {k} : p[j] = pool[j]
  BY <1>2, <1>3, RunTypes
<1>5. ~Full(p)
  <2>1. IsFiniteSet(ActiveOf(pool)) /\ Cardinality(ActiveOf(pool)) \in Nat
    BY ActiveFinite
  <2>2. ActiveOf(p) = ActiveOf(pool) \ {k} /\ k \in ActiveOf(pool)
    BY <1>2, <1>3, RunTypes, DeleteShrinks DEF ActiveOf
  <2>3. Cardinality(ActiveOf(p)) = Cardinality(ActiveOf(pool)) - 1
    BY <2>1, <2>2, FS_RemoveElement
  <2>4. Cardinality(ActiveOf(pool)) <= MaxConcurrent
    BY DEF RunInv, QueueInv, PoolInv, CapOK
  <2>5. ~(Cardinality(ActiveOf(p)) >= MaxConcurrent)
    BY <2>1, <2>3, <2>4
  <2>6. QED
    BY <2>5, FullIsActive
<1>6. /\ SpawnWorker(k, p) /\ queue' = queue /\ handler' = At("spawn", k)
      /\ UNCHANGED <<gotStarted, gotEnded, ordered, refused>>
  BY <1>1, <1>2, <1>5 DEF FinishReplace, Admit, busVars, SpawnWorker
<1>7. /\ WorkerShape' /\ MapAgrees' /\ RemovedIsReleased'
      /\ pool'[k] # None
      /\ \A j \in Keys \ {k} : pool'[j] = pool[j]
      /\ proc'[pool'[k]] = "none" /\ cleanup'[pool'[k]] = "no"
  BY <1>3, <1>4, <1>6, SpawnKeepsRun
<1>8. AwaitOK'
  BY <1>6, <1>7 DEF AwaitOK, At
<1>9. \A j \in Keys : ordered'[j] => ordered[j] /\ j # k /\ pool'[j] = pool[j]
  BY <1>3, <1>6, <1>7
<1>10. QueuedOnce'
  BY <1>6, <1>9 DEF RunInv, RunParts, QueuedOnce, Queued
<1>11. OrderOK'
  <2> SUFFICES ASSUME NEW j \in Keys, ordered'[j] PROVE OffOK(j)' \/ OnOK(j)'
    BY DEF OrderOK
  <2>1. OffOK(j) \/ OnOK(j)
    BY <1>9 DEF RunInv, RunParts, OrderOK
  <2>2. QED
    BY <1>3, <1>6, <1>9, <2>1 DEF OffOK, OnOK, Queued
<1>12. QED
  BY <1>7, <1>8, <1>10, <1>11 DEF RunParts

\* start() returns: the worker encodes, in the map.
LEMMA StartSucceedsRun ==
  ASSUME RunInv, StartSucceeds
  PROVE  RunParts'
<1>1. PICK w : w = pool[handler.key]
  OBVIOUS
<1>2. /\ handler.pc \in {"spawn", "drainSpawn"}
      /\ proc' = [proc EXCEPT ![w] = "running"] /\ state' = [state EXCEPT ![w] = "TRANSCODING"]
      /\ handler' = IF handler.pc = "spawn" THEN Idle ELSE At("drain", None)
      /\ UNCHANGED <<gotStarted, gotEnded, ordered, refused, pool, queue, spawned, keyOf,
                     cleanup, dir>>
  BY <1>1 DEF StartSucceeds, busVars, poolVars
<1>3. /\ handler.key \in Keys /\ w \in Workers /\ w \in 1 .. spawned
      /\ pool[keyOf[w]] = w /\ cleanup[w] = "no"
  <2>1. handler.key \in Keys /\ pool[handler.key] # None
    BY <1>2, RunTypes
  <2>2. w \in 1 .. spawned /\ keyOf[w] = handler.key
    BY <1>1, <2>1 DEF RunInv, RunParts, MapAgrees
  <2>3. cleanup[w] = "no"
    BY <1>1, <1>2 DEF RunInv, RunParts, AwaitOK
  <2>4. QED
    BY <1>1, <2>1, <2>2, <2>3, RunTypes
<1>4. /\ proc'[w] = "running" /\ state'[w] = "TRANSCODING"
      /\ \A v \in Workers \ {w} : proc'[v] = proc[v] /\ state'[v] = state[v]
  BY <1>2, <1>3, RunTypes DEF WorkersOK
<1>5. WorkerShape'
  <2> SUFFICES ASSUME NEW v \in Workers
        PROVE  /\ v > spawned => state'[v] = "IDLE" /\ proc'[v] = "none" /\ cleanup[v] = "no"
               /\ v <= spawned => keyOf[v] \in Keys
               /\ state'[v] \in {"STOPPING", "DONE"} => cleanup[v] # "no"
               /\ cleanup[v] = "exit" => proc'[v] = "signalled"
               /\ cleanup[v] \in {"settle", "over"} => proc'[v] \notin {"running", "signalled"}
               /\ cleanup[v] = "over" => dir[v] = "reclaimed"
    BY <1>2 DEF WorkerShape
  <2>1. CASE v = w
    <3>1. ~(v > spawned)
      BY <1>3, <2>1, RunTypes
    <3>2. QED
      BY <1>3, <1>4, <2>1, <3>1 DEF RunInv, RunParts, WorkerShape
  <2>2. CASE v # w
    BY <1>4, <2>2 DEF RunInv, RunParts, WorkerShape
  <2>3. QED
    BY <2>1, <2>2
<1>6. MapAgrees'
  BY <1>2 DEF RunInv, RunParts, MapAgrees
<1>7. RemovedIsReleased'
  <2>1. \A v \in 1 .. spawned : pool[keyOf[v]] # v => proc'[v] = proc[v] /\ dir'[v] = dir[v]
    BY <1>2, <1>3, <1>4, RunTypes DEF Workers
  <2>2. QED
    BY <1>2, <2>1, ReleasedFrame
<1>8. AwaitOK'
  BY <1>2 DEF AwaitOK, Idle, At
<1>9. QueuedOnce'
  BY <1>2 DEF RunInv, RunParts, QueuedOnce, Queued
<1>10. OrderOK'
  <2> SUFFICES ASSUME NEW j \in Keys, ordered'[j] PROVE OffOK(j)' \/ OnOK(j)'
    BY DEF OrderOK
  <2>1. OffOK(j) \/ OnOK(j)
    BY <1>2 DEF RunInv, RunParts, OrderOK
  <2>2. QED
    BY <1>2, <2>1 DEF OffOK, OnOK, Queued
<1>11. QED
  BY <1>5, <1>6, <1>7, <1>8, <1>9, <1>10 DEF RunParts

\* A worker leaves the map with nothing of its own running.
LEMMA LeaveKeepsRun ==
  ASSUME RunInv, NEW k \in Keys, pool[k] # None,
         pool' = [pool EXCEPT ![k] = None],
         UNCHANGED <<spawned, keyOf, ordered, proc, cleanup>>,
         proc[pool[k]] \notin {"running", "signalled"} /\ dir'[pool[k]] = "reclaimed",
         \A w \in Workers : dir'[w] = dir[w] \/ dir'[w] = "reclaimed",
         \A w \in Workers : state'[w] = state[w] \/ state'[w] = "ERROR",
         \A w \in Workers : w > spawned => state'[w] = state[w]
  PROVE  WorkerShape' /\ MapAgrees' /\ RemovedIsReleased'
<1>1. pool'[k] = None /\ \A j \in Keys \ {k} : pool'[j] = pool[j]
  BY RunTypes
<1>2. WorkerShape'
  BY DEF RunInv, RunParts, WorkerShape
<1>3. MapAgrees'
  BY <1>1 DEF RunInv, RunParts, MapAgrees
<1>4. RemovedIsReleased'
  <2> SUFFICES ASSUME NEW w \in 1 .. spawned, pool'[keyOf[w]] # w, ordered[keyOf[w]]
        PROVE  proc[w] \notin {"running", "signalled"} /\ dir'[w] = "reclaimed"
    BY DEF RemovedIsReleased
  <2>1. w \in Workers /\ keyOf[w] \in Keys
    BY RunTypes DEF RunInv, RunParts, WorkerShape, Workers
  <2>2. CASE pool[k] = w
    BY <2>2
  <2>3. CASE pool[k] # w
    <3>1. pool[keyOf[w]] # w
      BY <1>1, <2>1, <2>3
    <3>2. proc[w] \notin {"running", "signalled"} /\ dir[w] = "reclaimed"
      BY <3>1 DEF RunInv, RunParts, RemovedIsReleased
    <3>3. QED
      BY <2>1, <3>2
  <2>4. QED
    BY <2>2, <2>3
<1>5. QED
  BY <1>2, <1>3, <1>4

\* start() throws.
LEMMA StartFailsRun ==
  ASSUME RunInv, StartFails
  PROVE  RunParts'
<1>1. PICK k : k = handler.key
  OBVIOUS
<1>2. PICK w : w = pool[k]
  OBVIOUS
<1>3. /\ handler.pc \in {"spawn", "drainSpawn"}
      /\ state' = [state EXCEPT ![w] = "ERROR"] /\ dir' = [dir EXCEPT ![w] = "reclaimed"]
      /\ pool' = [pool EXCEPT ![k] = None] /\ refused' = [refused EXCEPT ![k] = TRUE]
      /\ handler' = IF handler.pc = "spawn" THEN Idle ELSE At("drain", None)
      /\ UNCHANGED <<gotStarted, gotEnded, ordered, queue, spawned, keyOf, proc, cleanup>>
  BY <1>1, <1>2 DEF StartFails, ReclaimDir, busVars
<1>4. k \in Keys /\ pool[k] # None /\ w \in Workers /\ w \in 1 .. spawned
  BY <1>1, <1>2, <1>3, RunTypes DEF RunInv, RunParts, MapAgrees
<1>5. proc[w] = "none"
  BY <1>1, <1>2, <1>3 DEF RunInv, RunParts, AwaitOK
<1>6. /\ dir'[w] = "reclaimed" /\ state'[w] = "ERROR"
      /\ \A v \in Workers \ {w} : dir'[v] = dir[v] /\ state'[v] = state[v]
  BY <1>3, <1>4, RunTypes DEF WorkersOK
<1>7. \A v \in Workers : v > spawned => v # w
  BY <1>4, RunTypes
<1>8. WorkerShape' /\ MapAgrees' /\ RemovedIsReleased'
  <2>1. proc[pool[k]] \notin {"running", "signalled"} /\ dir'[pool[k]] = "reclaimed"
    BY <1>2, <1>5, <1>6
  <2>2. /\ \A v \in Workers : dir'[v] = dir[v] \/ dir'[v] = "reclaimed"
        /\ \A v \in Workers : state'[v] = state[v] \/ state'[v] = "ERROR"
        /\ \A v \in Workers : v > spawned => state'[v] = state[v]
    BY <1>6, <1>7
  <2>3. QED
    BY <1>3, <1>4, <2>1, <2>2, LeaveKeepsRun
<1>9. pool'[k] = None /\ \A j \in Keys \ {k} : pool'[j] = pool[j] /\ refused'[j] = refused[j]
  BY <1>3, <1>4, RunTypes
<1>10. refused'[k]
  BY <1>3, <1>4, RunTypes
<1>11. AwaitOK'
  BY <1>3 DEF AwaitOK, Idle, At
<1>12. QueuedOnce'
  BY <1>3, <1>9 DEF RunInv, RunParts, QueuedOnce, Queued
<1>13. OrderOK'
  <2> SUFFICES ASSUME NEW j \in Keys, ordered'[j] PROVE OffOK(j)' \/ OnOK(j)'
    BY DEF OrderOK
  <2>1. OffOK(j) \/ OnOK(j)
    BY <1>3 DEF RunInv, RunParts, OrderOK
  <2>2. CASE j = k
    BY <1>3, <1>9, <1>10, <2>1, <2>2 DEF OffOK, OnOK, Queued
  <2>3. CASE j # k
    BY <1>3, <1>9, <2>1, <2>3 DEF OffOK, OnOK, Queued
  <2>4. QED
    BY <2>2, <2>3
<1>14. QED
  BY <1>8, <1>11, <1>12, <1>13 DEF RunParts

\* Withdrawing the event at position i: where the others' events go.
LEMMA WithoutPositions ==
  ASSUME queue \in Seq(Keys), NEW i \in 1 .. Len(queue), queue' = Without(i)
  PROVE  /\ Len(queue') = Len(queue) - 1
         /\ \A a \in 1 .. Len(queue') :
              LET b == IF a < i THEN a ELSE a + 1 IN
              b \in 1 .. Len(queue) /\ b # i /\ queue'[a] = queue[b]
         /\ \A b \in 1 .. Len(queue) : b # i =>
              LET a == IF b < i THEN b ELSE b - 1 IN
              a \in 1 .. Len(queue') /\ queue'[a] = queue[b]
<1>1. Len(queue) \in Nat /\ Len(queue) >= 1
  OBVIOUS
<1>2. /\ Len(queue') = Len(queue) - 1
      /\ \A a \in 1 .. Len(queue) - 1 : queue'[a] = IF a < i THEN queue[a] ELSE queue[a + 1]
  <2>1. queue' = [j \in 1 .. Len(queue) - 1 |-> IF j < i THEN queue[j] ELSE queue[j + 1]]
    BY DEF Without
  <2>2. Len(queue) - 1 \in Nat
    BY <1>1
  <2>3. \A a \in 1 .. Len(queue) - 1 : queue'[a] \in Keys
    BY <2>1, <2>2
  <2>4. queue' \in Seq(Keys)
    BY <2>1, <2>2, <2>3
  <2>5. QED
    BY <2>1, <2>2, <2>4
<1>3. ASSUME NEW a \in 1 .. Len(queue')
      PROVE  LET b == IF a < i THEN a ELSE a + 1 IN
             b \in 1 .. Len(queue) /\ b # i /\ queue'[a] = queue[b]
  <2>1. a \in Int /\ 1 <= a /\ a <= Len(queue) - 1 /\ i \in Int
    BY <1>1, <1>2
  <2>2. queue'[a] = IF a < i THEN queue[a] ELSE queue[a + 1]
    BY <1>2
  <2>3. QED
    BY <1>1, <2>1, <2>2
<1>4. ASSUME NEW b \in 1 .. Len(queue), b # i
      PROVE  LET a == IF b < i THEN b ELSE b - 1 IN
             a \in 1 .. Len(queue') /\ queue'[a] = queue[b]
  <2>1. b \in Int /\ 1 <= b /\ b <= Len(queue) /\ i \in Int /\ 1 <= i /\ i <= Len(queue)
    BY <1>1
  <2>2. CASE b < i
    <3>1. b \in 1 .. Len(queue) - 1
      BY <1>1, <2>1, <2>2
    <3>2. QED
      BY <1>2, <2>2, <3>1
  <2>3. CASE ~(b < i)
    <3>1. b - 1 \in 1 .. Len(queue) - 1 /\ ~(b - 1 < i) /\ (b - 1) + 1 = b
      BY <1>1, <1>4, <2>1, <2>3
    <3>2. QED
      BY <1>2, <2>3, <3>1
  <2>4. QED
    BY <2>2, <2>3
<1>5. QED
  BY <1>2, <1>3, <1>4

\* removeStream, up to its await.
LEMMA RemoveStreamRun ==
  ASSUME RunInv, NEW k \in Keys, RemoveStream(k)
  PROVE  RunParts'
<1>1. handler.pc = "idle" /\ ConsumeEnded(k)
  BY DEF RemoveStream
<1>2. /\ \A j \in Keys : ordered'[j] => ordered[j]
      /\ \A j \in Keys \ {k} :
           gotStarted'[j] = gotStarted[j] /\ gotEnded'[j] = gotEnded[j]
      /\ ordered'[k] => /\ gotStarted[k] = gotEnded[k] + 1
                        /\ gotStarted'[k] = gotEnded'[k]
  <2>1. BusOK
    BY DEF RunInv, QueueInv, PoolInv
  <2>2. QED
    BY <1>1, <2>1, EndedInOrder
<1>3. \A j \in Keys : ordered[j] =>
        /\ \A a, b \in 1 .. Len(queue) : queue[a] = j /\ queue[b] = j => a = b
        /\ Queued(j) => pool[j] = None
  BY DEF RunInv, RunParts, QueuedOnce
<1>4. CASE /\ pool[k] # None /\ StopWorkers({pool[k]})
           /\ handler' = At("remove", k) /\ UNCHANGED poolVars
  <2>1. /\ WorkerShape' /\ MapAgrees' /\ RemovedIsReleased'
        /\ \A w \in Workers : cleanup[w] # "no" \/ w \in {pool[k]} => cleanup'[w] # "no"
    <3>1. \A w \in {pool[k]} : \E j \in Keys : w = pool[j] /\ pool[j] # None
      BY <1>4
    <3>2. UNCHANGED <<pool, spawned, keyOf>>
      BY <1>4 DEF poolVars
    <3>3. QED
      BY <1>2, <1>4, <3>1, <3>2, StopInMap
  <2>2. pool[k] \in Workers
    BY <1>4, RunTypes
  <2>3. AwaitOK'
    BY <1>2, <1>4, <2>1, <2>2 DEF AwaitOK, At, poolVars
  <2>4. QueuedOnce'
    BY <1>2, <1>4 DEF RunInv, RunParts, QueuedOnce, Queued, poolVars
  <2>5. OrderOK'
    <3> SUFFICES ASSUME NEW j \in Keys, ordered'[j] PROVE OffOK(j)' \/ OnOK(j)'
      BY DEF OrderOK
    <3>1. OffOK(j) \/ OnOK(j)
      BY <1>2 DEF RunInv, RunParts, OrderOK
    <3>2. CASE j = k
      <4>1. ~Queued(j)
        BY <1>2, <1>3, <1>4, <3>2
      <4>2. QED
        BY <1>2, <1>4, <3>2, <4>1 DEF OffOK, Queued, At, poolVars
    <3>3. CASE j # k
      BY <1>1, <1>2, <1>4, <3>1, <3>3 DEF OffOK, OnOK, Queued, poolVars
    <3>4. QED
      BY <3>2, <3>3
  <2>6. QED
    BY <2>1, <2>3, <2>4, <2>5 DEF RunParts
<1>5. CASE /\ pool[k] = None /\ WithdrawEvent(k)
           /\ UNCHANGED <<pool, spawned, keyOf, refused, workerVars, handler>>
  <2>1. WorkerShape' /\ MapAgrees'
    BY <1>5, SamePool
  <2>2. RemovedIsReleased'
    BY <1>2, <1>5, ReleasedFrame DEF workerVars
  <2>3. AwaitOK'
    BY <1>1, <1>5 DEF AwaitOK
  <2>4. ASSUME NEW j \in Keys, ordered[j]
        PROVE  /\ \A a, b \in 1 .. Len(queue') : queue'[a] = j /\ queue'[b] = j => a = b
               /\ j # k => (Queued(j)' <=> Queued(j))
               /\ j = k => ~Queued(j)'
    <3>1. CASE Positions(k) = {} /\ UNCHANGED queue
      BY <1>3, <2>4, <3>1 DEF Positions, Queued
    <3>2. ASSUME NEW i \in Positions(k), queue' = Without(i)
          PROVE  /\ \A a, b \in 1 .. Len(queue') : queue'[a] = j /\ queue'[b] = j => a = b
                 /\ j # k => (Queued(j)' <=> Queued(j))
                 /\ j = k => ~Queued(j)'
      <4>1. queue \in Seq(Keys) /\ i \in 1 .. Len(queue) /\ queue[i] = k
        BY RunTypes DEF Positions
      <4>2. /\ Len(queue') = Len(queue) - 1
            /\ \A a \in 1 .. Len(queue') :
                 LET b == IF a < i THEN a ELSE a + 1 IN
                 b \in 1 .. Len(queue) /\ b # i /\ queue'[a] = queue[b]
            /\ \A b \in 1 .. Len(queue) : b # i =>
                 LET a == IF b < i THEN b ELSE b - 1 IN
                 a \in 1 .. Len(queue') /\ queue'[a] = queue[b]
        BY <3>2, <4>1, WithoutPositions
      <4>3. \A a, b \in 1 .. Len(queue) : queue[a] = j /\ queue[b] = j => a = b
        BY <1>3, <2>4
      <4>4. Len(queue) \in Nat
        BY <4>1
      <4>5. ASSUME NEW a \in 1 .. Len(queue'), NEW b \in 1 .. Len(queue'),
                   queue'[a] = j, queue'[b] = j
            PROVE  a = b
        <5>1. (IF a < i THEN a ELSE a + 1) = (IF b < i THEN b ELSE b + 1)
          BY <4>2, <4>3, <4>5
        <5>2. a \in Int /\ b \in Int /\ i \in Int
          BY <4>1, <4>2, <4>4
        <5>3. QED
          BY <5>1, <5>2
      <4>6. j # k => (Queued(j)' <=> Queued(j))
        BY <4>1, <4>2 DEF Queued
      <4>7. j = k => ~Queued(j)'
        BY <4>1, <4>2, <4>3 DEF Queued
      <4>8. QED
        BY <4>5, <4>6, <4>7
    <3>3. QED
      BY <1>5, <3>1, <3>2 DEF WithdrawEvent
  <2>5. QueuedOnce'
    BY <1>2, <1>3, <1>5, <2>4 DEF QueuedOnce
  <2>6. OrderOK'
    <3> SUFFICES ASSUME NEW j \in Keys, ordered'[j] PROVE OffOK(j)' \/ OnOK(j)'
      BY DEF OrderOK
    <3>1. ordered[j] /\ (OffOK(j) \/ OnOK(j))
      BY <1>2 DEF RunInv, RunParts, OrderOK
    <3>2. CASE j = k
      BY <1>2, <1>5, <2>4, <3>1, <3>2 DEF OffOK
    <3>3. CASE j # k
      BY <1>2, <1>5, <2>4, <3>1, <3>3 DEF OffOK, OnOK
    <3>4. QED
      BY <3>2, <3>3
  <2>7. QED
    BY <2>1, <2>2, <2>3, <2>5, <2>6 DEF RunParts
<1>6. QED
  BY <1>4, <1>5 DEF RemoveStream

\* removeStream, after the worker has stopped.
LEMMA FinishRemoveRun ==
  ASSUME RunInv, FinishRemove
  PROVE  RunParts'
<1>1. PICK k : k = handler.key
  OBVIOUS
<1>2. /\ handler.pc = "remove" /\ StopReturned(pool[k])
      /\ pool' = [pool EXCEPT ![k] = None] /\ handler' = At("drain", None)
      /\ UNCHANGED <<gotStarted, gotEnded, ordered, queue, spawned, keyOf, refused,
                     state, proc, cleanup, dir>>
  BY <1>1 DEF FinishRemove, AfterRemove, busVars, workerVars
<1>3. k \in Keys /\ pool[k] # None /\ pool[k] \in Workers
  BY <1>1, <1>2, RunTypes
<1>4. cleanup[pool[k]] = "over"
  BY <1>1, <1>2 DEF RunInv, RunParts, AwaitOK, StopReturned
<1>5. proc[pool[k]] \notin {"running", "signalled"} /\ dir'[pool[k]] = "reclaimed"
  BY <1>2, <1>3, <1>4 DEF RunInv, RunParts, WorkerShape
<1>6. WorkerShape' /\ MapAgrees' /\ RemovedIsReleased'
  BY <1>2, <1>3, <1>5, LeaveKeepsRun
<1>7. pool'[k] = None /\ \A j \in Keys \ {k} : pool'[j] = pool[j]
  BY <1>2, <1>3, RunTypes
<1>8. AwaitOK'
  BY <1>2 DEF AwaitOK, At
<1>9. QueuedOnce'
  BY <1>2, <1>7 DEF RunInv, RunParts, QueuedOnce, Queued
<1>10. OrderOK'
  <2> SUFFICES ASSUME NEW j \in Keys, ordered'[j] PROVE OffOK(j)' \/ OnOK(j)'
    BY DEF OrderOK
  <2>1. OffOK(j) \/ OnOK(j)
    BY <1>2 DEF RunInv, RunParts, OrderOK
  <2>2. CASE j = k
    <3>1. gotStarted[k] = gotEnded[k] /\ gotEnded[k] \in Nat
      BY <1>1, <1>2, <2>2, RunTypes DEF RunInv, RunParts, AwaitOK
    <3>2. QED
      BY <1>2, <1>7, <2>1, <2>2, <3>1 DEF OffOK, OnOK, Queued
  <2>3. CASE j # k
    BY <1>1, <1>2, <1>7, <2>1, <2>3 DEF OffOK, OnOK, Queued
  <2>4. QED
    BY <2>2, <2>3
<1>11. QED
  BY <1>6, <1>8, <1>9, <1>10 DEF RunParts

LEMMA TailPositions ==
  ASSUME NEW q \in Seq(Keys), q # <<>>, NEW j \in Keys,
         \A a, b \in 1 .. Len(q) : q[a] = j /\ q[b] = j => a = b
  PROVE  /\ \A a, b \in 1 .. Len(Tail(q)) : Tail(q)[a] = j /\ Tail(q)[b] = j => a = b
         /\ j # Head(q) => ((\E a \in 1 .. Len(Tail(q)) : Tail(q)[a] = j) <=>
                              (\E a \in 1 .. Len(q) : q[a] = j))
         /\ j = Head(q) => /\ \E a \in 1 .. Len(q) : q[a] = j
                           /\ ~\E a \in 1 .. Len(Tail(q)) : Tail(q)[a] = j
<1>1. /\ Len(q) \in Nat /\ Len(q) >= 1 /\ Len(Tail(q)) = Len(q) - 1
      /\ Head(q) = q[1]
      /\ \A a \in 1 .. Len(q) - 1 : Tail(q)[a] = q[a + 1]
  OBVIOUS
<1>2. \A a \in 1 .. Len(Tail(q)) : a + 1 \in 1 .. Len(q) /\ Tail(q)[a] = q[a + 1] /\ a + 1 # 1
  BY <1>1
<1>3. \A b \in 1 .. Len(q) : b # 1 => b - 1 \in 1 .. Len(Tail(q)) /\ Tail(q)[b - 1] = q[b]
  BY <1>1
<1>4. ASSUME NEW a \in 1 .. Len(Tail(q)), NEW b \in 1 .. Len(Tail(q)),
             Tail(q)[a] = j, Tail(q)[b] = j
      PROVE  a = b
  <2>1. a + 1 = b + 1
    BY <1>2, <1>4
  <2>2. QED
    BY <1>1, <2>1
<1>5. 1 \in 1 .. Len(q)
  BY <1>1
<1>6. j # Head(q) => ((\E a \in 1 .. Len(Tail(q)) : Tail(q)[a] = j) <=>
                        (\E a \in 1 .. Len(q) : q[a] = j))
  BY <1>1, <1>2, <1>3
<1>7. j = Head(q) => /\ \E a \in 1 .. Len(q) : q[a] = j
                     /\ ~\E a \in 1 .. Len(Tail(q)) : Tail(q)[a] = j
  BY <1>1, <1>2, <1>5
<1>8. QED
  BY <1>4, <1>6, <1>7

\* drainQueue, one iteration of its loop.
LEMMA DrainQueueRun ==
  ASSUME RunInv, DrainQueue
  PROVE  RunParts'
<1>1. handler.pc = "drain" /\ UNCHANGED <<gotStarted, gotEnded, ordered>>
  BY DEF DrainQueue, busVars
<1>2. CASE handler' = Idle /\ UNCHANGED <<poolVars, workerVars>>
  <2>1. WorkerShape' /\ MapAgrees'
    BY <1>2, SamePool DEF poolVars
  <2>2. RemovedIsReleased'
    BY <1>1, <1>2, ReleasedFrame DEF poolVars, workerVars
  <2>3. AwaitOK'
    BY <1>2 DEF AwaitOK, Idle
  <2>4. QueuedOnce'
    BY <1>1, <1>2 DEF RunInv, RunParts, QueuedOnce, Queued, poolVars
  <2>5. OrderOK'
    <3> SUFFICES ASSUME NEW j \in Keys, ordered'[j] PROVE OffOK(j)' \/ OnOK(j)'
      BY DEF OrderOK
    <3>1. OffOK(j) \/ OnOK(j)
      BY <1>1 DEF RunInv, RunParts, OrderOK
    <3>2. QED
      BY <1>1, <1>2, <3>1 DEF OffOK, OnOK, Queued, poolVars
  <2>6. QED
    BY <2>1, <2>2, <2>3, <2>4, <2>5 DEF RunParts
<1>3. ASSUME ~IsFull, queue # <<>>, SpawnWorker(Head(queue), pool),
             queue' = Shifted, handler' = At("drainSpawn", Head(queue))
      PROVE  RunParts'
  <2>1. PICK k : k = Head(queue)
    OBVIOUS
  <2>2. k \in Keys /\ queue \in Seq(Keys) /\ queue' = Tail(queue)
    BY <1>3, <2>1, RunTypes DEF Shifted
  <2>3. ASSUME NEW j \in Keys, ordered[j]
        PROVE  /\ \A a, b \in 1 .. Len(queue') : queue'[a] = j /\ queue'[b] = j => a = b
               /\ j # k => (Queued(j)' <=> Queued(j))
               /\ j = k => Queued(j) /\ ~Queued(j)'
    <3>1. \A a, b \in 1 .. Len(queue) : queue[a] = j /\ queue[b] = j => a = b
      BY <2>3 DEF RunInv, RunParts, QueuedOnce
    <3>2. QED
      BY <1>3, <2>1, <2>2, <3>1, TailPositions DEF Queued
  <2>4. ordered[k] => pool[k] = None
    BY <2>2, <2>3 DEF RunInv, RunParts, QueuedOnce
  <2>5. /\ WorkerShape' /\ MapAgrees' /\ RemovedIsReleased'
        /\ pool'[k] # None
        /\ \A j \in Keys \ {k} : pool'[j] = pool[j]
        /\ proc'[pool'[k]] = "none" /\ cleanup'[pool'[k]] = "no"
    BY <1>1, <1>3, <2>1, <2>2, <2>4, RunTypes, SpawnKeepsRun
  <2>6. AwaitOK'
    BY <1>3, <2>1, <2>5 DEF AwaitOK, At
  <2>7. QueuedOnce'
    <3> SUFFICES ASSUME NEW j \in Keys, ordered'[j]
          PROVE  /\ \A a, b \in 1 .. Len(queue') : queue'[a] = j /\ queue'[b] = j => a = b
                 /\ Queued(j)' => pool'[j] = None
      BY DEF QueuedOnce
    <3>1. Queued(j) => pool[j] = None
      BY <1>1 DEF RunInv, RunParts, QueuedOnce
    <3>2. QED
      BY <1>1, <2>3, <2>5, <3>1
  <2>8. OrderOK'
    <3> SUFFICES ASSUME NEW j \in Keys, ordered'[j] PROVE OffOK(j)' \/ OnOK(j)'
      BY DEF OrderOK
    <3>1. OffOK(j) \/ OnOK(j)
      BY <1>1 DEF RunInv, RunParts, OrderOK
    <3>2. refused' = refused
      BY <1>3 DEF SpawnWorker
    <3>3. CASE j = k
      BY <1>1, <2>3, <2>5, <3>1, <3>3 DEF OffOK, OnOK
    <3>4. CASE j # k
      BY <1>1, <2>3, <2>5, <3>1, <3>2, <3>4 DEF OffOK, OnOK
    <3>5. QED
      BY <3>3, <3>4
  <2>9. QED
    BY <2>5, <2>6, <2>7, <2>8 DEF RunParts
<1>4. QED
  BY <1>2, <1>3 DEF DrainQueue

\* drainAll: every worker of the map is stopped, nobody waits.
LEMMA ShutdownRun ==
  ASSUME RunInv, Shutdown
  PROVE  RunParts'
<1>1. /\ handler.pc = "idle" /\ StopWorkers({pool[k] : k \in ActiveKeys})
      /\ queue' = <<>> /\ handler' = At("drainAll", None)
      /\ UNCHANGED <<gotStarted, gotEnded, ordered, pool, spawned, keyOf, refused>>
  BY DEF Shutdown, busVars
<1>2. \A w \in {pool[k] : k \in ActiveKeys} : \E k \in Keys : w = pool[k] /\ pool[k] # None
  BY DEF ActiveKeys
<1>3. /\ WorkerShape' /\ MapAgrees' /\ RemovedIsReleased'
      /\ \A w \in Workers :
           cleanup[w] # "no" \/ w \in {pool[k] : k \in ActiveKeys} => cleanup'[w] # "no"
  BY <1>1, <1>2, StopInMap
<1>4. AwaitOK'
  <2>1. \A k \in Keys : pool[k] # None => cleanup'[pool[k]] # "no"
    <3> SUFFICES ASSUME NEW k \in Keys, pool[k] # None PROVE cleanup'[pool[k]] # "no"
      OBVIOUS
    <3>1. pool[k] \in Workers /\ pool[k] \in {pool[j] : j \in ActiveKeys}
      BY RunTypes DEF ActiveKeys
    <3>2. QED
      BY <1>3, <3>1
  <2>2. QED
    BY <1>1, <2>1 DEF AwaitOK, At, ActiveKeys
<1>5. \A k \in Keys : ~Queued(k)'
  BY <1>1 DEF Queued
<1>6. QueuedOnce'
  BY <1>1, <1>5 DEF QueuedOnce
<1>7. OrderOK'
  <2> SUFFICES ASSUME NEW j \in Keys, ordered'[j] PROVE OffOK(j)' \/ OnOK(j)'
    BY DEF OrderOK
  <2>1. OffOK(j) \/ OnOK(j)
    BY <1>1 DEF RunInv, RunParts, OrderOK
  <2>2. QED
    BY <1>1, <1>5, <2>1 DEF OffOK, OnOK, At
<1>8. QED
  BY <1>3, <1>4, <1>6, <1>7 DEF RunParts

\* The map is emptied once every stop has returned.
LEMMA FinishShutdownRun ==
  ASSUME RunInv, FinishShutdown
  PROVE  RunParts'
<1>1. /\ handler.pc = "drainAll" /\ \A k \in ActiveKeys : StopReturned(pool[k])
      /\ pool' = [k \in Keys |-> None] /\ handler' = At("exited", None)
      /\ UNCHANGED <<gotStarted, gotEnded, ordered, queue, spawned, keyOf, refused,
                     state, proc, cleanup, dir>>
  BY DEF FinishShutdown, busVars, workerVars
<1>2. queue = <<>>
  BY <1>1 DEF RunInv, QueueInv, QueueCleared
<1>3. WorkerShape'
  BY <1>1 DEF RunInv, RunParts, WorkerShape
<1>4. MapAgrees' /\ AwaitOK'
  BY <1>1 DEF MapAgrees, AwaitOK, At
<1>5. RemovedIsReleased'
  <2> SUFFICES ASSUME NEW w \in 1 .. spawned, ordered[keyOf[w]]
        PROVE  proc[w] \notin {"running", "signalled"} /\ dir[w] = "reclaimed"
    BY <1>1 DEF RemovedIsReleased
  <2>1. w \in Workers /\ keyOf[w] \in Keys
    BY RunTypes DEF RunInv, RunParts, WorkerShape, Workers
  <2>2. CASE pool[keyOf[w]] # w
    BY <2>2 DEF RunInv, RunParts, RemovedIsReleased
  <2>3. CASE pool[keyOf[w]] = w
    <3>1. keyOf[w] \in ActiveKeys
      BY <2>1, <2>3, NoneIsNoWorker DEF ActiveKeys
    <3>2. cleanup[w] = "over"
      BY <1>1, <2>3, <3>1 DEF RunInv, RunParts, AwaitOK, StopReturned
    <3>3. QED
      BY <2>1, <3>2 DEF RunInv, RunParts, WorkerShape
  <2>4. QED
    BY <2>2, <2>3
<1>6. \A k \in Keys : ~Queued(k)'
  BY <1>1, <1>2 DEF Queued
<1>7. QueuedOnce'
  BY <1>1, <1>2 DEF QueuedOnce
<1>8. OrderOK'
  <2> SUFFICES ASSUME NEW j \in Keys, ordered'[j] PROVE OffOK(j)' \/ OnOK(j)'
    BY DEF OrderOK
  <2>1. OffOK(j) \/ OnOK(j)
    BY <1>1 DEF RunInv, RunParts, OrderOK
  <2>2. QED
    BY <1>1, <1>6, <2>1 DEF OffOK, OnOK, At
<1>9. QED
  BY <1>3, <1>4, <1>5, <1>7, <1>8 DEF RunParts

\* Child processes and timers: a process only ends, a cleanup only goes on.
LEMMA WorkerStepRun ==
  ASSUME RunInv, NEW w \in Workers, WorkerStep(w)
  PROVE  RunParts'
<1>1. UNCHANGED <<gotStarted, gotEnded, ordered, pool, queue, spawned, keyOf, refused, handler>>
  BY DEF WorkerStep, FfmpegEnds, FfmpegFails, ForceKill, Settle, busVars, poolVars
<1>2. /\ \A v \in Workers \ {w} : /\ state'[v] = state[v] /\ proc'[v] = proc[v]
                                  /\ cleanup'[v] = cleanup[v] /\ dir'[v] = dir[v]
      /\ dir'[w] = dir[w] \/ dir'[w] = "reclaimed"
      /\ \/ /\ IsRunning(w) /\ proc'[w] = "exited"
            /\ state'[w] = state[w] \/ state'[w] = CrashState
            /\ cleanup'[w] = IF cleanup[w] = "exit" THEN "settle" ELSE cleanup[w]
         \/ /\ cleanup[w] = "exit" /\ cleanup'[w] = "settle" /\ proc'[w] = "killed"
            /\ state'[w] = state[w]
         \/ /\ cleanup[w] = "settle" /\ cleanup'[w] = "over" /\ proc'[w] = proc[w]
            /\ dir'[w] = "reclaimed" /\ state'[w] = "DONE"
  <2>1. CASE FfmpegEnds(w)
    BY <2>1, RunTypes DEF FfmpegEnds, ReclaimDir, WorkersOK
  <2>2. CASE FfmpegFails(w)
    BY <2>2, RunTypes DEF FfmpegFails, WorkersOK
  <2>3. CASE ForceKill(w)
    BY <2>3, RunTypes DEF ForceKill, WorkersOK
  <2>4. CASE Settle(w)
    BY <2>4, RunTypes DEF Settle, ReclaimDir, WorkersOK
  <2>5. QED
    BY <2>1, <2>2, <2>3, <2>4 DEF WorkerStep
<1>3. WorkerShape'
  <2> SUFFICES ASSUME NEW v \in Workers
        PROVE  /\ v > spawned => state'[v] = "IDLE" /\ proc'[v] = "none" /\ cleanup'[v] = "no"
               /\ v <= spawned => keyOf[v] \in Keys
               /\ state'[v] \in {"STOPPING", "DONE"} => cleanup'[v] # "no"
               /\ cleanup'[v] = "exit" => proc'[v] = "signalled"
               /\ cleanup'[v] \in {"settle", "over"} => proc'[v] \notin {"running", "signalled"}
               /\ cleanup'[v] = "over" => dir'[v] = "reclaimed"
    BY <1>1 DEF WorkerShape
  <2>1. /\ v > spawned => state[v] = "IDLE" /\ proc[v] = "none" /\ cleanup[v] = "no"
        /\ v <= spawned => keyOf[v] \in Keys
        /\ state[v] \in {"STOPPING", "DONE"} => cleanup[v] # "no"
        /\ cleanup[v] = "exit" => proc[v] = "signalled"
        /\ cleanup[v] \in {"settle", "over"} => proc[v] \notin {"running", "signalled"}
        /\ cleanup[v] = "over" => dir[v] = "reclaimed"
    BY DEF RunInv, RunParts, WorkerShape
  <2>2. QED
    BY <1>2, <2>1 DEF IsRunning, CrashState
<1>4. MapAgrees'
  BY <1>1 DEF RunInv, RunParts, MapAgrees
<1>5. RemovedIsReleased'
  <2>1. \A v \in 1 .. spawned : pool[keyOf[v]] # v =>
          /\ proc'[v] = proc[v] \/ proc'[v] \notin {"running", "signalled"}
          /\ dir'[v] = dir[v] \/ dir'[v] = "reclaimed"
    BY <1>2, RunTypes DEF Workers
  <2>2. QED
    BY <1>1, <2>1, ReleasedFrame
<1>6. AwaitOK'
  <2>1. \A v \in Workers : cleanup[v] # "no" => cleanup'[v] # "no"
    BY <1>2
  <2>2. \A v \in Workers : proc[v] = "none" /\ cleanup[v] = "no" =>
          proc'[v] = "none" /\ cleanup'[v] = "no"
    BY <1>2 DEF IsRunning
  <2>3. \A k \in Keys : pool[k] # None => pool[k] \in Workers
    BY RunTypes
  <2>4. QED
    BY <1>1, <2>1, <2>2, <2>3, RunTypes DEF RunInv, RunParts, AwaitOK, ActiveKeys
<1>7. QueuedOnce' /\ OrderOK'
  BY <1>1, KeysFrame
<1>8. QED
  BY <1>3, <1>4, <1>5, <1>6, <1>7 DEF RunParts

LEMMA NextRunInv == RunInv /\ [Next]_vars => RunInv'
<1> SUFFICES ASSUME RunInv, [Next]_vars PROVE RunInv'
  OBVIOUS
<1>1. QueueInv'
  BY NextRefines DEF RunInv
<1>2. RunParts'
  <2>1. ASSUME NEW k \in Keys, Broadcast(k) \/ LoseMessage(k) \/ AddStream(k) \/ RemoveStream(k)
        PROVE  RunParts'
    BY <2>1, BusRun, AddStreamRun, RemoveStreamRun
  <2>2. CASE HandlerStep
    BY <2>2, FinishReplaceRun, StartSucceedsRun, StartFailsRun, FinishRemoveRun,
       DrainQueueRun, FinishShutdownRun DEF HandlerStep
  <2>3. CASE Shutdown
    BY <2>3, ShutdownRun
  <2>4. ASSUME NEW w \in Workers, WorkerStep(w) PROVE RunParts'
    BY <2>4, WorkerStepRun
  <2>5. CASE UNCHANGED vars
    <3>1. UNCHANGED <<gotStarted, gotEnded, ordered, pool, queue, spawned, keyOf, refused,
                      handler, state, proc, cleanup, dir>>
      BY <2>5 DEF vars, busVars, poolVars, workerVars
    <3>2. QueuedOnce' /\ OrderOK'
      BY <3>1, KeysFrame
    <3>3. WorkerShape' /\ MapAgrees'
      BY <3>1, SamePool DEF workerVars
    <3>4. RemovedIsReleased'
      BY <3>1, ReleasedFrame
    <3>5. AwaitOK'
      BY <3>1 DEF RunInv, RunParts, AwaitOK, ActiveKeys
    <3>6. QED
      BY <3>2, <3>3, <3>4, <3>5 DEF RunParts
  <2>6. QED
    BY <2>1, <2>2, <2>3, <2>4, <2>5 DEF Next
<1>3. QED
  BY <1>1, <1>2 DEF RunInv

THEOREM RunInvHolds == Spec => []RunInv
  BY InitRunInv, NextRunInv, PTL DEF Spec

\* A worker of a key in order that has left the map holds nothing: its FFmpeg
\* is gone or killed and its directory is due for removal (StreamWorker.stop
\* and cleanup against FFmpeg's exit).
THEOREM RemovedIsReleasedHolds == Spec => []RemovedIsReleased
<1>1. RunInv => RemovedIsReleased
  BY DEF RunInv, RunParts
<1>2. QED
  BY <1>1, RunInvHolds, PTL

\* With every key in order there is never more than one process for a slot:
\* the worker of a running process is in the map under its own key.
LEMMA EncodersAreActive ==
  ASSUME RunInv, AllOrdered
  PROVE  EncodersWithinCap
<1> DEFINE f == [w \in Encoding |-> keyOf[w]]
<1>1. ASSUME NEW w \in Encoding
      PROVE  keyOf[w] \in ActiveOf(pool) /\ pool[keyOf[w]] = w
  <2>1. w \in Workers /\ proc[w] \in {"running", "signalled"}
    BY DEF Encoding
  <2>2. ~(w > spawned)
    BY <2>1 DEF RunInv, RunParts, WorkerShape
  <2>3. w \in 1 .. spawned
    BY <2>1, <2>2, RunTypes DEF Workers
  <2>4. keyOf[w] \in Keys
    BY <2>1, <2>3 DEF RunInv, RunParts, WorkerShape
  <2>5. pool[keyOf[w]] = w
    BY <2>1, <2>3, <2>4 DEF AllOrdered, RunInv, RunParts, RemovedIsReleased
  <2>6. QED
    BY <2>1, <2>4, <2>5, NoneIsNoWorker DEF ActiveOf
<1>2. f \in Injection(Encoding, ActiveOf(pool))
  <2>1. f \in [Encoding -> ActiveOf(pool)]
    BY <1>1
  <2>2. \A v, w \in Encoding : f[v] = f[w] => v = w
    BY <1>1
  <2>3. QED
    BY <2>1, <2>2 DEF Injection, IsInjective
<1>3. IsFiniteSet(ActiveOf(pool)) /\ Cardinality(ActiveOf(pool)) \in Nat
  BY ActiveFinite
<1>4. IsFiniteSet(Encoding) /\ Cardinality(Encoding) <= Cardinality(ActiveOf(pool))
  BY <1>2, <1>3, FS_Injection
<1>5. Cardinality(Encoding) \in Nat
  BY <1>4, FS_CardinalityType
<1>6. Cardinality(ActiveOf(pool)) <= MaxConcurrent
  BY DEF RunInv, QueueInv, PoolInv, CapOK
<1>7. QED
  BY <1>3, <1>4, <1>5, <1>6 DEF EncodersWithinCap

\* The cap counts map entries; with every key in order it bounds the FFmpeg
\* processes as well, the ones being stopped included (workerPool.ts).
THEOREM OrderedEncodersHolds == Spec => []OrderedEncodersWithinCap
<1>1. RunInv => OrderedEncodersWithinCap
  BY EncodersAreActive DEF OrderedEncodersWithinCap
<1>2. QED
  BY <1>1, RunInvHolds, PTL

LEMMA Parity ==
  ASSUME NEW n \in Nat
  PROVE  IF n % 2 = 1 THEN (n + 1) \div 2 = n \div 2 + 1
                      ELSE (n + 1) \div 2 = n \div 2
  OBVIOUS

\* Once all messages of a key are consumed in order, the pool agrees with the
\* air: no slot and no place in the queue for a key off air, exactly one of
\* them for a key on air unless its start failed (addStream, removeStream and
\* drainQueue together).
THEOREM PoolTracksHolds == Spec => []PoolTracksBroadcasts
<1>1. RunInv => PoolTracksBroadcasts
  <2> SUFFICES ASSUME RunInv, NEW k \in Keys, CaughtUp(k)
        PROVE  IF OnAir(k)
                 THEN /\ pool[k] = None \/ ~Queued(k)
                      /\ refused[k] \/ pool[k] # None \/ Queued(k)
                 ELSE pool[k] = None /\ ~Queued(k)
    BY DEF PoolTracksBroadcasts
  <2>1. handler.pc = "idle" /\ ordered[k]
    BY DEF CaughtUp
  <2>2. IF OnAir(k) THEN gotStarted[k] = gotEnded[k] + 1 ELSE gotStarted[k] = gotEnded[k]
    <3>1. published[k] \in Nat
      BY RunTypes
    <3>2. QED
      BY <3>1, Parity DEF CaughtUp, OnAir, StartedSent, EndedSent
  <2>3. CASE OnAir(k)
    <3>1. OnOK(k)
      BY <2>1, <2>2, <2>3, OnBetweenHandlers
    <3>2. Queued(k) => pool[k] = None
      BY <2>1 DEF RunInv, RunParts, QueuedOnce
    <3>3. QED
      BY <2>1, <2>3, <3>1, <3>2 DEF OnOK
  <2>4. CASE ~OnAir(k)
    BY <2>1, <2>2, <2>4, OffBetweenHandlers
  <2>5. QED
    BY <2>3, <2>4
<1>2. QED
  BY <1>1, RunInvHolds, PTL
=============================================================================

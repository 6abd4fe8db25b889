------------------------------ MODULE SlotQueue ------------------------------
(***************************************************************************)
(* What WorkerPool promises its callers, without workers or processes: a   *)
(* set of streams that hold a slot, never more than there are slots, and a *)
(* first-in first-out overflow queue that grows only while every slot is   *)
(* taken and that newcomers do not overtake.                               *)
(***************************************************************************)
EXTENDS Naturals, Sequences, FiniteSets

CONSTANTS Streams, Slots

VARIABLES
  active,   \* streams that hold a slot
  waiting,  \* the overflow queue
  excused   \* a start has failed: the order between newcomers and queue is off

slotVars == <<active, waiting, excused>>

Free == Cardinality(active) < Slots

Init ==
  /\ active = {}
  /\ waiting = <<>>
  /\ excused = FALSE

\* A newcomer takes a free slot; nobody was waiting for it.
Start(s) ==
  /\ s \notin active
  /\ Free
  /\ waiting = <<>> \/ excused
  /\ active' = active \cup {s}
  /\ UNCHANGED <<waiting, excused>>

\* A newcomer finds no slot and waits behind all others.
Wait(s) ==
  /\ ~Free
  /\ waiting' = Append(waiting, s)
  /\ UNCHANGED <<active, excused>>

\* A stream gives its slot back; a failed start does too.
Leave(s) ==
  /\ s \in active
  /\ active' = active \ {s}
  /\ excused' \in {excused, TRUE}
  /\ UNCHANGED waiting

\* The head of the queue gets a free slot.
Dispatch ==
  /\ waiting # <<>>
  /\ Free
  /\ active' = active \cup {Head(waiting)}
  /\ waiting' = Tail(waiting)
  /\ UNCHANGED excused

\* A waiting stream gives up; the others keep their order.
Withdraw(i) ==
  /\ waiting' = [j \in 1 .. Len(waiting) - 1 |->
                   IF j < i THEN waiting[j] ELSE waiting[j + 1]]
  /\ UNCHANGED <<active, excused>>

\* Shutdown: nobody waits any more, then nobody holds a slot.
Close ==
  \/ /\ waiting' = <<>>
     /\ UNCHANGED <<active, excused>>
  \/ /\ waiting = <<>>
     /\ active' = {}
     /\ UNCHANGED <<waiting, excused>>

Next ==
  \/ \E s \in Streams : Start(s) \/ Wait(s) \/ Leave(s)
  \/ Dispatch
  \/ \E i \in 1 .. Len(waiting) : Withdraw(i)
  \/ Close

Spec == Init /\ [][Next]_slotVars
=============================================================================

----------------------------- MODULE Billing_proofs -----------------------------
(***************************************************************************)
(* The properties of Billing, for any number of subscriptions, requests    *)
(* at a time, events, cancellations and failures.                          *)
(*                                                                         *)
(* BaseInv is what requests, rows, events and Razorpay have to do with     *)
(* each other.  On it stand PlanInv, by which whatever changed rows or     *)
(* plan has a sync to come; StatusInv and PaymentInv, by which a row that  *)
(* differs from Razorpay has an event or a request to come; and LiveInv,   *)
(* by which a checkout at work has found nothing that can be live.         *)
(* TypeInv says what the types need beside it: the rows are listed once    *)
(* each, and no period is named of which no event has told.                *)
(***************************************************************************)
EXTENDS Billing, FiniteSetTheorems, WellFoundedInduction, TLAPS

EventTypes ==
  {"authenticated", "charged", "pending", "halted", "paused", "resumed", "cancelled", "completed"}
Plans == {"FREE", "PRO", "ENTERPRISE"}
Entity == [status : Statuses \cup {"NONE"}, end : Nat]
Row == [status : Statuses \cup {"NONE"}, cancelAtEnd : BOOLEAN, end : Nat]
Job == [todo : Seq(Steps), kind : {"none", "checkout", "verify", "cancel"} \cup EventTypes,
        sub : {0} \cup Subs, entity : Entity, event : Nat, plan : Plans, stale : BOOLEAN]
Event == [id : Nat, sub : Subs, type : EventTypes, entity : Entity]

Terminal == {"HALTED", "CANCELLED", "COMPLETED"}
Unpaid == {"NONE", "CREATED"}
BeforeSync == {"fetch", "apply", "force", "grant", "cancel", "close"}

Typed ==
  /\ plan \in Plans /\ rows \in [Subs -> Row] /\ made \in Seq(Subs) /\ touched \in Seq(Subs)
  /\ job \in [Handlers -> Job]
  /\ remote \in [Subs -> Entity] /\ over \in [Subs -> Nat]
  /\ events \subseteq Event /\ sent \in Nat /\ seen \subseteq 1 .. sent
  /\ signed \subseteq Subs

\* Rows are in made, and one with no status is none.
MadeOK ==
  \A s \in Subs :
    /\ rows[s].status # "NONE" => \E i \in 1 .. Len(made) : made[i] = s
    /\ rows[s].status = "NONE" => rows[s] = NoRow
    /\ remote[s].status = "NONE" => remote[s] = NoRemote

\* What the steps of a request are, and what it knows of its subscription.
Has(j, step) == \E i \in 1 .. Len(j.todo) : j.todo[i] = step
Webhook(j) == j.kind \in EventTypes
Manages(j) == j.kind \notin {"none", "checkout"}
StepsOK(j) ==
  /\ j.todo = <<>> \/ j.kind = "none" => j = Idle
  /\ j.kind = "checkout" => j.entity = NoRemote
  /\ j.kind = "checkout" =>
       \/ j.todo = <<"create", "insert">> /\ j.sub = 0
       \/ j.todo = <<"insert">> /\ j.sub # 0
  /\ j.kind # "checkout" => ~Has(j, "create") /\ ~Has(j, "insert")
  /\ j.kind \in EventTypes => ~Has(j, "fetch") /\ ~Has(j, "cancel")
  /\ \A i \in 1 .. Len(j.todo) :
       /\ j.todo[i] \in BeforeSync => \E k \in 1 .. Len(j.todo) : i < k /\ j.todo[k] = "sync"
       /\ j.todo[i] \in {"rest", "set"} => i = 1
Asked(j) == j.todo # <<>> /\ j.todo[1] \notin {"fetch", "cancel"}
KnowsOK(j) ==
  /\ Manages(j) => /\ j.sub \in Subs /\ rows[j.sub].status # "NONE"
                   /\ remote[j.sub].status \notin Unpaid
                   /\ Asked(j) => j.entity.status \notin Unpaid
  /\ j.event # 0 <=> Webhook(j)
  /\ j.event # 0 => j.event \in seen
  /\ j.kind = "paused" => j.entity.status = "PAUSED"
  /\ j.kind = "checkout" /\ j.sub # 0 => rows[j.sub].status = "NONE"
JobsOK ==
  /\ \A h \in Handlers : StepsOK(job[h]) /\ KnowsOK(job[h])
  /\ \A g, h \in Handlers : job[g].event = job[h].event /\ job[g].event # 0 => g = h
  /\ \A g, h \in Handlers :
       job[g].kind = "checkout" /\ job[h].kind = "checkout" /\ job[g].sub = job[h].sub /\ job[g].sub # 0
         => g = h

EventsOK ==
  /\ \A e \in events : /\ 1 <= e.id /\ e.id <= sent /\ e.entity.status \notin Unpaid
                       /\ e.type = "paused" => e.entity.status = "PAUSED"
  /\ \A e, f \in events : e.id = f.id => e = f

\* Before its first payment a subscription is only known to its checkout; after it, it has a row.
UnpaidOK ==
  \A s \in Subs :
    /\ remote[s].status \in Unpaid =>
         /\ rows[s].status \in Unpaid /\ s \notin signed
         /\ \A e \in events : e.sub # s
    /\ remote[s].status = "NONE" => rows[s].status = "NONE" /\ \A h \in Handlers : job[h].sub # s
    /\ remote[s].status \in Live \cup {"PAUSED"} \/ s \in signed => rows[s].status # "NONE"

\* What has not come to an end is nowhere said to have.
EndedOK ==
  \A s \in Subs : remote[s].status \notin Terminal =>
    /\ rows[s].status \notin Terminal
    /\ \A e \in events : e.sub = s => e.entity.status \notin Terminal
    /\ \A h \in Handlers : job[h].sub = s => job[h].entity.status \notin Terminal

BaseInv == Typed /\ MadeOK /\ JobsOK /\ EventsOK /\ UnpaidOK /\ EndedOK

\* The plan p is the one the rows stand for.
Fits(p) ==
  \/ LastIn(touched, Good) # 0 /\ p = "PRO"
  \/ /\ LastIn(touched, Good) = 0
     /\ \/ LastIn(touched, {"PENDING"}) # 0
        \/ p = "PRO" /\ LastIn(touched, Dead) # 0
             /\ rows[LastIn(touched, Dead)].status = "CANCELLED"
        \/ p = "FREE" /\ ~PaidUp(LastIn(touched, Dead))

\* A sync that is not stale still knows the plan and the rows it has read.
ReadOK(h) ==
  ~job[h].stale =>
    /\ At(h, "rest") => LastIn(touched, Good) = 0 /\ job[h].plan = plan /\ plan # "ENTERPRISE"
    /\ At(h, "set") => Fits(job[h].plan)
Owes(h) == \E step \in Syncing : Has(job[h], step)
PlanInv ==
  /\ \A h \in Handlers : ReadOK(h)
  /\ Fits(plan) \/ unsynced \/ plan = "ENTERPRISE" \/ \E h \in Handlers : Owes(h)

\* The events of s that nobody has begun to apply.
Unseen(s) == {e \in events : e.sub = s /\ e.id \notin seen}
Applies(j, s) == j.sub = s /\ Webhook(j) /\ j.todo # <<>> /\ j.todo[1] = "apply"
StatusOf(s, unseen, now, row, jobs) ==
  /\ \A g, h \in Handlers : jobs[g].sub = s /\ jobs[h].sub = s => g = h
  /\ unseen # {} => \E e \in unseen : e.entity.status = now /\ \A f \in unseen : f.id <= e.id
  /\ row # "NONE" => unseen # {} \/ row = now \/ \E h \in Handlers : Applies(jobs[h], s)
  /\ \A h \in Handlers : jobs[h].sub = s /\ Manages(jobs[h]) /\ Asked(jobs[h]) =>
       unseen # {} \/ jobs[h].entity.status = now
  /\ \A h \in Handlers : jobs[h].sub = s /\ jobs[h].kind = "checkout" => unseen # {} \/ now = "CREATED"
StatusOK(s) == StatusOf(s, Unseen(s), remote[s].status, rows[s].status, job)
StatusInv == \A s \in Subs \ (lost \cup disordered) : StatusOK(s)

\* A charge is recorded, or its event is still to be.
Recording(e) ==
  \E h \in Handlers : /\ job[h].event = e.id /\ job[h].kind = "charged" /\ job[h].sub = e.sub
                      /\ job[h].entity = e.entity /\ Has(job[h], "record")
Charged(s, n) ==
  \E e \in events : /\ e.sub = s /\ e.type = "charged" /\ e.entity.end = n
                    /\ e.id \notin seen \/ Recording(e)
PaymentInv ==
  \A s \in Subs \ lost : \A n \in 1 .. remote[s].end : <<s, n>> \in payments \/ Charged(s, n)

\* What is live, or will be when it is paid for.
Viable(s) ==
  \/ remote[s].status \in Live
  \/ /\ remote[s].status = "CREATED"
     /\ rows[s].status # "NONE" \/ \E h \in Handlers : At(h, "insert") /\ job[h].sub = s
LiveInv ==
  ~doubled =>
    /\ \A g, h \in Handlers : job[g].kind = "checkout" /\ job[h].kind = "checkout" => g = h
    /\ \A h \in Handlers : At(h, "create") => \A s \in Subs : ~Viable(s)
    /\ \A s, r \in Subs : Viable(s) /\ Viable(r) => s = r

----------------------------------------------------------------------------
(* The operators of the model.                                             *)

LEMMA LeastNumber ==
  ASSUME NEW S \in SUBSET Nat, S # {}
  PROVE  \E n \in S : \A m \in S : n <= m
<1> DEFINE R == OpToRel(<, Nat)
<1>1. IsWellFoundedOn(R, Nat)
  BY NatLessThanWellFounded
<1>2. \A x, y \in Nat : x < y => <<x, y>> \in R
  BY DEF OpToRel
<1> HIDE DEF R
<1>3. PICK n \in S : \A m \in S : ~(<<m, n>> \in R)
  BY <1>1, WFMin
<1>4. ASSUME NEW m \in S PROVE n <= m
  <2>1. ~(m < n)
    BY <1>2, <1>3, Zenon
  <2> QED
    BY <2>1
<1> QED
  BY <1>4

LEMMA LastPosition ==
  ASSUME NEW n \in Nat, NEW T \in SUBSET (1 .. n), T # {}
  PROVE  \E m \in T : \A k \in T : k <= m
<1>1. \A i \in T : i \in Nat /\ n - i \in Nat
  OBVIOUS
<1>2. PICK x \in {n - i : i \in T} : \A y \in {n - i : i \in T} : x <= y
  <2>1. {n - i : i \in T} \in SUBSET Nat /\ {n - i : i \in T} # {}
    BY <1>1
  <2> QED
    BY <2>1, LeastNumber
<1>3. PICK m \in T : x = n - m
  BY <1>2
<1>4. ASSUME NEW k \in T PROVE k <= m
  <2>1. n - m <= n - k
    BY <1>2, <1>3
  <2> QED
    BY <1>1, <2>1
<1> QED
  BY <1>4

\* findFirst with orderBy desc: a row that has one of the statuses, if there is one.
LEMMA LastInFacts ==
  ASSUME Typed, NEW q \in Seq(Subs), NEW S
  PROVE  /\ LastIn(q, S) \in Subs \cup {0}
         /\ LastIn(q, S) # 0 => rows[LastIn(q, S)].status \in S
         /\ LastIn(q, S) = 0 <=> \A i \in 1 .. Len(q) : rows[q[i]].status \notin S
<1> DEFINE at == {i \in DOMAIN q : rows[q[i]].status \in S}
<1>1. DOMAIN q = 1 .. Len(q) /\ Len(q) \in Nat /\ \A i \in DOMAIN q : q[i] \in Subs
  OBVIOUS
<1>2. CASE at = {}
  <2>1. LastIn(q, S) = 0
    BY <1>2 DEF LastIn
  <2> QED
    BY <1>1, <1>2, <2>1
<1>3. CASE at # {}
  <2>1. \E m \in at : \A k \in at : k <= m
    <3>1. at \in SUBSET (1 .. Len(q))
      BY <1>1
    <3> HIDE DEF at
    <3> QED
      BY <1>1, <1>3, <3>1, LastPosition
  <2>2. PICK m \in at : m = CHOOSE i \in at : \A j \in at : j <= i
    BY <2>1
  <2>3. LastIn(q, S) = q[m]
    BY <1>3, <2>2 DEF LastIn
  <2>4. q[m] \in Subs /\ q[m] # 0 /\ rows[q[m]].status \in S /\ m \in 1 .. Len(q)
    BY <1>1, <2>2 DEF Subs
  <2> QED
    BY <2>3, <2>4
<1> QED
  BY <1>2, <1>3

LEMMA IdleIsJob == Idle \in Job /\ Idle.todo = <<>> /\ Idle.kind = "none" /\ Idle.event = 0 /\ Idle.sub = 0
                   /\ Idle.entity = NoRemote /\ ~Idle.stale /\ Idle.plan = "FREE"
BY DEF Idle, Job, NoRemote, Entity, Plans

\* Of job j or what it becomes: the first step is done, or read as another.
LEMMA DoneFacts ==
  ASSUME NEW s \in Seq(Steps), s # <<>>
  PROVE  /\ Len(s) \in Nat /\ Len(s) >= 1 /\ s[1] \in Steps
         /\ Tail(s) \in Seq(Steps) /\ Len(Tail(s)) = Len(s) - 1
         /\ \A i \in 1 .. Len(Tail(s)) : Tail(s)[i] = s[i + 1]
         /\ Len(s) # 1 => Tail(s) # <<>>
<1>1. Len(s) \in Nat /\ Len(s) >= 1 /\ s[1] \in Steps
  OBVIOUS
<1>2. Tail(s) \in Seq(Steps) /\ Len(Tail(s)) = Len(s) - 1
  OBVIOUS
<1>3. \A i \in 1 .. Len(Tail(s)) : Tail(s)[i] = s[i + 1]
  OBVIOUS
<1>4. Len(s) # 1 => Tail(s) # <<>>
  <2>1. Len(<<>>) = 0
    OBVIOUS
  <2> QED
    <3>1. Tail(s) = <<>> => Len(Tail(s)) = 0
      BY <2>1, Zenon
    <3> QED
      BY <1>1, <1>2, <3>1
<1> QED
  BY <1>1, <1>2, <1>3, <1>4

\* What a step of another request leaves of a request.
Same(j, k) == k = j \/ (j.todo # <<>> /\ k = [j EXCEPT !.stale = TRUE])
Moves(h, j) ==
  /\ job' \in [Handlers -> Job] /\ job'[h] = j
  /\ \A g \in Handlers \ {h} : Same(job[g], job'[g])

LEMMA SameFacts ==
  ASSUME NEW j \in Job, NEW k, Same(j, k)
  PROVE  /\ k \in Job /\ k.todo = j.todo /\ k.kind = j.kind /\ k.sub = j.sub
         /\ k.entity = j.entity /\ k.event = j.event /\ k.plan = j.plan
         /\ j.stale => k.stale
         /\ j.todo = <<>> => k = j
BY DEF Same, Job

LEMMA GoesMoves ==
  ASSUME Typed, NEW h \in Handlers, NEW j \in Job, Goes(h, j) \/ Changes(h, j)
  PROVE  Moves(h, j)
<1>1. CASE Goes(h, j)
  BY <1>1 DEF Goes, Moves, Same, Typed
<1>2. CASE Changes(h, j)
  <2>1. \A g \in Handlers \ {h} : Same(job[g], job'[g]) /\ job[g] \in Job
    BY <1>2 DEF Changes, Same, At, Typed
  <2>2. \A g \in Handlers : job'[g] \in Job
    <3> TAKE g \in Handlers
    <3>1. CASE g = h
      BY <1>2, <3>1 DEF Changes
    <3>2. CASE g # h
      BY <2>1, <3>2, SameFacts
    <3> QED
      BY <3>1, <3>2
  <2>3. job' = [g \in Handlers |-> job'[g]]
    BY <1>2 DEF Changes
  <2> QED
    BY <1>2, <2>1, <2>2, <2>3 DEF Changes, Moves
<1> QED
  BY <1>1, <1>2

\* The steps that are left keep their order.
LEMMA OnwardSteps ==
  ASSUME NEW j \in Job, NEW k \in Job, StepsOK(j), j.kind \notin {"none", "checkout"},
         k.kind = j.kind, k.todo = Tail(j.todo), j.todo # <<>>, k.todo # <<>>
  PROVE  StepsOK(k) /\ \A x : Has(k, x) => Has(j, x)
<1>1. j.todo \in Seq(Steps) /\ k.todo \in Seq(Steps)
  BY DEF Job
<1>2. /\ Len(j.todo) \in Nat /\ Len(k.todo) = Len(j.todo) - 1
      /\ \A i \in 1 .. Len(k.todo) : k.todo[i] = j.todo[i + 1]
  BY <1>1, DoneFacts
<1>3. ASSUME NEW x, Has(k, x) PROVE Has(j, x)
  BY <1>2, <1>3 DEF Has
<1>4. ASSUME NEW i \in 1 .. Len(k.todo), k.todo[i] \in BeforeSync
      PROVE  \E m \in 1 .. Len(k.todo) : i < m /\ k.todo[m] = "sync"
  <2>1. i + 1 \in 1 .. Len(j.todo) /\ j.todo[i + 1] \in BeforeSync
    BY <1>2, <1>4
  <2>2. PICK m \in 1 .. Len(j.todo) : i + 1 < m /\ j.todo[m] = "sync"
    BY <2>1 DEF StepsOK
  <2>3. m - 1 \in 1 .. Len(k.todo) /\ i < m - 1 /\ (m - 1) + 1 = m
    BY <1>2, <2>2
  <2>4. k.todo[m - 1] = "sync"
    BY <1>2, <2>2, <2>3
  <2> QED
    BY <2>3, <2>4
<1>5. \A i \in 1 .. Len(k.todo) : k.todo[i] \notin {"rest", "set"}
  <2>1. \A i \in 1 .. Len(k.todo) : i + 1 \in 1 .. Len(j.todo) /\ i + 1 # 1 /\ k.todo[i] = j.todo[i + 1]
    BY <1>2
  <2> QED
    BY <2>1 DEF StepsOK
<1> QED
  BY <1>3, <1>4, <1>5 DEF StepsOK

LEMMA RereadSteps ==
  ASSUME NEW j \in Job, NEW k \in Job, StepsOK(j), j.kind \notin {"none", "checkout"},
         k.kind = j.kind, NEW x \in Syncing, j.todo # <<>>, j.todo[1] \in Syncing,
         Len(k.todo) = Len(j.todo), k.todo[1] = x,
         \A i \in 1 .. Len(j.todo) : i # 1 => k.todo[i] = j.todo[i]
  PROVE  /\ StepsOK(k) /\ k.todo # <<>> /\ k.todo[1] = x /\ Len(k.todo) = Len(j.todo)
         /\ \A y : y \notin Syncing => (Has(k, y) <=> Has(j, y))
<1>1. j.todo \in Seq(Steps) /\ Len(j.todo) \in Nat /\ Len(j.todo) >= 1
  BY DoneFacts DEF Job
<1>2. /\ Len(k.todo) = Len(j.todo) /\ k.todo[1] = x
      /\ \A i \in 1 .. Len(j.todo) : i # 1 => k.todo[i] = j.todo[i]
  OBVIOUS
<1>3. k.todo # <<>>
  BY <1>1, <1>2
<1>4. ASSUME NEW y, y \notin Syncing PROVE Has(k, y) <=> Has(j, y)
  BY <1>1, <1>2, <1>4 DEF Has
<1>5. ASSUME NEW i \in 1 .. Len(k.todo), k.todo[i] \in BeforeSync
      PROVE  \E m \in 1 .. Len(k.todo) : i < m /\ k.todo[m] = "sync"
  <2>1. i # 1 /\ j.todo[i] \in BeforeSync
    BY <1>1, <1>2, <1>5 DEF BeforeSync, Syncing
  <2>2. PICK m \in 1 .. Len(j.todo) : i < m /\ j.todo[m] = "sync"
    BY <1>2, <1>5, <2>1 DEF StepsOK
  <2>3. m # 1
    BY <1>2, <1>5, <2>2
  <2> QED
    BY <1>2, <2>2, <2>3
<1>6. /\ ~Has(k, "create") /\ ~Has(k, "insert")
      /\ k.kind \in EventTypes => ~Has(k, "fetch") /\ ~Has(k, "cancel")
  BY <1>4 DEF Syncing, StepsOK
<1>7. \A i \in 1 .. Len(k.todo) : k.todo[i] \in {"rest", "set"} => i = 1
  BY <1>2 DEF StepsOK
<1> QED
  BY <1>2, <1>3, <1>4, <1>5, <1>6, <1>7 DEF StepsOK

\* The last step ends the request; another leaves the rest.
LEMMA NextJob ==
  ASSUME BaseInv, NEW h \in Handlers, NEW step, At(h, step), NEW j, j = Next1(h),
         Manages(job[h])
  PROVE  /\ j \in Job /\ StepsOK(j)
         /\ \A x : Has(j, x) => Has(job[h], x)
         /\ \/ j = Idle /\ Len(job[h].todo) = 1
            \/ /\ Len(job[h].todo) # 1 /\ j = [job[h] EXCEPT !.todo = Tail(@)]
               /\ j.todo = Tail(job[h].todo) /\ j.todo # <<>>
               /\ j.kind = job[h].kind /\ j.sub = job[h].sub /\ j.entity = job[h].entity
               /\ j.event = job[h].event /\ j.plan = job[h].plan /\ j.stale = job[h].stale
<1>1. job[h] \in Job /\ job[h].todo \in Seq(Steps) /\ job[h].todo # <<>> /\ StepsOK(job[h])
  BY DEF BaseInv, Typed, Job, JobsOK, At
<1>2. CASE Len(job[h].todo) = 1
  <2>1. j = Idle
    BY <1>2 DEF Next1
  <2>2. StepsOK(j) /\ \A x : ~Has(j, x)
    BY <2>1, IdleIsJob DEF StepsOK, Has
  <2> QED
    BY <1>2, <2>1, <2>2, IdleIsJob
<1>3. CASE Len(job[h].todo) # 1
  <2>1. j = [job[h] EXCEPT !.todo = Tail(@)]
    BY <1>3 DEF Next1
  <2>2. Tail(job[h].todo) \in Seq(Steps) /\ Tail(job[h].todo) # <<>>
    BY <1>1, <1>3, DoneFacts
  <2>3. /\ j \in Job /\ j.todo = Tail(job[h].todo)
        /\ j.kind = job[h].kind /\ j.sub = job[h].sub /\ j.entity = job[h].entity
        /\ j.event = job[h].event /\ j.plan = job[h].plan /\ j.stale = job[h].stale
    BY <1>1, <2>1, <2>2 DEF Job
  <2>4. StepsOK(j) /\ \A x : Has(j, x) => Has(job[h], x)
    BY <1>1, <2>2, <2>3, OnwardSteps DEF Manages
  <2> QED
    BY <1>3, <2>1, <2>2, <2>3, <2>4
<1> QED
  BY <1>2, <1>3

----------------------------------------------------------------------------
(* BaseInv.                                                                *)

\* What a request is after a step of it.
Follows(i, j) ==
  \/ j = Idle
  \/ /\ j.kind = i.kind /\ j.sub = i.sub /\ j.event = i.event /\ Manages(i)
     /\ Asked(j) => j.entity.status \notin Unpaid
     /\ j.entity.status = i.entity.status \/ j.entity.status \notin Terminal
          \/ j.entity.status = remote[i.sub].status
     /\ i.kind = "paused" => j.entity.status = i.entity.status

\* A request that manages subscriptions writes to a row what it knows.
Writes(i) ==
  \A s \in Subs :
    \/ rows'[s] = rows[s]
    \/ /\ s = i.sub /\ Manages(i) /\ Asked(i)
       /\ rows'[s].status = i.entity.status /\ i.entity.status \notin Unpaid

LEMMA StepBase ==
  ASSUME BaseInv, NEW h \in Handlers, NEW j \in Job, Moves(h, j), StepsOK(j),
         Follows(job[h], j), Writes(job[h]),
         rows' \in [Subs -> Row], touched' \in Seq(Subs), plan' \in Plans, events' \subseteq events,
         UNCHANGED <<made, remote, over, sent, seen, signed>>
  PROVE  BaseInv'
<1>1. /\ job \in [Handlers -> Job] /\ job' \in [Handlers -> Job] /\ job'[h] = j
      /\ \A g \in Handlers \ {h} : Same(job[g], job'[g]) /\ job[g] \in Job
  BY DEF BaseInv, Typed, Moves
<1>2. Typed'
  BY <1>1 DEF BaseInv, Typed
<1>3. ASSUME NEW s \in Subs
      PROVE  /\ rows[s].status # "NONE" => rows'[s].status # "NONE"
             /\ rows'[s].status = "NONE" => rows'[s] = rows[s] /\ rows[s].status = "NONE"
             /\ remote[s].status \in Unpaid => rows'[s] = rows[s]
             /\ remote[s].status \notin Terminal => rows'[s].status \notin Terminal
             /\ rows[s].status = "NONE" => rows'[s] = rows[s]
  <2>1. CASE rows'[s] = rows[s]
    BY <2>1 DEF BaseInv, EndedOK
  <2>2. CASE rows'[s] # rows[s]
    <3>1. /\ s = job[h].sub /\ Manages(job[h]) /\ rows'[s].status = job[h].entity.status
          /\ job[h].entity.status \notin Unpaid
      BY <2>2 DEF Writes
    <3>2. remote[s].status \notin Unpaid /\ rows[s].status # "NONE"
      BY <3>1 DEF BaseInv, JobsOK, KnowsOK
    <3>3. remote[s].status \notin Terminal => job[h].entity.status \notin Terminal
      BY <3>1 DEF BaseInv, EndedOK
    <3> QED
      BY <3>1, <3>2, <3>3 DEF Unpaid, Terminal
  <2> QED
    BY <2>1, <2>2
<1>4. MadeOK'
  BY <1>3 DEF BaseInv, MadeOK
<1>5. EventsOK'
  BY DEF BaseInv, EventsOK
<1>6. \A g \in Handlers : job'[g].sub \in {0, job[g].sub} /\ job'[g].event \in {0, job[g].event}
  <2> TAKE g \in Handlers
  <2>1. CASE g = h
    BY <1>1, <2>1, IdleIsJob DEF Follows
  <2>2. CASE g # h
    BY <1>1, <2>2, SameFacts
  <2> QED
    BY <2>1, <2>2
<1>7. UnpaidOK'
  <2> SUFFICES ASSUME NEW s \in Subs PROVE
         /\ remote[s].status \in Unpaid =>
              /\ rows'[s].status \in Unpaid /\ s \notin signed
              /\ \A e \in events' : e.sub # s
         /\ remote[s].status = "NONE" => rows'[s].status = "NONE" /\ \A g \in Handlers : job'[g].sub # s
         /\ remote[s].status \in Live \cup {"PAUSED"} \/ s \in signed => rows'[s].status # "NONE"
    BY DEF UnpaidOK
  <2>1. s # 0
    BY DEF Subs
  <2>2. remote[s].status = "NONE" => \A g \in Handlers : job'[g].sub # s
    BY <1>6, <2>1 DEF BaseInv, UnpaidOK
  <2>3. remote[s].status \in Unpaid =>
              /\ rows'[s].status \in Unpaid /\ s \notin signed
              /\ \A e \in events' : e.sub # s
    BY <1>3 DEF BaseInv, UnpaidOK
  <2>4. remote[s].status = "NONE" => rows'[s].status = "NONE"
    BY <1>3 DEF BaseInv, UnpaidOK, Unpaid
  <2>5. remote[s].status \in Live \cup {"PAUSED"} \/ s \in signed => rows'[s].status # "NONE"
    BY <1>3 DEF BaseInv, UnpaidOK
  <2> QED
    BY <2>2, <2>3, <2>4, <2>5
<1>8. EndedOK'
  <2> SUFFICES ASSUME NEW s \in Subs, remote[s].status \notin Terminal PROVE
         /\ rows'[s].status \notin Terminal
         /\ \A e \in events' : e.sub = s => e.entity.status \notin Terminal
         /\ \A g \in Handlers : job'[g].sub = s => job'[g].entity.status \notin Terminal
    BY DEF EndedOK
  <2>1. ASSUME NEW g \in Handlers, job'[g].sub = s PROVE job'[g].entity.status \notin Terminal
    <3>1. s # 0
      BY DEF Subs
    <3>2. CASE g = h
      BY <1>1, <2>1, <3>1, <3>2, IdleIsJob DEF Follows, BaseInv, EndedOK
    <3>3. CASE g # h
      BY <1>1, <2>1, <3>3, SameFacts DEF BaseInv, EndedOK
    <3> QED
      BY <3>2, <3>3
  <2> QED
    BY <1>3, <2>1 DEF BaseInv, EndedOK
<1>9. JobsOK'
  <2>1. ASSUME NEW g \in Handlers, NEW k, k = job'[g] PROVE StepsOK(k) /\ KnowsOK(k)'
    <3>1. CASE g = h /\ j = Idle
      BY <1>1, <2>1, <3>1, IdleIsJob DEF KnowsOK, Manages, Webhook, EventTypes
    <3>2. CASE g = h /\ j # Idle
      <4>1. /\ k = j /\ j.kind = job[h].kind /\ j.sub = job[h].sub /\ j.event = job[h].event
            /\ Manages(job[h]) /\ (Asked(j) => j.entity.status \notin Unpaid)
            /\ job[h].kind = "paused" => j.entity.status = job[h].entity.status
        BY <1>1, <2>1, <3>2 DEF Follows
      <4>2. KnowsOK(job[h]) /\ Manages(j)
        BY <4>1 DEF BaseInv, JobsOK, Manages
      <4>3. job[h].sub \in Subs /\ rows'[j.sub].status # "NONE" /\ remote[j.sub].status \notin Unpaid
        BY <1>3, <4>1, <4>2 DEF KnowsOK
      <4> QED
        BY <4>1, <4>2, <4>3 DEF KnowsOK, Webhook
    <3>3. CASE g # h
      <4>1. /\ k.todo = job[g].todo /\ k.kind = job[g].kind /\ k.sub = job[g].sub
            /\ k.entity = job[g].entity /\ k.event = job[g].event
            /\ job[g].todo = <<>> => k = job[g]
        BY <1>1, <2>1, <3>3, SameFacts
      <4>2. KnowsOK(job[g]) /\ StepsOK(job[g])
        BY DEF BaseInv, JobsOK
      <4>3. Manages(job[g]) => job[g].sub \in Subs /\ rows'[job[g].sub].status # "NONE"
        BY <1>3, <4>2 DEF KnowsOK
      <4>31. job[g].kind = "checkout" /\ job[g].sub # 0 => rows'[job[g].sub].status = "NONE"
        <5>1. job[g].sub \in {0} \cup Subs
          BY <1>1 DEF BaseInv, Typed, Job
        <5> QED
          BY <1>3, <4>2, <5>1 DEF KnowsOK
      <4>4. KnowsOK(k)'
        BY <4>1, <4>2, <4>3, <4>31 DEF KnowsOK, Manages, Webhook, Asked
      <4>5. k = job[g] \/ job[g].todo # <<>>
        BY <4>1
      <4>6. k = job[g] \/ job[g].kind # "none"
        BY <4>2, <4>5, IdleIsJob DEF StepsOK
      <4>7. StepsOK(k)
        <5>1. CASE k = job[g]
          BY <4>2, <5>1
        <5>2. CASE k # job[g]
          BY <4>1, <4>2, <4>5, <4>6, <5>2 DEF StepsOK, Has
        <5> QED
          BY <5>1, <5>2
      <4> QED
        BY <4>4, <4>7
    <3> QED
      BY <3>1, <3>2, <3>3
  <2>2. ASSUME NEW f \in Handlers, NEW g \in Handlers,
               job'[f].event = job'[g].event, job'[f].event # 0
        PROVE  f = g
    BY <1>6, <2>2 DEF BaseInv, JobsOK
  <2>3. ASSUME NEW f \in Handlers, NEW g \in Handlers, job'[f].kind = "checkout",
               job'[g].kind = "checkout", job'[f].sub = job'[g].sub, job'[f].sub # 0
        PROVE  f = g
    <3>1. ASSUME NEW d \in Handlers, job'[d].kind = "checkout" PROVE d # h /\ job[d].kind = "checkout"
      BY <1>1, <3>1, IdleIsJob, SameFacts DEF Follows, Manages
    <3>2. f # h /\ g # h /\ job[f].kind = "checkout" /\ job[g].kind = "checkout"
      BY <2>3, <3>1
    <3>3. job'[f].sub = job[f].sub /\ job'[g].sub = job[g].sub
      BY <1>1, <3>2, SameFacts
    <3> QED
      BY <2>3, <3>2, <3>3 DEF BaseInv, JobsOK
  <2>4. \A g \in Handlers : StepsOK(job[g])' /\ KnowsOK(job[g])'
    <3> TAKE g \in Handlers
    <3>1. PICK k : k = job'[g]
      OBVIOUS
    <3>2. StepsOK(k) /\ KnowsOK(k)'
      BY <2>1, <3>1
    <3> QED
      BY <3>1, <3>2 DEF StepsOK, KnowsOK, Has, Manages, Webhook, Asked
  <2> QED
    BY <2>2, <2>3, <2>4 DEF JobsOK
<1> QED
  BY <1>2, <1>4, <1>5, <1>7, <1>8, <1>9 DEF BaseInv

\* A request that begins.
LEMMA StartBase ==
  ASSUME BaseInv, NEW h \in Handlers, job[h] = Idle, NEW j \in Job, Goes(h, j),
         StepsOK(j), KnowsOK(j)', j.event # 0 => \A g \in Handlers : job[g].event # j.event,
         j.kind = "checkout" => j.sub = 0,
         j.sub # 0 => /\ remote[j.sub].status # "NONE"
                      /\ remote[j.sub].status \notin Terminal => j.entity.status \notin Terminal,
         seen \subseteq seen', seen' \subseteq 1 .. sent, events' \subseteq events, signed' \subseteq signed,
         UNCHANGED <<plan, rows, made, touched, remote, over, sent>>
  PROVE  BaseInv'
<1>1. job' = [job EXCEPT ![h] = j] /\ job \in [Handlers -> Job]
  BY DEF BaseInv, Typed, Goes
<1>2. Typed'
  BY <1>1 DEF BaseInv, Typed
<1>3. MadeOK' /\ EventsOK'
  BY DEF BaseInv, MadeOK, EventsOK
<1>4. JobsOK'
  <2>1. ASSUME NEW g \in Handlers, NEW k, k = job'[g] PROVE StepsOK(k) /\ KnowsOK(k)'
    <3>1. CASE g = h
      BY <1>1, <2>1, <3>1
    <3>2. CASE g # h
      <4>1. k = job[g] /\ StepsOK(k) /\ KnowsOK(k)
        BY <1>1, <2>1, <3>2 DEF BaseInv, JobsOK
      <4> QED
        BY <4>1 DEF KnowsOK
    <3> QED
      BY <3>1, <3>2
  <2>2. ASSUME NEW f \in Handlers, NEW g \in Handlers,
               job'[f].event = job'[g].event, job'[f].event # 0
        PROVE  f = g
    BY <1>1, <2>2 DEF BaseInv, JobsOK
  <2>3. ASSUME NEW f \in Handlers, NEW g \in Handlers, job'[f].kind = "checkout",
               job'[g].kind = "checkout", job'[f].sub = job'[g].sub, job'[f].sub # 0
        PROVE  f = g
    BY <1>1, <2>3 DEF BaseInv, JobsOK
  <2>4. \A g \in Handlers : StepsOK(job[g])' /\ KnowsOK(job[g])'
    <3> TAKE g \in Handlers
    <3>1. PICK k : k = job'[g]
      OBVIOUS
    <3>2. StepsOK(k) /\ KnowsOK(k)'
      BY <2>1, <3>1
    <3> QED
      BY <3>1, <3>2 DEF StepsOK, KnowsOK, Has, Manages, Webhook, Asked
  <2> QED
    BY <2>2, <2>3, <2>4 DEF JobsOK
<1>5. UnpaidOK'
  <2>1. ASSUME NEW s \in Subs, remote[s].status = "NONE", NEW g \in Handlers PROVE job'[g].sub # s
    BY <1>1, <2>1 DEF BaseInv, UnpaidOK, Subs
  <2> QED
    BY <2>1 DEF BaseInv, UnpaidOK
<1>6. EndedOK'
  <2>1. ASSUME NEW s \in Subs, remote[s].status \notin Terminal, NEW g \in Handlers, job'[g].sub = s
        PROVE  job'[g].entity.status \notin Terminal
    BY <1>1, <2>1 DEF BaseInv, EndedOK, Subs
  <2> QED
    BY <2>1 DEF BaseInv, EndedOK
<1> QED
  BY <1>2, <1>3, <1>4, <1>5, <1>6 DEF BaseInv

\* No request goes on.
LEMMA QuietBase ==
  ASSUME BaseInv, events' \subseteq events, plan' \in Plans, over' \in [Subs -> Nat],
         seen \subseteq seen', seen' \subseteq 1 .. sent,
         UNCHANGED <<rows, made, touched, job, remote, sent, signed>>
  PROVE  BaseInv'
<1>1. JobsOK'
  <2>1. ASSUME NEW g \in Handlers PROVE StepsOK(job[g])' /\ KnowsOK(job[g])'
    <3>1. StepsOK(job[g]) /\ KnowsOK(job[g])
      BY DEF BaseInv, JobsOK
    <3>2. StepsOK(job[g])'
      BY <3>1 DEF StepsOK, Has
    <3>3. KnowsOK(job[g])'
      BY <3>1 DEF KnowsOK, Manages, Webhook, Asked
    <3> QED
      BY <3>2, <3>3
  <2> QED
    BY <2>1 DEF BaseInv, JobsOK
<1> QED
  BY <1>1 DEF BaseInv, Typed, MadeOK, EventsOK, UnpaidOK, EndedOK

\* Razorpay tells of a change.
LEMMA TellBase ==
  ASSUME BaseInv, NEW s \in Subs, NEW type \in EventTypes, NEW r \in Entity, Tell(s, type, r),
         r.status \notin Unpaid, remote[s].status \notin Terminal \cup {"NONE"},
         type = "paused" => r.status = "PAUSED",
         remote[s].status = "CREATED" => rows[s].status # "NONE" \/ r.status \in Terminal,
         UNCHANGED over, signed' \in {signed, signed \cup {s}}, s \in signed' => rows[s].status # "NONE"
  PROVE  BaseInv'
<1> DEFINE e == [id |-> sent + 1, sub |-> s, type |-> type, entity |-> r]
<1>1. /\ sent' = sent + 1 /\ remote' = [remote EXCEPT ![s] = r] /\ events' = events \cup {e}
      /\ UNCHANGED <<plan, rows, made, touched, seen, job>>
  BY DEF Tell, tables, rowVars
<1>2. /\ remote'[s] = r /\ \A t \in Subs \ {s} : remote'[t] = remote[t]
      /\ sent \in Nat /\ e.id = sent + 1 /\ e.sub = s /\ e.type = type /\ e.entity = r
  BY <1>1 DEF BaseInv, Typed
<1>3. Typed'
  <2>1. e \in Event
    BY <1>2 DEF Event
  <2>2. seen \subseteq 1 .. sent'
    BY <1>1, <1>2 DEF BaseInv, Typed
  <2> QED
    BY <1>1, <2>1, <2>2 DEF BaseInv, Typed
<1> HIDE DEF e
<1>4. MadeOK'
  BY <1>1, <1>2 DEF BaseInv, MadeOK, Unpaid
<1>5. EventsOK'
  BY <1>1, <1>2 DEF BaseInv, EventsOK, Typed, Event
<1>6. JobsOK'
  <2>1. ASSUME NEW g \in Handlers, Manages(job[g])
        PROVE  job[g].sub \in Subs /\ remote'[job[g].sub].status \notin Unpaid
    BY <1>2, <2>1 DEF BaseInv, JobsOK, KnowsOK
  <2> QED
    BY <1>1, <2>1 DEF BaseInv, JobsOK, KnowsOK, StepsOK, Has, Manages, Webhook, Asked
<1>7. UnpaidOK'
  <2> SUFFICES ASSUME NEW t \in Subs PROVE
         /\ remote'[t].status \in Unpaid =>
              /\ rows[t].status \in Unpaid /\ t \notin signed'
              /\ \A d \in events' : d.sub # t
         /\ remote'[t].status = "NONE" => rows[t].status = "NONE" /\ \A h \in Handlers : job[h].sub # t
         /\ remote'[t].status \in Live \cup {"PAUSED"} \/ t \in signed' => rows[t].status # "NONE"
    BY <1>1 DEF UnpaidOK
  <2>1. CASE t = s
    <3>1. r.status \in Live \cup {"PAUSED"} => rows[s].status # "NONE"
      BY DEF BaseInv, UnpaidOK, Typed, Entity, Statuses, Good, Dead, Live, Terminal
    <3> QED
      BY <1>2, <2>1, <3>1 DEF Unpaid
  <2>2. CASE t # s
    BY <1>1, <1>2, <2>2 DEF BaseInv, UnpaidOK
  <2> QED
    BY <2>1, <2>2
<1>8. EndedOK'
  BY <1>1, <1>2 DEF BaseInv, EndedOK
<1> QED
  BY <1>3, <1>4, <1>5, <1>6, <1>7, <1>8 DEF BaseInv

----------------------------------------------------------------------------
(* The steps of a request.                                                 *)

\* What is common to the steps of a request that manages subscriptions: i before, j after.
Progresses(h, i, j) ==
  /\ i = job[h] /\ j \in Job /\ Manages(i) /\ i.todo # <<>>
  /\ Moves(h, j) /\ StepsOK(j) /\ Follows(i, j) /\ Writes(i)
  /\ rows' \in [Subs -> Row] /\ touched' \in Seq(Subs) /\ plan' \in Plans
  /\ UNCHANGED <<made, remote, over, sent, seen, signed, doubled>>
  /\ events' \subseteq events /\ \A e \in events : e \in events' \/ (j = Idle /\ e.id = i.event)
  /\ lost \subseteq lost' /\ disordered \subseteq disordered' /\ payments \subseteq payments'
  /\ \/ j = Idle
     \/ Asked(i) /\ j.entity = i.entity
     \/ ~Webhook(i) /\ (j.entity = remote[i.sub] \/ i.sub \in disordered')
  /\ Webhook(i) /\ i.todo[1] = "apply" => rows'[i.sub].status = i.entity.status \/ i.sub \in lost'
  /\ i.kind = "charged" /\ Has(i, "record") =>
       \/ j # Idle /\ Has(j, "record")
       \/ <<i.sub, i.entity.end>> \in payments' \/ i.sub \in lost'

LEMMA AtManages ==
  ASSUME BaseInv, NEW h \in Handlers, job[h].todo # <<>>,
         job[h].todo[1] \notin {"create", "insert"}
  PROVE  Manages(job[h]) /\ job[h] \in Job /\ StepsOK(job[h]) /\ KnowsOK(job[h]) /\ job[h].sub \in Subs
<1>1. job[h] \in Job /\ StepsOK(job[h]) /\ KnowsOK(job[h])
  BY DEF BaseInv, Typed, JobsOK
<1>2. Manages(job[h])
  <2>1. job[h].kind # "none"
    BY <1>1, IdleIsJob DEF StepsOK
  <2>2. job[h].kind # "checkout"
    BY <1>1 DEF StepsOK
  <2> QED
    BY <2>1, <2>2 DEF Manages
<1> QED
  BY <1>1, <1>2 DEF KnowsOK

\* A request goes on to its next step and takes nothing new from Razorpay.
LEMMA Onward ==
  ASSUME BaseInv, NEW h \in Handlers, NEW step, step \notin {"create", "insert", "fetch", "cancel"},
         At(h, step), NEW i, i = job[h], NEW k, k = Next1(h), NEW j,
         j = k \/ j = [k EXCEPT !.stale = FALSE], Goes(h, j) \/ Changes(h, j)
  PROVE  /\ Manages(i) /\ Asked(i) /\ j \in Job /\ i.todo # <<>>
         /\ Moves(h, j) /\ StepsOK(j) /\ Follows(i, j)
         /\ j = Idle \/ j.entity = i.entity
         /\ Len(i.todo) = 1 => j = Idle
         /\ step # "record" /\ Has(i, "record") => j # Idle /\ Has(j, "record")
         /\ j = Idle => Len(i.todo) = 1
         /\ \A x : Has(j, x) => Has(i, x)
<1>1. /\ Manages(i) /\ i \in Job /\ StepsOK(i) /\ KnowsOK(i) /\ i.sub \in Subs
      /\ i.todo # <<>> /\ i.todo \in Seq(Steps) /\ i.todo[1] = step
  BY AtManages DEF At, Job
<1>2. /\ k \in Job /\ StepsOK(k)
      /\ \A x : Has(k, x) => Has(i, x)
      /\ \/ k = Idle /\ Len(i.todo) = 1
         \/ /\ Len(i.todo) # 1 /\ k = [i EXCEPT !.todo = Tail(@)]
            /\ k.todo = Tail(i.todo) /\ k.todo # <<>>
            /\ k.kind = i.kind /\ k.sub = i.sub /\ k.entity = i.entity
            /\ k.event = i.event /\ k.plan = i.plan /\ k.stale = i.stale
  BY <1>1, NextJob
<1>3. Asked(i) /\ i.entity.status \notin Unpaid
  BY <1>1 DEF Asked, KnowsOK
<1>4. k = Idle => j = Idle
  BY IdleIsJob DEF Idle
<1>5. /\ j \in Job /\ j.todo = k.todo /\ j.kind = k.kind /\ j.sub = k.sub
      /\ j.entity = k.entity /\ j.event = k.event
  BY <1>2 DEF Job
<1>6. StepsOK(j)
  <2>1. CASE k = Idle
    BY <1>2, <1>4, <2>1
  <2>2. CASE k # Idle
    BY <1>1, <1>2, <1>5, <2>2 DEF StepsOK, Has, Manages
  <2> QED
    BY <2>1, <2>2
<1>7. Moves(h, j)
  BY <1>5, GoesMoves DEF BaseInv
<1>8. Follows(i, j)
  BY <1>1, <1>2, <1>3, <1>4, <1>5 DEF Follows
<1>9. ASSUME step # "record", Has(i, "record") PROVE j # Idle /\ Has(j, "record")
  <2>1. PICK p \in 1 .. Len(i.todo) : i.todo[p] = "record"
    BY <1>9 DEF Has
  <2>2. Len(i.todo) \in Nat /\ p # 1 /\ p - 1 \in 1 .. Len(i.todo) - 1 /\ (p - 1) + 1 = p
    BY <1>1, <1>9, <2>1
  <2>3. Len(Tail(i.todo)) = Len(i.todo) - 1 /\ \A n \in 1 .. Len(Tail(i.todo)) : Tail(i.todo)[n] = i.todo[n + 1]
    BY <1>1, DoneFacts
  <2>4. Len(i.todo) # 1
    BY <2>1, <2>2
  <2>5. j.todo = Tail(i.todo) /\ j.todo # <<>>
    BY <1>2, <1>5, <2>4
  <2>6. p - 1 \in 1 .. Len(j.todo) /\ j.todo[p - 1] = "record"
    BY <2>1, <2>2, <2>3, <2>5
  <2> QED
    BY <2>5, <2>6, IdleIsJob DEF Has
<1>10. j = Idle => Len(i.todo) = 1
  BY <1>2, <1>5, IdleIsJob
<1> QED
  BY <1>1, <1>2, <1>3, <1>4, <1>5, <1>6, <1>7, <1>8, <1>9, <1>10 DEF Has

LEMMA MovedLastSeq ==
  ASSUME NEW q \in Seq(Subs), NEW s \in Subs
  PROVE  MovedLast(q, s) \in Seq(Subs)
<1>1. PICK n \in Nat : n = Len(q) /\ DOMAIN q = 1 .. n /\ \A i \in 1 .. n : q[i] \in Subs
  OBVIOUS
<1> DEFINE new == [i \in 1 .. n |->
                    IF i = n THEN s ELSE IF \E j \in 1 .. i : q[j] = s THEN q[i + 1] ELSE q[i]]
<1>2. MovedLast(q, s) = new
  BY <1>1 DEF MovedLast
<1>3. ASSUME NEW i \in 1 .. n PROVE new[i] \in Subs
  <2>1. CASE i = n
    BY <2>1
  <2>2. CASE i # n
    <3>1. i + 1 \in 1 .. n
      BY <2>2
    <3>2. q[i] \in Subs /\ q[i + 1] \in Subs
      BY <1>1, <3>1
    <3> QED
      BY <2>2, <3>2
  <2> QED
    BY <2>1, <2>2
<1>4. new \in Seq(Subs)
  <2> HIDE DEF new
  <2>1. new = [i \in 1 .. n |-> new[i]]
    BY DEF new
  <2> QED
    BY <1>3, <2>1
<1> QED
  BY <1>2, <1>4

LEMMA PutRowFacts ==
  ASSUME BaseInv, NEW s \in Subs, NEW row \in Row, PutRow(s, row)
  PROVE  /\ rows' \in [Subs -> Row] /\ rows'[s] = row /\ \A r \in Subs \ {s} : rows'[r] = rows[r]
         /\ touched' \in Seq(Subs)
<1>1. rows' \in [Subs -> Row] /\ rows'[s] = row /\ \A r \in Subs \ {s} : rows'[r] = rows[r]
  BY DEF PutRow, BaseInv, Typed
<1>2. touched' \in Seq(Subs)
  BY MovedLastSeq DEF PutRow, BaseInv, Typed
<1> QED
  BY <1>1, <1>2

\* A step that writes status st to its row.
LEMMA WriteProgresses ==
  ASSUME BaseInv, NEW h \in Handlers, NEW step \in {"apply", "force", "close"}, At(h, step),
         NEW i, i = job[h], NEW j, j = Next1(h), Changes(h, j),
         NEW row \in Row, PutRow(i.sub, row), row.status = i.entity.status,
         UNCHANGED <<plan, made, payments, seen, razorpay, bounds, history>>
  PROVE  Progresses(h, i, j)
<1>1. /\ Manages(i) /\ Asked(i) /\ j \in Job /\ i.todo # <<>>
      /\ Moves(h, j) /\ StepsOK(j) /\ Follows(i, j)
      /\ j = Idle \/ j.entity = i.entity
      /\ Has(i, "record") => j # Idle /\ Has(j, "record")
  BY Onward
<1>2. i.sub \in Subs /\ i.entity.status \notin Unpaid
  BY <1>1 DEF BaseInv, JobsOK, KnowsOK
<1>3. /\ rows' \in [Subs -> Row] /\ rows'[i.sub] = row /\ \A r \in Subs \ {i.sub} : rows'[r] = rows[r]
      /\ touched' \in Seq(Subs)
  BY <1>2, PutRowFacts
<1>4. Writes(i)
  BY <1>1, <1>2, <1>3 DEF Writes
<1>5. plan' \in Plans
  BY DEF BaseInv, Typed
<1> QED
  BY <1>1, <1>3, <1>4, <1>5 DEF Progresses, razorpay, history

LEMMA ForceProgresses ==
  ASSUME BaseInv, NEW h \in Handlers, ForceStatus(h)
  PROVE  \E i, j : Progresses(h, i, j)
<1>1. PICK i, j : i = job[h] /\ j = Next1(h)
  OBVIOUS
<1>2. At(h, "force") /\ Changes(h, j) /\ UNCHANGED <<plan, made, payments, seen, razorpay, bounds, history>>
  BY <1>1 DEF ForceStatus
<1>3. i \in Job /\ i.sub \in Subs /\ i.entity.status \notin Unpaid
  BY <1>1, <1>2, AtManages DEF At, KnowsOK, Asked
<1>4. PICK row : row = [rows[i.sub] EXCEPT !.status = i.entity.status]
  OBVIOUS
<1>5. row \in Row /\ row.status = i.entity.status
  <2>1. PICK r \in Row : r = rows[i.sub]
    BY <1>3 DEF BaseInv, Typed
  <2> QED
    BY <1>3, <1>4, <2>1 DEF Row, Job, Entity
<1>6. PutRow(i.sub, row)
  BY <1>1, <1>3, <1>4 DEF ForceStatus, Unpaid
<1> QED
  BY <1>1, <1>2, <1>5, <1>6, WriteProgresses

LEMMA CloseProgresses ==
  ASSUME BaseInv, NEW h \in Handlers, Close(h)
  PROVE  \E i, j : Progresses(h, i, j)
<1>1. PICK i, j : i = job[h] /\ j = Next1(h)
  OBVIOUS
<1>2. At(h, "close") /\ Changes(h, j) /\ UNCHANGED <<plan, made, payments, seen, razorpay, bounds, history>>
  BY <1>1 DEF Close
<1>3. i \in Job /\ i.sub \in Subs
  BY <1>1, <1>2, AtManages DEF At
<1>4. PICK row : row = [status |-> i.entity.status, cancelAtEnd |-> TRUE, end |-> i.entity.end]
  OBVIOUS
<1>5. row \in Row /\ row.status = i.entity.status
  BY <1>3, <1>4 DEF Row, Job, Entity
<1>6. PutRow(i.sub, row)
  BY <1>1, <1>4 DEF Close
<1> QED
  BY <1>1, <1>2, <1>5, <1>6, WriteProgresses

LEMMA ApplyProgresses ==
  ASSUME BaseInv, NEW h \in Handlers, Apply(h)
  PROVE  \E i, j : Progresses(h, i, j)
<1>1. PICK i, j : i = job[h] /\ j = Next1(h)
  OBVIOUS
<1>2. At(h, "apply") /\ Changes(h, j) /\ UNCHANGED <<plan, made, payments, seen, razorpay, bounds, history>>
  BY <1>1 DEF Apply
<1>3. i \in Job /\ i.sub \in Subs /\ KnowsOK(i)
  BY <1>1, <1>2, AtManages DEF At
<1>4. PICK row : row = Applied(i.kind, rows[i.sub], i.entity)
  OBVIOUS
<1>5. row \in Row /\ row.status = i.entity.status
  <2>1. PICK r \in Row : r = rows[i.sub]
    BY <1>3 DEF BaseInv, Typed
  <2>2. CASE i.kind = "paused"
    <3>1. row = [r EXCEPT !.status = "PAUSED"] /\ i.entity.status = "PAUSED"
      BY <1>3, <1>4, <2>1, <2>2 DEF Applied, KnowsOK
    <3> QED
      BY <3>1 DEF Row, Statuses, Dead
  <2>3. CASE i.kind = "cancelled"
    BY <1>3, <1>4, <2>3 DEF Applied, Row, Job, Entity
  <2>4. CASE i.kind \notin {"paused", "cancelled"}
    <3>1. PICK t : t = [r EXCEPT !.status = i.entity.status]
      OBVIOUS
    <3>2. row = [t EXCEPT !.end = i.entity.end]
      BY <1>4, <2>1, <2>4, <3>1 DEF Applied
    <3>3. t \in Row /\ t.status = i.entity.status
      BY <1>3, <3>1 DEF Row, Job, Entity
    <3> QED
      BY <1>3, <3>2, <3>3 DEF Row, Job, Entity
  <2> QED
    BY <2>2, <2>3, <2>4
<1>6. PutRow(i.sub, row)
  BY <1>1, <1>4 DEF Apply
<1> QED
  BY <1>1, <1>2, <1>5, <1>6, WriteProgresses

\* A step that changes no row.
LEMMA NoRowProgresses ==
  ASSUME BaseInv, NEW h \in Handlers, NEW step, step \notin {"create", "insert", "fetch", "cancel", "apply"},
         At(h, step), NEW i, i = job[h], NEW k, k = Next1(h), NEW j,
         j = k \/ j = [k EXCEPT !.stale = FALSE], Goes(h, j) \/ Changes(h, j),
         plan' \in Plans, payments \subseteq payments', events' = events \/ Answer(h),
         step = "record" /\ i.kind = "charged" => <<i.sub, i.entity.end>> \in payments',
         UNCHANGED <<rows, made, touched, seen, remote, over, sent, signed, lost, disordered, doubled>>
  PROVE  Progresses(h, i, j)
<1>1. /\ Manages(i) /\ Asked(i) /\ j \in Job /\ i.todo # <<>>
      /\ Moves(h, j) /\ StepsOK(j) /\ Follows(i, j)
      /\ j = Idle \/ j.entity = i.entity
      /\ Len(i.todo) = 1 => j = Idle
      /\ step # "record" /\ Has(i, "record") => j # Idle /\ Has(j, "record")
  BY Onward
<1>2. Writes(i)
  BY DEF Writes
<1>3. events' \subseteq events /\ \A e \in events : e \in events' \/ (j = Idle /\ e.id = i.event)
  <2>1. CASE Len(i.todo) = 1
    BY <1>1, <2>1 DEF Answer
  <2>2. CASE Len(i.todo) # 1
    BY <2>2 DEF Answer
  <2> QED
    BY <2>1, <2>2
<1>4. rows' \in [Subs -> Row] /\ touched' \in Seq(Subs) /\ i.todo[1] = step
  BY DEF BaseInv, Typed, At
<1> QED
  BY <1>1, <1>2, <1>3, <1>4 DEF Progresses

LEMMA GrantProgresses ==
  ASSUME BaseInv, NEW h \in Handlers, Grant(h)
  PROVE  \E i, j : Progresses(h, i, j)
<1>1. PICK i, j : i = job[h] /\ j = Next1(h)
  OBVIOUS
<1>2. At(h, "grant") /\ Changes(h, j) /\ plan' \in Plans
  BY <1>1 DEF Grant, Plans
<1>3. UNCHANGED <<rows, made, touched, seen, remote, over, sent, signed, lost, disordered, doubled,
                  events, payments>>
  BY DEF Grant, rowVars, razorpay, history
<1>4. payments \subseteq payments' /\ events' = events /\ "grant" # "record"
      /\ "grant" \notin {"create", "insert", "fetch", "cancel", "apply"}
  BY <1>3
<1>5. Progresses(h, i, j)
  BY <1>1, <1>2, <1>3, <1>4, NoRowProgresses, Zenon
<1> QED
  BY <1>5

LEMMA RecordProgresses ==
  ASSUME BaseInv, NEW h \in Handlers, Record(h)
  PROVE  \E i, j : Progresses(h, i, j)
<1>1. PICK i, j : i = job[h] /\ j = Next1(h)
  OBVIOUS
<1>2. At(h, "record") /\ Goes(h, j) /\ plan' \in Plans
  BY <1>1 DEF Record, BaseInv, Typed
<1>3. UNCHANGED <<rows, made, touched, seen, remote, over, sent, signed, lost, disordered, doubled, events>>
  BY DEF Record, rowVars, razorpay, history
<1>4. payments \subseteq payments' /\ (i.kind = "charged" => <<i.sub, i.entity.end>> \in payments')
  BY <1>1 DEF Record, PaidPeriod
<1> QED
  BY <1>1, <1>2, <1>3, <1>4, NoRowProgresses

LEMMA SetProgresses ==
  ASSUME BaseInv, NEW h \in Handlers, SetPlan(h)
  PROVE  \E i, j : Progresses(h, i, j)
<1>1. PICK i, j : i = job[h] /\ j = Next1(h)
  OBVIOUS
<1>2. At(h, "set") /\ Changes(h, j) /\ Answer(h)
  BY <1>1 DEF SetPlan
<1>3. plan' \in Plans
  BY DEF SetPlan, BaseInv, Typed, Job
<1>4. UNCHANGED <<rows, made, touched, seen, remote, over, sent, signed, lost, disordered, doubled,
                  payments>>
  BY DEF SetPlan, rowVars
<1>5. /\ payments \subseteq payments' /\ "set" # "record"
      /\ "set" \notin {"create", "insert", "fetch", "cancel", "apply"}
  BY <1>4
<1>6. Progresses(h, i, j)
  BY <1>1, <1>2, <1>3, <1>4, <1>5, NoRowProgresses, Zenon
<1> QED
  BY <1>6

\* A sync has read, and has a plan to write or the rest to read.
Reread(i, x, p, b) ==
  [todo |-> [i.todo EXCEPT ![1] = x], kind |-> i.kind, sub |-> i.sub, entity |-> i.entity,
   event |-> i.event, plan |-> p, stale |-> b]

LEMMA RereadIs ==
  ASSUME NEW i \in Job, NEW x, NEW p
  PROVE  [i EXCEPT !.todo[1] = x, !.plan = p] = Reread(i, x, p, i.stale)
<1>1. PICK todo : todo = [i.todo EXCEPT ![1] = x]
  OBVIOUS
<1>2. PICK n : n = [todo |-> todo, kind |-> i.kind, sub |-> i.sub, entity |-> i.entity,
                event |-> i.event, plan |-> i.plan, stale |-> i.stale]
  OBVIOUS
<1>3. [i EXCEPT !.todo = todo] = n
  BY <1>2 DEF Job
<1>4. [n EXCEPT !.plan = p] = Reread(i, x, p, i.stale)
  BY <1>1, <1>2 DEF Reread
<1>5. [i EXCEPT !.todo[1] = x, !.plan = p] = [n EXCEPT !.plan = p]
  BY <1>1, <1>3 DEF Job
<1> QED
  BY <1>4, <1>5

LEMMA SyncReadIs ==
  ASSUME NEW i \in Job, NEW x, NEW p
  PROVE  [i EXCEPT !.plan = p, !.todo[1] = x, !.stale = FALSE] = Reread(i, x, p, FALSE)
<1>1. PICK todo, b : todo = [i.todo EXCEPT ![1] = x] /\ b = FALSE
  OBVIOUS
<1>2. PICK k : k = [todo |-> i.todo, kind |-> i.kind, sub |-> i.sub, entity |-> i.entity,
                    event |-> i.event, plan |-> p, stale |-> i.stale]
  OBVIOUS
<1>3. PICK m : m = [todo |-> todo, kind |-> i.kind, sub |-> i.sub, entity |-> i.entity,
                    event |-> i.event, plan |-> p, stale |-> i.stale]
  OBVIOUS
<1>4. [i EXCEPT !.plan = p] = k
  BY <1>2 DEF Job
<1>5. [k EXCEPT !.todo = todo] = m
  BY <1>2, <1>3
<1>6. [m EXCEPT !.stale = b] = Reread(i, x, p, b)
  BY <1>1, <1>3 DEF Reread
<1>7. [i EXCEPT !.plan = p, !.todo[1] = x, !.stale = FALSE] = [[k EXCEPT !.todo = todo] EXCEPT !.stale = FALSE]
  BY <1>1, <1>4 DEF Job
<1> QED
  BY <1>1, <1>5, <1>6, <1>7

LEMMA RereadProgresses ==
  ASSUME BaseInv, NEW h \in Handlers, NEW step \in Syncing, At(h, step), NEW i, i = job[h],
         NEW x \in Syncing, NEW p \in Plans, NEW b \in BOOLEAN, NEW j, Goes(h, j),
         j = Reread(i, x, p, b),
         UNCHANGED <<plan, rows, made, touched, seen, remote, over, sent, signed, lost, disordered, doubled,
                     payments, events>>
  PROVE  Progresses(h, i, j) /\ j.todo # <<>> /\ j.todo[1] = x /\ j.plan = p /\ j.stale = b
<1>1. Manages(i) /\ i \in Job /\ StepsOK(i) /\ KnowsOK(i) /\ i.todo # <<>> /\ i.todo[1] = step
  BY AtManages DEF At, Syncing
<1>3. PICK todo : todo = [i.todo EXCEPT ![1] = x]
  OBVIOUS
<1>5. i.todo \in Seq(Steps) /\ todo \in Seq(Steps)
  BY <1>1, <1>3 DEF Job, Syncing, Steps
<1>6. /\ j \in Job /\ j.todo = todo /\ j.kind = i.kind /\ j.sub = i.sub /\ j.entity = i.entity
      /\ j.event = i.event /\ j.plan = p /\ j.stale = b
  BY <1>1, <1>3, <1>5 DEF Job, Reread
<1>7. /\ StepsOK(j) /\ j.todo # <<>> /\ j.todo[1] = x
      /\ \A y : y \notin Syncing => (Has(j, y) <=> Has(i, y))
  <2>1. i.kind \notin {"none", "checkout"} /\ i.todo[1] \in Syncing
    BY <1>1 DEF Manages
  <2>3. Len(todo) = Len(i.todo) /\ todo[1] = x /\ \A n \in 1 .. Len(i.todo) : n # 1 => todo[n] = i.todo[n]
    BY <1>1, <1>3, <1>5, DoneFacts
  <2>2. StepsOK(i) /\ i.todo # <<>> /\ i \in Job /\ j \in Job /\ j.kind = i.kind /\ j.todo = todo
    BY <1>1, <1>6
  <2>4. j.todo # <<>> /\ Len(j.todo) = Len(i.todo) /\ j.todo[1] = x
        /\ \A n \in 1 .. Len(i.todo) : n # 1 => j.todo[n] = i.todo[n]
    BY <2>2, <2>3
  <2>5. StepsOK(j)
    BY <2>1, <2>2, <2>3, <2>4, RereadSteps
  <2>6. ASSUME NEW y, y \notin Syncing PROVE Has(j, y) <=> Has(i, y)
    BY <2>1, <2>2, <2>3, <2>4, <2>6, RereadSteps DEF Has
  <2> QED
    BY <2>4, <2>5, <2>6
<1>8. Asked(i) /\ i.entity.status \notin Unpaid /\ step # "apply"
  BY <1>1 DEF Asked, KnowsOK, Syncing
<1>9. Follows(i, j) /\ Writes(i)
  BY <1>1, <1>6, <1>8 DEF Follows, Writes
<1>10. Moves(h, j)
  BY <1>6, GoesMoves DEF BaseInv
<1>11. rows' \in [Subs -> Row] /\ touched' \in Seq(Subs) /\ plan' \in Plans
  BY DEF BaseInv, Typed
<1>12. Has(i, "record") => j # Idle /\ Has(j, "record")
  BY <1>7, IdleIsJob DEF Syncing
<1> QED
  BY <1>1, <1>6, <1>7, <1>8, <1>9, <1>10, <1>11, <1>12 DEF Progresses

LEMMA SyncReadProgresses ==
  ASSUME BaseInv, NEW h \in Handlers, SyncRead(h)
  PROVE  \E i, j : Progresses(h, i, j)
<1>1. PICK i, k : i = job[h] /\ k = Next1(h)
  OBVIOUS
<1>2. /\ At(h, "sync") /\ "sync" \in Syncing /\ "sync" # "record"
      /\ "sync" \notin {"create", "insert", "fetch", "cancel", "apply"}
  BY DEF SyncRead, Syncing
<1>3. /\ UNCHANGED <<plan, rows, made, touched, seen, remote, over, sent, signed, lost, disordered, doubled>>
      /\ payments' = payments /\ plan' \in Plans
  BY DEF SyncRead, tables, rowVars, BaseInv, Typed
<1>4. payments \subseteq payments'
  BY <1>3
<1>5. CASE Goes(h, [k EXCEPT !.stale = FALSE]) /\ Answer(h)
  <2>1. PICK j : j = [k EXCEPT !.stale = FALSE]
    OBVIOUS
  <2>2. Goes(h, j)
    BY <1>5, <2>1
  <2>3. Progresses(h, i, j)
    BY <1>1, <1>2, <1>3, <1>4, <1>5, <2>1, <2>2, NoRowProgresses, Zenon
  <2> QED
    BY <2>3
<1>6. ASSUME NEW x \in {"set", "rest"}, NEW p \in Plans, UNCHANGED events,
             Goes(h, [i EXCEPT !.plan = p, !.todo[1] = x, !.stale = FALSE])
      PROVE  \E j : Progresses(h, i, j)
  <2>1. PICK j : j = Reread(i, x, p, FALSE)
    OBVIOUS
  <2>2. Goes(h, j) /\ x \in Syncing
    BY <1>1, <1>6, <2>1, SyncReadIs DEF Syncing, BaseInv, Typed
  <2>3. UNCHANGED <<plan, rows, made, touched, seen, remote, over, sent, signed, lost, disordered, doubled,
                    payments, events>>
    BY <1>3, <1>6
  <2>4. Progresses(h, i, j)
    BY <1>1, <1>2, <2>1, <2>2, <2>3, FALSE \in BOOLEAN, RereadProgresses, Zenon
  <2> QED
    BY <2>4
<1>7. CASE /\ Goes(h, [i EXCEPT !.plan = IF LastIn(touched, Good) # 0 THEN "PRO" ELSE plan,
                         !.todo[1] = IF LastIn(touched, Good) # 0 THEN "set" ELSE "rest",
                         !.stale = FALSE])
           /\ UNCHANGED events
  <2>1. PICK p, x : /\ p = IF LastIn(touched, Good) # 0 THEN "PRO" ELSE plan
                    /\ x = IF LastIn(touched, Good) # 0 THEN "set" ELSE "rest"
    OBVIOUS
  <2>2. p \in Plans /\ x \in {"set", "rest"}
    BY <2>1 DEF BaseInv, Typed, Plans
  <2>3. Goes(h, [i EXCEPT !.plan = p, !.todo[1] = x, !.stale = FALSE])
    BY <1>7, <2>1
  <2> QED
    BY <1>6, <1>7, <2>2, <2>3
<1> QED
  BY <1>1, <1>5, <1>7 DEF SyncRead

LEMMA RestReadProgresses ==
  ASSUME BaseInv, NEW h \in Handlers, RestRead(h)
  PROVE  \E i, j : Progresses(h, i, j)
<1>1. PICK i, k : i = job[h] /\ k = Next1(h)
  OBVIOUS
<1>2. /\ At(h, "rest") /\ "rest" \in Syncing /\ "rest" # "record"
      /\ "rest" \notin {"create", "insert", "fetch", "cancel", "apply"}
  BY DEF RestRead, Syncing
<1>3. /\ UNCHANGED <<plan, rows, made, touched, seen, remote, over, sent, signed, lost, disordered, doubled>>
      /\ payments' = payments /\ plan' \in Plans
  BY DEF RestRead, Synced, WillSet, rowVars, BaseInv, Typed
<1>4. payments \subseteq payments'
  BY <1>3
<1>5. CASE Synced(h)
  <2>1. Goes(h, k) /\ Answer(h)
    BY <1>1, <1>5 DEF Synced
  <2>2. Progresses(h, i, k)
    BY <1>1, <1>2, <1>3, <1>4, <2>1, NoRowProgresses, Zenon
  <2> QED
    BY <2>2
<1>6. ASSUME NEW p \in {"PRO", "FREE"}, WillSet(h, p) PROVE \E j : Progresses(h, i, j)
  <2>1. PICK j : j = Reread(i, "set", p, i.stale)
    OBVIOUS
  <2>2. i \in Job /\ i.todo # <<>>
    BY <1>1, <1>2, AtManages DEF At
  <2>3. PICK b \in BOOLEAN : b = i.stale
    BY <2>2 DEF Job
  <2>8. PICK x \in Syncing : x = "set"
    BY DEF Syncing
  <2>4. j = Reread(i, x, p, b)
    BY <2>1, <2>3, <2>8
  <2>5. Goes(h, j) /\ p \in Plans /\ "set" \in Syncing /\ b \in BOOLEAN
    BY <1>1, <1>6, <2>1, <2>2, RereadIs DEF WillSet, Plans, Syncing
  <2>6. UNCHANGED <<plan, rows, made, touched, seen, remote, over, sent, signed, lost, disordered, doubled,
                    payments, events>>
    BY <1>3, <1>6 DEF WillSet
  <2>7. Progresses(h, i, j)
    BY <1>1, <1>2, <2>4, <2>5, <2>6, RereadProgresses, Zenon
  <2> QED
    BY <2>7
<1> QED
  <2>1. Synced(h) \/ \E p \in {"PRO", "FREE"} : WillSet(h, p)
    BY DEF RestRead
  <2> QED
    BY <1>5, <1>6, <2>1

LEMMA CancelProgresses ==
  ASSUME BaseInv, NEW h \in Handlers, Cancel(h)
  PROVE  \E i, j : Progresses(h, i, j)
<1>1. PICK i, k : i = job[h] /\ k = Next1(h)
  OBVIOUS
<1>2. PICK j : j = [k EXCEPT !.entity = remote[i.sub]]
  OBVIOUS
<1>3. At(h, "cancel") /\ Goes(h, j)
  BY <1>1, <1>2 DEF Cancel
<1>4. Manages(i) /\ i \in Job /\ StepsOK(i) /\ KnowsOK(i) /\ i.sub \in Subs /\ i.todo # <<>> /\ i.todo[1] = "cancel"
  BY <1>1, <1>3, AtManages DEF At
<1>5. Has(i, "cancel") /\ ~Webhook(i)
  <2>1. i.todo \in Seq(Steps)
    BY <1>4 DEF Job
  <2>2. 1 \in 1 .. Len(i.todo)
    BY <1>4, <2>1, DoneFacts
  <2>3. Has(i, "cancel")
    BY <1>4, <2>2 DEF Has
  <2> QED
    BY <1>4, <2>3 DEF StepsOK, Webhook
<1>6. /\ k \in Job /\ StepsOK(k)
      /\ \/ k = Idle /\ Len(i.todo) = 1
         \/ k.todo # <<>> /\ k.kind = i.kind /\ k.sub = i.sub /\ k.event = i.event
  BY <1>1, <1>3, <1>4, NextJob
<1>7. remote[i.sub] \in Entity /\ remote[i.sub].status \notin Unpaid
  BY <1>4 DEF BaseInv, Typed, KnowsOK
<1>8. /\ j \in Job /\ j.todo = k.todo /\ j.kind = k.kind /\ j.sub = k.sub
      /\ j.entity = remote[i.sub] /\ j.event = k.event
  BY <1>2, <1>6, <1>7 DEF Job
<1>9. k # Idle /\ k.todo # <<>> /\ k.kind = i.kind /\ k.sub = i.sub /\ k.event = i.event
  <2>1. i.todo \in Seq(Steps) /\ Len(i.todo) \in Nat /\ 1 \in 1 .. Len(i.todo)
    BY <1>4, DoneFacts DEF Job
  <2>2. \E n \in 1 .. Len(i.todo) : 1 < n
    BY <1>4, <2>1 DEF StepsOK, BeforeSync
  <2>3. Len(i.todo) # 1
    <3>1. SUFFICES ASSUME Len(i.todo) = 1 PROVE FALSE
      OBVIOUS
    <3>2. \E n \in 1 .. 1 : 1 < n
      BY <2>2, <3>1, Zenon
    <3> QED
      BY <3>2
  <2> QED
    BY <1>6, <2>3, IdleIsJob
<1>10. StepsOK(j)
  BY <1>4, <1>6, <1>8, <1>9 DEF StepsOK, Has, Manages
<1>11. Moves(h, j)
  BY <1>3, <1>8, GoesMoves DEF BaseInv
<1>12. Follows(i, j) /\ Writes(i)
  <2>1. UNCHANGED rows
    BY DEF Cancel, tables, rowVars
  <2> QED
    BY <1>4, <1>5, <1>7, <1>8, <1>9, <2>1 DEF Follows, Writes, Webhook, EventTypes
<1>13. /\ UNCHANGED <<plan, rows, made, touched, seen, remote, over, sent, signed, lost, disordered, doubled>>
       /\ payments' = payments /\ events' = events
  BY DEF Cancel, tables, rowVars, history
<1>14. rows' \in [Subs -> Row] /\ touched' \in Seq(Subs) /\ plan' \in Plans
  BY <1>13 DEF BaseInv, Typed
<1>15. i.kind # "charged"
  BY <1>5 DEF Webhook, EventTypes
<1> QED
  BY <1>1, <1>4, <1>5, <1>8, <1>10, <1>11, <1>12, <1>13, <1>14, <1>15 DEF Progresses

LEMMA SameSteps ==
  ASSUME NEW k, NEW j, StepsOK(k), k.kind \notin {"none", "checkout"}, k.todo # <<>>,
         j.todo = k.todo, j.kind = k.kind
  PROVE  StepsOK(j)
<1>1. \A x : Has(j, x) = Has(k, x)
  BY DEF Has
<1>2. /\ ~Has(j, "create") /\ ~Has(j, "insert")
      /\ j.kind \in EventTypes => ~Has(j, "fetch") /\ ~Has(j, "cancel")
  BY <1>1 DEF StepsOK
<1>3. \A i \in 1 .. Len(j.todo) :
         /\ j.todo[i] \in BeforeSync => \E n \in 1 .. Len(j.todo) : i < n /\ j.todo[n] = "sync"
         /\ j.todo[i] \in {"rest", "set"} => i = 1
  BY DEF StepsOK
<1> QED
  BY <1>2, <1>3 DEF StepsOK

\* What Razorpay says is e, or is taken to be.
LEMMA FetchesProgresses ==
  ASSUME BaseInv, NEW h \in Handlers, At(h, "fetch"), NEW i, i = job[h], NEW k, k = Next1(h),
         NEW e \in Entity, e.status \notin Unpaid,
         e = remote[i.sub] \/ (e.status \notin Terminal /\ i.sub \in disordered'), NEW j, Goes(h, j),
         j = [k EXCEPT !.entity = e,
                !.todo = IF e.status \in Good \cup {"CREATED"} THEN @ ELSE <<"apply", "sync", "record", "sync">>],
         disordered \subseteq disordered',
         UNCHANGED <<plan, rows, made, touched, seen, remote, over, sent, signed, lost, doubled, payments, events>>
  PROVE  Progresses(h, i, j)
<1>4. Manages(i) /\ i \in Job /\ StepsOK(i) /\ KnowsOK(i) /\ i.sub \in Subs /\ i.todo # <<>> /\ i.todo[1] = "fetch"
  BY AtManages DEF At
<1>5. Has(i, "fetch") /\ ~Webhook(i)
  <2>1. i.todo \in Seq(Steps)
    BY <1>4 DEF Job
  <2>2. 1 \in 1 .. Len(i.todo)
    BY <1>4, <2>1, DoneFacts
  <2>3. Has(i, "fetch")
    BY <1>4, <2>2 DEF Has
  <2> QED
    BY <1>4, <2>3 DEF StepsOK, Webhook
<1>6. /\ k \in Job /\ StepsOK(k)
      /\ \/ k = Idle /\ Len(i.todo) = 1
         \/ k.todo # <<>> /\ k.kind = i.kind /\ k.sub = i.sub /\ k.event = i.event
  BY <1>4, NextJob
<1>9. k # Idle /\ k.todo # <<>> /\ k.kind = i.kind /\ k.sub = i.sub /\ k.event = i.event
  <2>1. i.todo \in Seq(Steps) /\ Len(i.todo) \in Nat /\ 1 \in 1 .. Len(i.todo)
    BY <1>4, DoneFacts DEF Job
  <2>2. \E n \in 1 .. Len(i.todo) : 1 < n
    BY <1>4, <2>1 DEF StepsOK, BeforeSync
  <2>3. Len(i.todo) # 1
    <3>1. SUFFICES ASSUME Len(i.todo) = 1 PROVE FALSE
      OBVIOUS
    <3>2. \E n \in 1 .. 1 : 1 < n
      BY <2>2, <3>1, Zenon
    <3> QED
      BY <3>2
  <2> QED
    BY <1>6, <2>3, IdleIsJob
<1>0. PICK t : t = IF e.status \in Good \cup {"CREATED"} THEN k.todo
                  ELSE <<"apply", "sync", "record", "sync">>
  OBVIOUS
<1>1. t \in {k.todo, <<"apply", "sync", "record", "sync">>} /\ t \in Seq(Steps)
  <2>1. <<"apply", "sync", "record", "sync">> \in Seq(Steps)
    BY DEF Steps, Syncing
  <2>2. k.todo \in Seq(Steps)
    BY <1>6 DEF Job
  <2> QED
    BY <1>0, <2>1, <2>2
<1>2. j = [[k EXCEPT !.entity = e] EXCEPT !.todo = t]
  BY <1>0, <1>6 DEF Job
<1>8. /\ j \in Job /\ j.todo = t /\ j.kind = k.kind /\ j.sub = k.sub
      /\ j.entity = e /\ j.event = k.event
  BY <1>1, <1>2, <1>6 DEF Job
<1>10. StepsOK(j)
  <2>1. CASE t = k.todo
    <3>1. j.todo = k.todo /\ j.kind = k.kind /\ k.todo # <<>> /\ k.kind \notin {"none", "checkout"} /\ StepsOK(k)
      BY <1>4, <1>6, <1>8, <1>9, <2>1 DEF Manages
    <3> QED
      BY <3>1, SameSteps
  <2>2. CASE t = <<"apply", "sync", "record", "sync">>
    <3>1. Len(t) = 4 /\ t[1] = "apply" /\ t[2] = "sync" /\ t[3] = "record" /\ t[4] = "sync" /\ t # <<>>
      BY <2>2
    <3>2. \A n \in 1 .. Len(t) : n \in {1, 2, 3, 4}
      BY <3>1
    <3>3. j.kind \notin {"none", "checkout"} /\ j.todo = t
      BY <1>4, <1>8, <1>9 DEF Manages
    <3>4. ~Has(j, "create") /\ ~Has(j, "insert") /\ ~Has(j, "fetch") /\ ~Has(j, "cancel")
      BY <3>1, <3>2, <3>3 DEF Has
    <3>5. \A n \in 1 .. Len(t) : t[n] \in BeforeSync => n < 4 /\ 4 \in 1 .. Len(t) /\ t[4] = "sync"
      BY <3>1, <3>2 DEF BeforeSync
    <3>6. \A n \in 1 .. Len(t) : t[n] \notin {"rest", "set"}
      BY <3>1, <3>2
    <3> QED
      BY <3>1, <3>3, <3>4, <3>5, <3>6 DEF StepsOK
  <2> QED
    BY <1>1, <2>1, <2>2
<1>11. Moves(h, j)
  BY <1>8, GoesMoves DEF BaseInv
<1>12. Follows(i, j) /\ Writes(i)
  BY <1>4, <1>5, <1>8, <1>9 DEF Follows, Writes, Webhook, EventTypes
<1>13. rows' \in [Subs -> Row] /\ touched' \in Seq(Subs) /\ plan' \in Plans
  BY DEF BaseInv, Typed
<1>14. i.kind # "charged"
  BY <1>5 DEF Webhook, EventTypes
<1> QED
  BY <1>4, <1>5, <1>8, <1>10, <1>11, <1>12, <1>13, <1>14 DEF Progresses

LEMMA FetchProgresses ==
  ASSUME BaseInv, NEW h \in Handlers, Fetch(h)
  PROVE  \E i, j : Progresses(h, i, j)
<1>1. PICK i, k : i = job[h] /\ k = Next1(h)
  OBVIOUS
<1>2. At(h, "fetch")
  BY DEF Fetch
<1>3. /\ UNCHANGED <<plan, rows, made, touched, seen, remote, over, sent, signed, lost, doubled, payments, events>>
      /\ disordered \subseteq disordered'
  BY DEF Fetch, tables, rowVars, razorpay
<1>4. i \in Job /\ i.sub \in Subs /\ remote[i.sub] \in Entity /\ remote[i.sub].status \notin Unpaid
  <2>1. Manages(i) /\ i \in Job /\ KnowsOK(i) /\ i.sub \in Subs
    BY <1>1, <1>2, AtManages DEF At
  <2> QED
    BY <2>1 DEF BaseInv, Typed, KnowsOK
<1>5. ASSUME NEW e \in Entity, e.status \notin Unpaid,
             e = remote[i.sub] \/ (e.status \notin Terminal /\ i.sub \in disordered'),
             Goes(h, [k EXCEPT !.entity = e, !.todo = IF e.status \in Good \cup {"CREATED"} THEN @
                                                      ELSE <<"apply", "sync", "record", "sync">>])
      PROVE  \E j : Progresses(h, i, j)
  <2>1. PICK j : j = [k EXCEPT !.entity = e, !.todo = IF e.status \in Good \cup {"CREATED"} THEN @
                                                      ELSE <<"apply", "sync", "record", "sync">>]
    OBVIOUS
  <2>2. Goes(h, j)
    BY <1>5, <2>1
  <2>3. Progresses(h, i, j)
    BY <1>1, <1>2, <1>3, <1>4, <1>5, <2>1, <2>2, FetchesProgresses
  <2> QED
    BY <2>3
<1>6. CASE Goes(h, [k EXCEPT !.entity = remote[i.sub],
                      !.todo = IF remote[i.sub].status \in Good \cup {"CREATED"} THEN @
                               ELSE <<"apply", "sync", "record", "sync">>])
  <2>1. PICK e \in Entity : e = remote[i.sub]
    BY <1>4
  <2>2. Goes(h, [k EXCEPT !.entity = e, !.todo = IF e.status \in Good \cup {"CREATED"} THEN @
                                                 ELSE <<"apply", "sync", "record", "sync">>])
    BY <1>6, <2>1
  <2>3. e.status \notin Unpaid
    BY <1>4, <2>1
  <2>4. e = remote[i.sub] \/ (e.status \notin Terminal /\ i.sub \in disordered')
    BY <2>1
  <2> QED
    BY <1>5, <2>2, <2>3, <2>4, Zenon
<1>7. ASSUME NEW e, e = [NoRemote EXCEPT !.status = "AUTHENTICATED"], i.sub \in disordered',
             Goes(h, [k EXCEPT !.entity = e, !.todo = IF e.status \in Good \cup {"CREATED"} THEN @
                                                      ELSE <<"apply", "sync", "record", "sync">>])
      PROVE  \E j : Progresses(h, i, j)
  <2>1. e \in Entity /\ e.status = "AUTHENTICATED" /\ e.status \notin Unpaid /\ e.status \notin Terminal
    BY <1>7 DEF Entity, NoRemote, Statuses, Good, Unpaid, Terminal
  <2> QED
    BY <1>5, <1>7, <2>1
<1> QED
  BY <1>1, <1>6, <1>7 DEF Fetch

LEMMA FailProgresses ==
  ASSUME BaseInv, NEW h \in Handlers, RequestFails(h), Manages(job[h])
  PROVE  \E i, j : Progresses(h, i, j)
<1>1. PICK i : i = job[h]
  OBVIOUS
<1>2. i \in Job /\ i # Idle /\ i.todo # <<>> /\ StepsOK(i) /\ KnowsOK(i)
  BY <1>1 DEF RequestFails, BaseInv, Typed, JobsOK, StepsOK
<1>3. Moves(h, Idle) /\ StepsOK(Idle)
  <2>1. Goes(h, Idle)
    BY DEF RequestFails
  <2>2. Len(<<>>) = 0 /\ 1 .. 0 = {}
    OBVIOUS
  <2> QED
    BY <2>1, <2>2, GoesMoves, IdleIsJob DEF BaseInv, StepsOK, Has
<1>4. /\ UNCHANGED <<plan, rows, made, touched, seen, remote, over, sent, signed, disordered, doubled>>
      /\ payments' = payments /\ events' = events /\ lost \subseteq lost'
      /\ i.event # 0 => i.sub \in lost'
  BY <1>1 DEF RequestFails, tables, rowVars, razorpay
<1>5. Follows(i, Idle) /\ Writes(i)
  BY <1>4 DEF Follows, Writes
<1>6. rows' \in [Subs -> Row] /\ touched' \in Seq(Subs) /\ plan' \in Plans
  BY <1>4 DEF BaseInv, Typed
<1>7. Webhook(i) => i.sub \in lost'
  BY <1>2, <1>4 DEF KnowsOK
<1>8. i.kind = "charged" => Webhook(i)
  BY DEF Webhook, EventTypes
<1>9. Progresses(h, i, Idle)
  BY <1>1, <1>2, <1>3, <1>4, <1>5, <1>6, <1>7, <1>8, IdleIsJob DEF Progresses
<1> QED
  BY <1>9

\* Every step of a request, but those of a checkout.
LEMMA StepProgresses ==
  ASSUME BaseInv, NEW h \in Handlers, Step(h), Manages(job[h])
  PROVE  \E i, j : Progresses(h, i, j)
<1>1. ~Create(h) /\ ~Insert(h)
  <2>1. StepsOK(job[h]) /\ job[h] \in Job
    BY DEF BaseInv, Typed, JobsOK
  <2>2. ~At(h, "create") /\ ~At(h, "insert")
    <3>1. At(h, "create") => Has(job[h], "create")
      BY <2>1, DoneFacts DEF At, Has, Job
    <3>2. At(h, "insert") => Has(job[h], "insert")
      BY <2>1, DoneFacts DEF At, Has, Job
    <3> QED
      BY <2>1, <3>1, <3>2 DEF StepsOK, Manages
  <2> QED
    BY <2>2 DEF Create, Insert
<1> QED
  BY <1>1, FetchProgresses, ForceProgresses, GrantProgresses, RecordProgresses, CancelProgresses,
     CloseProgresses, ApplyProgresses, SyncReadProgresses, RestReadProgresses, SetProgresses,
     FailProgresses DEF Step

LEMMA ProgressBase ==
  ASSUME BaseInv, NEW h \in Handlers, NEW i, NEW j, Progresses(h, i, j)
  PROVE  BaseInv'
BY StepBase DEF Progresses

----------------------------------------------------------------------------
(* The other actions.                                                      *)

LEMMA StartFacts ==
  ASSUME NEW h, NEW kind \in {"checkout", "verify", "cancel"} \cup EventTypes,
         NEW s \in {0} \cup Subs, NEW todo \in Seq(Steps), NEW j, j = Start(h, kind, s, todo)
  PROVE  /\ j \in Job /\ j.todo = todo /\ j.kind = kind /\ j.sub = s /\ j.entity = NoRemote
         /\ j.event = 0 /\ ~j.stale
<1>1. PICK k : k = [Idle EXCEPT !.kind = kind]
  OBVIOUS
<1>2. PICK m : m = [k EXCEPT !.sub = s]
  OBVIOUS
<1>3. j = [m EXCEPT !.todo = todo]
  BY <1>1, <1>2 DEF Start
<1>4. k \in Job /\ k.kind = kind /\ k.entity = NoRemote /\ k.event = 0 /\ ~k.stale
  BY <1>1, IdleIsJob DEF Job
<1>5. m \in Job /\ m.kind = kind /\ m.sub = s /\ m.entity = NoRemote /\ m.event = 0 /\ ~m.stale
  BY <1>2, <1>4 DEF Job
<1> QED
  BY <1>3, <1>5 DEF Job

\* The steps of a request that begins.
LEMMA FreshSteps ==
  ASSUME NEW j \in Job, j.kind \notin {"none", "checkout"}, NEW n \in Nat, n = Len(j.todo), n >= 1,
         j.todo[n] = "sync", \A i \in 1 .. n : j.todo[i] \notin {"create", "insert", "rest", "set"},
         j.kind \in EventTypes => \A i \in 1 .. n : j.todo[i] \notin {"fetch", "cancel"}
  PROVE  StepsOK(j)
<1>1. j.todo # <<>>
  <2>1. Len(<<>>) = 0
    OBVIOUS
  <2> QED
    BY <2>1
<1>2. ~Has(j, "create") /\ ~Has(j, "insert")
  BY DEF Has
<1>3. j.kind \in EventTypes => ~Has(j, "fetch") /\ ~Has(j, "cancel")
  BY DEF Has
<1>4. \A i \in 1 .. n : j.todo[i] \in BeforeSync => i < n /\ n \in 1 .. n
  BY DEF BeforeSync
<1>5. \A i \in 1 .. Len(j.todo) : j.todo[i] \in BeforeSync => \E k \in 1 .. Len(j.todo) : i < k /\ j.todo[k] = "sync"
  BY <1>4
<1> QED
  BY <1>1, <1>2, <1>3, <1>5 DEF StepsOK

LEMMA InitBase ==
  Init => BaseInv
<1> SUFFICES ASSUME Init PROVE BaseInv
  OBVIOUS
<1>1. NoRow \in Row /\ NoRemote \in Entity /\ NoRow.status = "NONE" /\ NoRemote.status = "NONE"
  BY DEF NoRow, NoRemote, Row, Entity
<1>2. Typed
  BY <1>1, IdleIsJob DEF Init, Typed, Plans
<1>3. MadeOK
  BY <1>1 DEF Init, MadeOK
<1>4. StepsOK(Idle)
  <2>1. Len(<<>>) = 0 /\ 1 .. 0 = {}
    OBVIOUS
  <2> QED
    BY <2>1, IdleIsJob DEF StepsOK, Has
<1>5. KnowsOK(Idle)
  BY IdleIsJob DEF KnowsOK, Manages, Webhook, EventTypes
<1>6. JobsOK
  <2>1. \A h \in Handlers : job[h] = Idle
    BY DEF Init
  <2> QED
    BY <1>4, <1>5, <2>1, IdleIsJob DEF JobsOK
<1>7. EventsOK
  BY DEF Init, EventsOK
<1>8. UnpaidOK
  BY <1>1, IdleIsJob DEF Init, UnpaidOK, Subs, Live, Good, Unpaid
<1>9. EndedOK
  BY <1>1, IdleIsJob DEF Init, EndedOK, Terminal
<1> QED
  BY <1>2, <1>3, <1>6, <1>7, <1>8, <1>9 DEF BaseInv

LEMMA CheckoutFacts ==
  ASSUME BaseInv, NEW h \in Handlers, ReceiveCheckout(h)
  PROVE  \E j \in Job :
           /\ job[h] = Idle /\ Goes(h, j) /\ StepsOK(j)
           /\ j.kind = "checkout" /\ j.sub = 0 /\ j.entity = NoRemote /\ j.event = 0
           /\ j.todo = <<"create", "insert">>
<1>1. <<"create", "insert">> \in Seq(Steps)
  BY DEF Steps
<1>2. PICK j : j = Start(h, "checkout", 0, <<"create", "insert">>)
  OBVIOUS
<1>3. /\ j \in Job /\ j.todo = <<"create", "insert">> /\ j.kind = "checkout" /\ j.sub = 0
      /\ j.entity = NoRemote /\ j.event = 0
  <2>1. "checkout" \in {"checkout", "verify", "cancel"} \cup EventTypes /\ 0 \in {0} \cup Subs
    BY <1>1, <1>2
  <2>2. PICK t \in Seq(Steps) : t = <<"create", "insert">>
    BY <1>1
  <2>3. j = Start(h, "checkout", 0, t)
    BY <1>2, <2>2
  <2>4. j \in Job /\ j.todo = t /\ j.kind = "checkout" /\ j.sub = 0 /\ j.entity = NoRemote /\ j.event = 0
    BY <2>1, <2>3, StartFacts
  <2> QED
    BY <2>2, <2>4
<1>4. StepsOK(j)
  <2>1. /\ Len(<<"create", "insert">>) = 2 /\ <<"create", "insert">> # <<>>
        /\ \A i \in 1 .. 2 : <<"create", "insert">>[i] \in {"create", "insert"}
    OBVIOUS
  <2> QED
    BY <1>3, <2>1 DEF StepsOK, BeforeSync, EventTypes, Has
<1> QED
  BY <1>2, <1>3, <1>4 DEF ReceiveCheckout

LEMMA CheckoutBase ==
  ASSUME BaseInv, NEW h \in Handlers, ReceiveCheckout(h)
  PROVE  BaseInv'
<1>1. PICK j \in Job :
           /\ job[h] = Idle /\ Goes(h, j) /\ StepsOK(j)
           /\ j.kind = "checkout" /\ j.sub = 0 /\ j.entity = NoRemote /\ j.event = 0
           /\ j.todo = <<"create", "insert">>
  BY CheckoutFacts
<1>2. UNCHANGED <<plan, rows, made, touched, remote, over, sent, seen, events, signed>>
  BY DEF ReceiveCheckout, tables, rowVars
<1>3. KnowsOK(j)'
  BY <1>1 DEF KnowsOK, Manages, Webhook, EventTypes
<1>4. seen \subseteq seen' /\ seen' \subseteq 1 .. sent /\ events' \subseteq events /\ signed' \subseteq signed
  BY <1>2 DEF BaseInv, Typed
<1> QED
  BY <1>1, <1>2, <1>3, <1>4, StartBase

LEMMA VerifyFacts ==
  ASSUME BaseInv, NEW h \in Handlers, NEW s \in Subs, ReceiveVerify(h, s)
  PROVE  \E j \in Job :
           /\ job[h] = Idle /\ Goes(h, j) /\ StepsOK(j)
           /\ j.kind = "verify" /\ j.sub = s /\ j.entity = NoRemote /\ j.event = 0
           /\ j.todo # <<>> /\ j.todo[1] = "fetch" /\ ~Has(j, "rest") /\ ~Has(j, "set") /\ ~Has(j, "insert")
<1> DEFINE todo == <<"fetch", "apply", "sync", "force", "grant", "record", "sync">>
<1>1. todo \in Seq(Steps)
  BY DEF Steps, Syncing
<1>2. PICK j : j = Start(h, "verify", s, todo)
  OBVIOUS
<1>3. /\ j \in Job /\ j.todo = todo /\ j.kind = "verify" /\ j.sub = s
      /\ j.entity = NoRemote /\ j.event = 0
  <2>1. "verify" \in {"checkout", "verify", "cancel"} \cup EventTypes /\ s \in {0} \cup Subs
    BY <1>1, <1>2
  <2>2. PICK t \in Seq(Steps) : t = todo
    BY <1>1
  <2>3. j = Start(h, "verify", s, t)
    BY <1>2, <2>2
  <2>4. j \in Job /\ j.todo = t /\ j.kind = "verify" /\ j.sub = s /\ j.entity = NoRemote /\ j.event = 0
    BY <2>1, <2>3, StartFacts
  <2> QED
    BY <2>2, <2>4
<1>4. /\ Len(todo) = 7 /\ todo[7] = "sync" /\ todo[1] = "fetch" /\ todo # <<>>
      /\ \A i \in 1 .. 7 : todo[i] \notin {"create", "insert", "rest", "set"}
  OBVIOUS
<1>5. StepsOK(j)
  <2> HIDE DEF todo
  <2>1. /\ 7 \in Nat /\ 7 >= 1 /\ 7 = Len(j.todo) /\ j.todo[7] = "sync"
        /\ \A i \in 1 .. 7 : j.todo[i] \notin {"create", "insert", "rest", "set"}
        /\ j.kind \notin {"none", "checkout"} /\ j.kind \notin EventTypes
    BY <1>3, <1>4 DEF EventTypes
  <2> QED
    BY <1>3, <2>1, FreshSteps
<1>6. ~Has(j, "rest") /\ ~Has(j, "set") /\ ~Has(j, "insert")
  <2> HIDE DEF todo
  <2> QED
    BY <1>3, <1>4 DEF Has
<1> QED
  BY <1>2, <1>3, <1>4, <1>5, <1>6 DEF ReceiveVerify

LEMMA VerifyBase ==
  ASSUME BaseInv, NEW h \in Handlers, NEW s \in Subs, ReceiveVerify(h, s)
  PROVE  BaseInv'
<1>1. PICK j \in Job :
           /\ job[h] = Idle /\ Goes(h, j) /\ StepsOK(j)
           /\ j.kind = "verify" /\ j.sub = s /\ j.entity = NoRemote /\ j.event = 0
           /\ j.todo # <<>> /\ j.todo[1] = "fetch"
  BY VerifyFacts
<1>2. /\ UNCHANGED <<plan, rows, made, touched, remote, over, sent, seen, events>>
      /\ s \in signed /\ signed' \subseteq signed
  BY DEF ReceiveVerify, tables, rowVars
<1>3. rows[s].status # "NONE" /\ remote[s].status \notin Unpaid
  BY <1>2 DEF BaseInv, UnpaidOK
<1>4. KnowsOK(j)'
  BY <1>1, <1>2, <1>3 DEF KnowsOK, Manages, Webhook, EventTypes, Asked
<1>5. seen \subseteq seen' /\ seen' \subseteq 1 .. sent /\ events' \subseteq events
  BY <1>2 DEF BaseInv, Typed
<1>6. remote[s].status # "NONE" /\ j.entity.status \notin Terminal
  BY <1>1, <1>3 DEF Unpaid, NoRemote, Terminal
<1> QED
  BY <1>1, <1>2, <1>4, <1>5, <1>6, StartBase

LEMMA ReceiveCancelFacts ==
  ASSUME BaseInv, NEW h \in Handlers, ReceiveCancel(h)
  PROVE  \E j \in Job, s \in Subs :
           /\ job[h] = Idle /\ Goes(h, j) /\ StepsOK(j)
           /\ j.kind = "cancel" /\ j.sub = s /\ j.entity = NoRemote /\ j.event = 0
           /\ j.todo # <<>> /\ j.todo[1] = "cancel" /\ ~Has(j, "rest") /\ ~Has(j, "set") /\ ~Has(j, "insert")
           /\ rows[s].status \in Cancellable
           /\ disordered' = IF Busy(s) THEN disordered \cup {s} ELSE disordered
<1> DEFINE todo == <<"cancel", "close", "sync">>
<1>0. PICK s : s = LastIn(made, Cancellable)
  OBVIOUS
<1>00. s \in Subs /\ rows[s].status \in Cancellable
  BY <1>0, LastInFacts DEF ReceiveCancel, BaseInv, Typed
<1>1. todo \in Seq(Steps)
  BY DEF Steps, Syncing
<1>2. PICK j : j = Start(h, "cancel", s, todo)
  OBVIOUS
<1>3. /\ j \in Job /\ j.todo = todo /\ j.kind = "cancel" /\ j.sub = s
      /\ j.entity = NoRemote /\ j.event = 0
  <2>1. "cancel" \in {"checkout", "verify", "cancel"} \cup EventTypes /\ s \in {0} \cup Subs
    BY <1>00, <1>1, <1>2
  <2>2. PICK t \in Seq(Steps) : t = todo
    BY <1>1
  <2>3. j = Start(h, "cancel", s, t)
    BY <1>2, <2>2
  <2>4. j \in Job /\ j.todo = t /\ j.kind = "cancel" /\ j.sub = s /\ j.entity = NoRemote /\ j.event = 0
    BY <2>1, <2>3, StartFacts
  <2> QED
    BY <2>2, <2>4
<1>4. /\ Len(todo) = 3 /\ todo[3] = "sync" /\ todo[1] = "cancel" /\ todo # <<>>
      /\ \A i \in 1 .. 3 : todo[i] \notin {"create", "insert", "rest", "set"}
  OBVIOUS
<1>5. StepsOK(j)
  <2> HIDE DEF todo
  <2>1. /\ 3 \in Nat /\ 3 >= 1 /\ 3 = Len(j.todo) /\ j.todo[3] = "sync"
        /\ \A i \in 1 .. 3 : j.todo[i] \notin {"create", "insert", "rest", "set"}
        /\ j.kind \notin {"none", "checkout"} /\ j.kind \notin EventTypes
    BY <1>3, <1>4 DEF EventTypes
  <2> QED
    BY <1>3, <2>1, FreshSteps
<1>6. ~Has(j, "rest") /\ ~Has(j, "set") /\ ~Has(j, "insert")
  <2> HIDE DEF todo
  <2> QED
    BY <1>3, <1>4 DEF Has
<1> QED
  BY <1>0, <1>00, <1>2, <1>3, <1>4, <1>5, <1>6 DEF ReceiveCancel

LEMMA ReceiveCancelBase ==
  ASSUME BaseInv, NEW h \in Handlers, ReceiveCancel(h)
  PROVE  BaseInv'
<1>1. PICK j \in Job, s \in Subs :
           /\ job[h] = Idle /\ Goes(h, j) /\ StepsOK(j)
           /\ j.kind = "cancel" /\ j.sub = s /\ j.entity = NoRemote /\ j.event = 0
           /\ j.todo # <<>> /\ j.todo[1] = "cancel"
           /\ rows[s].status \in Cancellable
  BY ReceiveCancelFacts
<1>2. UNCHANGED <<plan, rows, made, touched, remote, over, sent, seen, events, signed>>
  BY DEF ReceiveCancel, tables, rowVars, razorpay
<1>3. rows[s].status # "NONE" /\ remote[s].status \notin Unpaid
  BY <1>1 DEF BaseInv, UnpaidOK, Cancellable, Good, Unpaid
<1>4. KnowsOK(j)'
  BY <1>1, <1>2, <1>3 DEF KnowsOK, Manages, Webhook, EventTypes, Asked
<1>5. seen \subseteq seen' /\ seen' \subseteq 1 .. sent /\ events' \subseteq events /\ signed' \subseteq signed
  BY <1>2 DEF BaseInv, Typed
<1>6. remote[s].status # "NONE" /\ j.entity.status \notin Terminal
  BY <1>1, <1>3 DEF Unpaid, NoRemote, Terminal
<1> QED
  BY <1>1, <1>2, <1>4, <1>5, <1>6, StartBase

\* The steps of an event's request.
EventSteps == {<<"apply", "sync", "record", "sync">>, <<"apply", "sync">>, <<"apply", "sync", "sync">>}

LEMMA EventStepsFacts ==
  ASSUME NEW t \in EventSteps
  PROVE  /\ t \in Seq(Steps) /\ t # <<>> /\ t[1] = "apply"
         /\ \E n \in Nat : /\ n >= 1 /\ n = Len(t) /\ t[n] = "sync"
                           /\ \A i \in 1 .. n : t[i] \in {"apply", "sync", "record"}
<1>1. CASE t = <<"apply", "sync", "record", "sync">>
  <2>1. t \in Seq(Steps)
    BY <1>1 DEF Steps, Syncing
  <2>2. /\ 4 >= 1 /\ 4 = Len(t) /\ t[4] = "sync" /\ t # <<>> /\ t[1] = "apply"
        /\ \A i \in 1 .. 4 : t[i] \in {"apply", "sync", "record"}
    BY <1>1
  <2> QED
    BY <2>1, <2>2
<1>2. CASE t = <<"apply", "sync">>
  <2>1. t \in Seq(Steps)
    BY <1>2 DEF Steps, Syncing
  <2>2. /\ 2 >= 1 /\ 2 = Len(t) /\ t[2] = "sync" /\ t # <<>> /\ t[1] = "apply"
        /\ \A i \in 1 .. 2 : t[i] \in {"apply", "sync", "record"}
    BY <1>2
  <2> QED
    BY <2>1, <2>2
<1>3. CASE t = <<"apply", "sync", "sync">>
  <2>1. t \in Seq(Steps)
    BY <1>3 DEF Steps, Syncing
  <2>2. /\ 3 >= 1 /\ 3 = Len(t) /\ t[3] = "sync" /\ t # <<>> /\ t[1] = "apply"
        /\ \A i \in 1 .. 3 : t[i] \in {"apply", "sync", "record"}
    BY <1>3
  <2> QED
    BY <2>1, <2>2
<1> QED
  BY <1>1, <1>2, <1>3 DEF EventSteps

LEMMA EventFacts ==
  ASSUME BaseInv, NEW h \in Handlers, NEW e \in events, ReceiveEvent(h, e), rows[e.sub] # NoRow
  PROVE  \E j \in Job :
           /\ job[h] = Idle /\ Goes(h, j) /\ StepsOK(j)
           /\ j.kind = e.type /\ j.sub = e.sub /\ j.entity = e.entity /\ j.event = e.id
           /\ j.todo # <<>> /\ j.todo[1] = "apply" /\ ~Has(j, "rest") /\ ~Has(j, "set") /\ ~Has(j, "insert")
           /\ j.kind = "charged" => Has(j, "record")
           /\ \A g \in Handlers : job[g].event # e.id
<1>1. PICK t : t = CASE e.type = "charged" -> <<"apply", "sync", "record", "sync">>
                     [] e.type \in {"cancelled", "completed", "paused"} -> <<"apply", "sync">>
                     [] OTHER -> <<"apply", "sync", "sync">>
  OBVIOUS
<1>2. e \in Event /\ t \in EventSteps /\ (e.type = "charged" => t = <<"apply", "sync", "record", "sync">>)
  BY <1>1 DEF EventSteps, BaseInv, Typed
<1>3. /\ t \in Seq(Steps) /\ t # <<>> /\ t[1] = "apply"
      /\ \E n \in Nat : /\ n >= 1 /\ n = Len(t) /\ t[n] = "sync"
                        /\ \A i \in 1 .. n : t[i] \in {"apply", "sync", "record"}
  BY <1>2, EventStepsFacts
<1>4. PICK k : k = Start(h, e.type, e.sub, t)
  OBVIOUS
<1>5. PICK j : j = [[k EXCEPT !.entity = e.entity] EXCEPT !.event = e.id]
  OBVIOUS
<1>6. k \in Job /\ k.todo = t /\ k.kind = e.type /\ k.sub = e.sub
  <2>1. e.type \in {"checkout", "verify", "cancel"} \cup EventTypes /\ e.sub \in {0} \cup Subs /\ t \in Seq(Steps)
    BY <1>2, <1>3 DEF Event
  <2>2. PICK kind \in {"checkout", "verify", "cancel"} \cup EventTypes, q \in {0} \cup Subs :
          kind = e.type /\ q = e.sub
    BY <2>1
  <2>3. PICK u \in Seq(Steps) : u = t
    BY <2>1
  <2>4. k = Start(h, kind, q, u)
    BY <1>4, <2>2, <2>3
  <2>5. k \in Job /\ k.todo = u /\ k.kind = kind /\ k.sub = q
    BY <2>4, StartFacts
  <2> QED
    BY <2>2, <2>3, <2>5
<1>7. /\ j \in Job /\ j.todo = t /\ j.kind = e.type /\ j.sub = e.sub /\ j.entity = e.entity /\ j.event = e.id
  BY <1>2, <1>5, <1>6 DEF Job, Event
<1>8. Goes(h, j) /\ job[h] = Idle /\ \A g \in Handlers : job[g].event # e.id
  <2>1. Goes(h, [k EXCEPT !.entity = e.entity, !.event = e.id])
    BY <1>1, <1>4 DEF ReceiveEvent
  <2>2. [k EXCEPT !.entity = e.entity, !.event = e.id] = j
    BY <1>5, <1>6 DEF Job
  <2> QED
    BY <2>1, <2>2 DEF ReceiveEvent
<1>9. PICK n \in Nat : /\ n >= 1 /\ n = Len(t) /\ t[n] = "sync"
                       /\ \A i \in 1 .. n : t[i] \in {"apply", "sync", "record"}
  BY <1>3
<1>10. StepsOK(j)
  <2>1. /\ n \in Nat /\ n >= 1 /\ n = Len(j.todo) /\ j.todo[n] = "sync"
        /\ \A i \in 1 .. n : j.todo[i] \notin {"create", "insert", "rest", "set"}
        /\ j.kind \notin {"none", "checkout"}
        /\ \A i \in 1 .. n : j.todo[i] \notin {"fetch", "cancel"}
    BY <1>2, <1>7, <1>9 DEF Event, EventTypes
  <2> QED
    BY <1>7, <2>1, FreshSteps
<1>11. ~Has(j, "rest") /\ ~Has(j, "set") /\ ~Has(j, "insert")
  BY <1>7, <1>9 DEF Has
<1>12. j.kind = "charged" => Has(j, "record")
  <2>1. SUFFICES ASSUME j.kind = "charged" PROVE Has(j, "record")
    OBVIOUS
  <2>2. j.todo = <<"apply", "sync", "record", "sync">>
    BY <1>2, <1>7, <2>1
  <2>3. 3 \in 1 .. Len(j.todo) /\ j.todo[3] = "record"
    BY <2>2
  <2> QED
    BY <2>3 DEF Has
<1> QED
  BY <1>3, <1>7, <1>8, <1>10, <1>11, <1>12

LEMMA EventBase ==
  ASSUME BaseInv, NEW h \in Handlers, NEW e \in events, ReceiveEvent(h, e)
  PROVE  BaseInv'
<1>1. /\ UNCHANGED <<plan, rows, made, touched, remote, over, sent, signed>>
      /\ seen' = seen \cup {e.id} /\ events' \subseteq events
  BY DEF ReceiveEvent, rowVars
<1>2. e \in Event /\ 1 <= e.id /\ e.id <= sent /\ e.entity.status \notin Unpaid
      /\ (e.type = "paused" => e.entity.status = "PAUSED")
      /\ remote[e.sub].status \notin Unpaid
      /\ (remote[e.sub].status \notin Terminal => e.entity.status \notin Terminal)
  BY DEF BaseInv, Typed, EventsOK, UnpaidOK, EndedOK, Event
<1>3. seen \subseteq seen' /\ seen' \subseteq 1 .. sent /\ signed' \subseteq signed
  <2>1. e.id \in 1 .. sent
    BY <1>2 DEF BaseInv, Typed, Event
  <2> QED
    BY <1>1, <2>1 DEF BaseInv, Typed
<1>4. CASE rows[e.sub] = NoRow
  <2>1. job' = job /\ plan' \in Plans /\ over' \in [Subs -> Nat]
    BY <1>1, <1>4 DEF ReceiveEvent, BaseInv, Typed
  <2> QED
    BY <1>1, <1>3, <2>1, QuietBase
<1>5. CASE rows[e.sub] # NoRow
  <2>1. PICK j \in Job :
           /\ job[h] = Idle /\ Goes(h, j) /\ StepsOK(j)
           /\ j.kind = e.type /\ j.sub = e.sub /\ j.entity = e.entity /\ j.event = e.id
           /\ j.todo # <<>> /\ j.todo[1] = "apply"
           /\ \A g \in Handlers : job[g].event # e.id
    BY <1>5, EventFacts
  <2>2. rows[e.sub].status # "NONE"
    BY <1>2, <1>5 DEF BaseInv, MadeOK, Event
  <2>3. KnowsOK(j)'
    <3>1. Webhook(j) /\ j.kind # "checkout" /\ j.event # 0 /\ j.event \in seen'
      BY <1>1, <1>2, <2>1 DEF Webhook, EventTypes, Event
    <3> QED
      BY <1>1, <1>2, <2>1, <2>2, <3>1 DEF KnowsOK, Webhook, Event
  <2>4. j.kind # "checkout" /\ remote[j.sub].status # "NONE"
    BY <1>2, <2>1 DEF Event, EventTypes, Unpaid
  <2> QED
    BY <1>1, <1>2, <1>3, <2>1, <2>3, <2>4, StartBase
<1> QED
  BY <1>4, <1>5

LEMMA DuplicateBase ==
  ASSUME BaseInv, NEW e \in events, Duplicate(e) \/ DedupeFails(e)
  PROVE  BaseInv'
<1>1. /\ UNCHANGED <<plan, rows, made, touched, job, remote, over, sent, seen, signed>>
      /\ events' \subseteq events
  BY DEF Duplicate, DedupeFails, tables, rowVars
<1>2. plan' \in Plans /\ over' \in [Subs -> Nat] /\ seen \subseteq seen' /\ seen' \subseteq 1 .. sent
  BY <1>1 DEF BaseInv, Typed
<1> QED
  BY <1>1, <1>2, QuietBase

LEMMA EnterpriseBase ==
  ASSUME BaseInv, MakeEnterprise
  PROVE  BaseInv'
<1>1. /\ UNCHANGED <<rows, made, touched, job, remote, over, sent, seen, signed, events>>
      /\ plan' \in Plans
  BY DEF MakeEnterprise, rowVars, razorpay, Plans
<1>2. over' \in [Subs -> Nat] /\ seen \subseteq seen' /\ seen' \subseteq 1 .. sent /\ events' \subseteq events
  BY <1>1 DEF BaseInv, Typed
<1> QED
  BY <1>1, <1>2, QuietBase

LEMMA PeriodBase ==
  ASSUME BaseInv, NEW s \in Subs, PeriodEnds(s)
  PROVE  BaseInv'
<1>1. UNCHANGED <<plan, rows, made, touched, job, remote, sent, seen, signed, events>>
  BY DEF PeriodEnds, tables, rowVars
<1>2. /\ plan' \in Plans /\ seen \subseteq seen' /\ seen' \subseteq 1 .. sent /\ events' \subseteq events
      /\ over' \in [Subs -> Nat]
  BY <1>1 DEF PeriodEnds, BaseInv, Typed, Entity
<1> QED
  BY <1>1, <1>2, QuietBase

\* What Razorpay tells, but for the end of a period.
Tells(s, type, r) ==
  /\ Tell(s, type, r) /\ r.status \notin Unpaid /\ remote[s].status \notin Terminal \cup {"NONE"}
  /\ type = "paused" => r.status = "PAUSED"
  /\ remote[s].status = "CREATED" => rows[s].status # "NONE" \/ r.status \in Terminal
  /\ UNCHANGED over /\ signed' \in {signed, signed \cup {s}} /\ (s \in signed' => rows[s].status # "NONE")
  /\ r.end = remote[s].end \/ (type = "charged" /\ r.end = remote[s].end + 1)
  /\ doubled => doubled'
  /\ r.status \in Live =>
       \/ remote[s].status \in Live \cup {"CREATED"}
       \/ doubled'
       \/ /\ ~CheckingOut
          /\ \A q \in Subs \ {s} : rows[q] # NoRow => remote[q].status \notin Live \cup {"CREATED"}

LEMMA WithIs ==
  ASSUME Typed, NEW s \in Subs, NEW status \in Statuses, NEW r, r = With(s, status)
  PROVE  r \in Entity /\ r.status = status /\ r.end = remote[s].end
BY DEF With, Typed, Entity

LEMMA TellsFacts ==
  ASSUME BaseInv, NEW s \in Subs, Razorpay(s), ~PeriodEnds(s)
  PROVE  \E type \in EventTypes, r \in Entity : Tells(s, type, r)
<1>1. /\ Typed /\ remote[s] \in Entity /\ (s \in signed => rows[s].status # "NONE")
      /\ rows[s].status = "NONE" => rows[s] = NoRow
      /\ remote[s].status = "NONE" => remote[s] = NoRemote
  BY DEF BaseInv, Typed, UnpaidOK, MadeOK
<1>2. ASSUME Pay(s) PROVE \E type \in EventTypes, r \in Entity : Tells(s, type, r)
  <2>1. PICK r : r = With(s, "AUTHENTICATED")
    OBVIOUS
  <2>2. r \in Entity /\ r.status = "AUTHENTICATED" /\ r.end = remote[s].end
    BY <1>1, <2>1, WithIs DEF Statuses, Good
  <2>3. /\ Tell(s, "authenticated", r) /\ signed' = signed \cup {s} /\ UNCHANGED <<over, doubled>>
        /\ rows[s].status # "NONE" /\ remote[s].status = "CREATED"
    BY <1>1, <1>2, <2>1 DEF Pay
  <2>4. Tells(s, "authenticated", r)
    BY <1>1, <2>2, <2>3 DEF Tells, Unpaid, Terminal
  <2> QED
    BY <2>2, <2>4 DEF EventTypes
<1>3. ASSUME NEW type \in EventTypes, NEW r \in Entity, Tell(s, type, r), UNCHANGED <<over, signed, doubled>>,
             r.status \notin Unpaid, remote[s].status \notin Terminal \cup {"NONE"},
             type = "paused" => r.status = "PAUSED",
             remote[s].status = "CREATED" => r.status \in Terminal,
             r.end = remote[s].end \/ (type = "charged" /\ r.end = remote[s].end + 1),
             r.status \in Live => remote[s].status \in Live
      PROVE  Tells(s, type, r)
  BY <1>1, <1>3 DEF Tells
<1>4. ASSUME NEW type \in EventTypes, NEW status \in Statuses, Tell(s, type, With(s, status)),
             UNCHANGED <<over, signed, doubled>>, status \notin Unpaid,
             remote[s].status \notin Terminal \cup {"NONE"}, type = "paused" => status = "PAUSED",
             remote[s].status = "CREATED" => status \in Terminal,
             status \in Live => remote[s].status \in Live
      PROVE  \E r \in Entity : Tells(s, type, r)
  <2>1. PICK r : r = With(s, status)
    OBVIOUS
  <2>2. r \in Entity /\ r.status = status /\ r.end = remote[s].end /\ Tell(s, type, r)
    BY <1>1, <1>4, <2>1, WithIs
  <2> QED
    BY <1>3, <1>4, <2>2
<1>5. ASSUME NEW type, NEW status \in Statuses, type \in EventTypes,
             Tell(s, type, With(s, status)), UNCHANGED <<over, signed, doubled>>,
             status \notin Unpaid /\ remote[s].status \notin Terminal \cup {"NONE", "CREATED"},
             type = "paused" => status = "PAUSED",
             status \in Live => remote[s].status \in Live
      PROVE  \E t \in EventTypes, r \in Entity : Tells(s, t, r)
  BY <1>4, <1>5
<1>6. ASSUME Charge(s) PROVE \E t \in EventTypes, r \in Entity : Tells(s, t, r)
  <2>1. PICK r : r = [status |-> "ACTIVE", end |-> remote[s].end + 1]
    OBVIOUS
  <2>2. r \in Entity /\ r.status = "ACTIVE" /\ r.end = remote[s].end + 1
    BY <1>1, <2>1 DEF Entity, Statuses, Good
  <2>3. /\ Tell(s, "charged", r) /\ UNCHANGED <<over, signed, doubled>>
        /\ remote[s].status \in Live
    BY <1>6, <2>1 DEF Charge, Live
  <2>4. remote[s].status \notin Terminal \cup {"NONE"} /\ remote[s].status # "CREATED" /\ r.status \notin Unpaid
    BY <2>2, <2>3 DEF Live, Good, Terminal, Unpaid
  <2>5. Tells(s, "charged", r)
    BY <1>1, <2>2, <2>3, <2>4 DEF Tells
  <2> QED
    BY <2>2, <2>5 DEF EventTypes
<1>7. ASSUME ChargeFails(s) PROVE \E t \in EventTypes, r \in Entity : Tells(s, t, r)
  <2>1. Tell(s, "pending", With(s, "PENDING")) /\ UNCHANGED <<over, signed, doubled>> /\ remote[s].status = "ACTIVE"
    BY <1>7 DEF ChargeFails
  <2> QED
    BY <1>5, <2>1 DEF EventTypes, Statuses, Unpaid, Terminal, Live, Good
<1>8. ASSUME Halt(s) PROVE \E t \in EventTypes, r \in Entity : Tells(s, t, r)
  <2>1. Tell(s, "halted", With(s, "HALTED")) /\ UNCHANGED <<over, signed, doubled>> /\ remote[s].status = "PENDING"
    BY <1>8 DEF Halt
  <2> QED
    BY <1>5, <2>1 DEF EventTypes, Statuses, Dead, Unpaid, Terminal, Live, Good
<1>9. ASSUME Pause(s) PROVE \E t \in EventTypes, r \in Entity : Tells(s, t, r)
  <2>1. Tell(s, "paused", With(s, "PAUSED")) /\ UNCHANGED <<over, signed, doubled>> /\ remote[s].status = "ACTIVE"
    BY <1>9 DEF Pause
  <2> QED
    BY <1>5, <2>1 DEF EventTypes, Statuses, Dead, Unpaid, Terminal, Live, Good
<1>10. ASSUME Resume(s) PROVE \E t \in EventTypes, r \in Entity : Tells(s, t, r)
  <2>1. PICK r : r = With(s, "ACTIVE")
    OBVIOUS
  <2>2. r \in Entity /\ r.status = "ACTIVE" /\ r.end = remote[s].end
    BY <1>1, <2>1, WithIs DEF Statuses, Good
  <2>3. /\ Tell(s, "resumed", r) /\ UNCHANGED <<over, signed>> /\ remote[s].status = "PAUSED"
        /\ doubled' = (doubled \/ CheckingOut \/ \E q \in Subs \ {s} :
                         rows[q] # NoRow /\ remote[q].status \in Live \cup {"CREATED"})
    BY <1>10, <2>1 DEF Resume
  <2>4. /\ doubled => doubled'
        /\ doubled' \/ (/\ ~CheckingOut
                        /\ \A q \in Subs \ {s} : rows[q] # NoRow => remote[q].status \notin Live \cup {"CREATED"})
    BY <2>3
  <2>5. remote[s].status \notin Terminal \cup {"NONE"} /\ remote[s].status # "CREATED" /\ r.status \notin Unpaid
    BY <2>2, <2>3 DEF Terminal, Unpaid
  <2>6. Tells(s, "resumed", r)
    BY <1>1, <2>2, <2>3, <2>4, <2>5 DEF Tells
  <2> QED
    BY <2>2, <2>6 DEF EventTypes
<1>11. ASSUME CancelNow(s) PROVE \E t \in EventTypes, r \in Entity : Tells(s, t, r)
  <2>1. /\ Tell(s, "cancelled", With(s, "CANCELLED")) /\ UNCHANGED <<over, signed, doubled>>
        /\ remote[s].status \in Cancellable \cup {"CREATED"}
    BY <1>11 DEF CancelNow
  <2> QED
    BY <1>4, <2>1 DEF EventTypes, Statuses, Dead, Unpaid, Terminal, Live, Good, Cancellable
<1>12. ASSUME Complete(s) PROVE \E t \in EventTypes, r \in Entity : Tells(s, t, r)
  <2>1. Tell(s, "completed", With(s, "COMPLETED")) /\ UNCHANGED <<over, signed, doubled>> /\ remote[s].status = "ACTIVE"
    BY <1>12 DEF Complete
  <2> QED
    BY <1>5, <2>1 DEF EventTypes, Statuses, Dead, Unpaid, Terminal, Live, Good
<1> QED
  BY <1>2, <1>6, <1>7, <1>8, <1>9, <1>10, <1>11, <1>12 DEF Razorpay

LEMMA TellsBase ==
  ASSUME BaseInv, NEW s \in Subs, NEW type \in EventTypes, NEW r \in Entity, Tells(s, type, r)
  PROVE  BaseInv'
BY TellBase DEF Tells

\* The step of a checkout that makes subscription s, and request h goes on as j.
Creates(h, s, j) ==
  /\ remote[s] = NoRemote /\ At(h, "create") /\ job[h].kind = "checkout" /\ job[h].sub = 0
  /\ remote' = [remote EXCEPT ![s] = [status |-> "CREATED", end |-> 0]]
  /\ Goes(h, j) /\ StepsOK(j) /\ j.kind = "checkout" /\ j.sub = s /\ j.entity = NoRemote
  /\ j.event = 0 /\ j.todo = <<"insert">>

LEMMA CheckoutJob ==
  ASSUME BaseInv, NEW h \in Handlers, job[h] # Idle, ~Manages(job[h])
  PROVE  /\ job[h] \in Job /\ job[h].kind = "checkout" /\ job[h].entity = NoRemote /\ job[h].event = 0
         /\ \/ job[h].todo = <<"create", "insert">> /\ job[h].sub = 0
            \/ job[h].todo = <<"insert">> /\ job[h].sub \in Subs /\ rows[job[h].sub].status = "NONE"
<1>1. job[h] \in Job /\ StepsOK(job[h]) /\ KnowsOK(job[h])
  BY DEF BaseInv, Typed, JobsOK
<1>2. job[h].kind = "checkout"
  BY <1>1 DEF StepsOK, Manages
<1>3. job[h].event = 0
  BY <1>1, <1>2 DEF KnowsOK, Webhook, EventTypes
<1>4. job[h].sub \in {0} \cup Subs
  BY <1>1 DEF Job
<1>5. \/ job[h].todo = <<"create", "insert">> /\ job[h].sub = 0
      \/ job[h].todo = <<"insert">> /\ job[h].sub # 0
  BY <1>1, <1>2 DEF StepsOK
<1> QED
  BY <1>1, <1>2, <1>3, <1>4, <1>5 DEF StepsOK, KnowsOK

LEMMA AtCheckout ==
  ASSUME BaseInv, NEW h \in Handlers, At(h, "create") \/ At(h, "insert")
  PROVE  job[h] # Idle /\ ~Manages(job[h])
<1>1. job[h].todo # <<>> /\ job[h] \in Job /\ StepsOK(job[h])
  BY DEF At, BaseInv, Typed, JobsOK
<1>2. Has(job[h], "create") \/ Has(job[h], "insert")
  BY <1>1, DoneFacts DEF At, Has, Job
<1> QED
  BY <1>1, <1>2, IdleIsJob DEF StepsOK, Manages

LEMMA CreateFacts ==
  ASSUME BaseInv, NEW h \in Handlers, Create(h)
  PROVE  \E s \in Subs, j \in Job : Creates(h, s, j)
<1> DEFINE unused == {s \in Subs : remote[s] = NoRemote}
<1>1. PICK s \in Subs : remote[s] = NoRemote /\ s = CHOOSE q \in unused : \A r \in unused : q <= r
  <2>1. unused # {} /\ unused \in SUBSET Nat
    BY DEF Create, Subs
  <2>2. \E q \in unused : \A r \in unused : q <= r
    <3> HIDE DEF unused
    <3> QED
      BY <2>1, LeastNumber
  <2> QED
    BY <2>2
<1>2. PICK k : k = Next1(h)
  OBVIOUS
<1>3. PICK j : j = [k EXCEPT !.sub = s]
  OBVIOUS
<1>4. At(h, "create") /\ remote' = [remote EXCEPT ![s].status = "CREATED"] /\ Goes(h, j)
  BY <1>1, <1>2, <1>3 DEF Create
<1>5. /\ job[h] \in Job /\ job[h].kind = "checkout" /\ job[h].entity = NoRemote /\ job[h].event = 0
      /\ job[h].todo = <<"create", "insert">> /\ job[h].sub = 0
  BY <1>4, AtCheckout, CheckoutJob DEF At
<1>6. k = [job[h] EXCEPT !.todo = <<"insert">>]
  <2>1. Len(<<"create", "insert">>) = 2 /\ Tail(<<"create", "insert">>) = <<"insert">>
    OBVIOUS
  <2>2. Len(job[h].todo) # 1 /\ Tail(job[h].todo) = <<"insert">>
    BY <1>5, <2>1
  <2> QED
    BY <1>2, <1>5, <2>2 DEF Next1, Job
<1>7. <<"insert">> \in Seq(Steps)
  BY DEF Steps
<1>8. /\ k \in Job /\ k.kind = "checkout" /\ k.entity = NoRemote /\ k.event = 0 /\ k.todo = <<"insert">>
  BY <1>5, <1>6, <1>7 DEF Job
<1>9. /\ j \in Job /\ j.kind = "checkout" /\ j.entity = NoRemote /\ j.event = 0 /\ j.todo = <<"insert">>
      /\ j.sub = s
  BY <1>3, <1>8 DEF Job
<1>10. StepsOK(j)
  <2>1. /\ Len(<<"insert">>) = 1 /\ <<"insert">> # <<>> /\ <<"insert">>[1] = "insert" /\ s # 0
        /\ \A i \in 1 .. 1 : i = 1
    BY DEF Subs
  <2> QED
    BY <1>9, <2>1 DEF StepsOK, BeforeSync, EventTypes
<1>11. remote' = [remote EXCEPT ![s] = [status |-> "CREATED", end |-> 0]]
  <2>1. [NoRemote EXCEPT !.status = "CREATED"] = [status |-> "CREATED", end |-> 0]
    BY DEF NoRemote
  <2> QED
    BY <1>1, <1>4, <2>1 DEF BaseInv, Typed
<1> QED
  BY <1>1, <1>4, <1>5, <1>9, <1>10, <1>11 DEF Creates

LEMMA CreateBase ==
  ASSUME BaseInv, NEW h \in Handlers, Create(h)
  PROVE  BaseInv'
<1>1. PICK s \in Subs, j \in Job : Creates(h, s, j)
  BY CreateFacts
<1>2. UNCHANGED <<plan, rows, made, touched, over, sent, seen, events, signed>>
  BY DEF Create, tables, rowVars
<1>3. PICK r : r = [status |-> "CREATED", end |-> 0]
  OBVIOUS
<1>4. /\ remote' = [remote EXCEPT ![s] = r] /\ r \in Entity /\ r.status = "CREATED"
      /\ remote[s] = NoRemote /\ remote[s].status = "NONE" /\ NoRemote.status = "NONE"
  BY <1>1, <1>3 DEF Creates, Entity, Statuses, NoRemote
<1>5. /\ remote'[s] = r /\ \A t \in Subs \ {s} : remote'[t] = remote[t]
      /\ job' = [job EXCEPT ![h] = j] /\ job'[h] = j /\ \A g \in Handlers \ {h} : job'[g] = job[g]
  BY <1>1, <1>4 DEF Creates, Goes, BaseInv, Typed
<1>6. Typed'
  BY <1>2, <1>4, <1>5 DEF BaseInv, Typed
<1>7. MadeOK'
  BY <1>2, <1>4, <1>5 DEF BaseInv, MadeOK
<1>8. EventsOK'
  BY <1>2 DEF BaseInv, EventsOK
<1>9. rows[s].status = "NONE" /\ (\A g \in Handlers : job[g].sub # s) /\ (\A e \in events : e.sub # s) /\ s \notin signed
  BY <1>4 DEF BaseInv, UnpaidOK, Unpaid
<1>10. JobsOK'
  <2>1. ASSUME NEW g \in Handlers PROVE StepsOK(job[g])' /\ KnowsOK(job[g])'
    <3>1. PICK k : k = job'[g]
      OBVIOUS
    <3>2. StepsOK(k) /\ KnowsOK(k)'
      <4>1. CASE g = h
        BY <1>1, <1>2, <1>5, <1>9, <3>1, <4>1 DEF Creates, KnowsOK, Manages, Webhook, EventTypes
      <4>2. CASE g # h
        <5>1. k = job[g] /\ StepsOK(k) /\ KnowsOK(k) /\ k.sub # s
          BY <1>5, <1>9, <3>1, <4>2 DEF BaseInv, JobsOK
        <5>2. Manages(k) => remote'[k.sub] = remote[k.sub]
          BY <1>5, <5>1 DEF KnowsOK
        <5> QED
          BY <1>2, <5>1, <5>2 DEF KnowsOK
      <4> QED
        BY <4>1, <4>2
    <3> QED
      BY <3>1, <3>2 DEF StepsOK, KnowsOK, Has, Manages, Webhook, Asked
  <2>2. ASSUME NEW f \in Handlers, NEW g \in Handlers,
               job'[f].event = job'[g].event, job'[f].event # 0
        PROVE  f = g
    BY <1>1, <1>5, <2>2 DEF Creates, BaseInv, JobsOK
  <2>3. ASSUME NEW f \in Handlers, NEW g \in Handlers, job'[f].kind = "checkout",
               job'[g].kind = "checkout", job'[f].sub = job'[g].sub, job'[f].sub # 0
        PROVE  f = g
    BY <1>1, <1>5, <1>9, <2>3 DEF Creates, BaseInv, JobsOK
  <2> QED
    BY <2>1, <2>2, <2>3 DEF JobsOK
<1>11. UnpaidOK'
  <2> SUFFICES ASSUME NEW t \in Subs PROVE
         /\ remote'[t].status \in Unpaid =>
              /\ rows[t].status \in Unpaid /\ t \notin signed
              /\ \A d \in events : d.sub # t
         /\ remote'[t].status = "NONE" => rows[t].status = "NONE" /\ \A g \in Handlers : job'[g].sub # t
         /\ remote'[t].status \in Live \cup {"PAUSED"} \/ t \in signed => rows[t].status # "NONE"
    BY <1>2 DEF UnpaidOK
  <2>1. CASE t = s
    BY <1>4, <1>5, <1>9, <2>1 DEF Unpaid, Live, Good
  <2>2. CASE t # s
    <3>1. remote'[t] = remote[t] /\ \A g \in Handlers : job'[g].sub \in {job[g].sub, s}
      BY <1>1, <1>5, <2>2 DEF Creates
    <3> QED
      BY <2>2, <3>1 DEF BaseInv, UnpaidOK
  <2> QED
    BY <2>1, <2>2
<1>12. EndedOK'
  <2> SUFFICES ASSUME NEW t \in Subs, remote'[t].status \notin Terminal PROVE
         /\ rows[t].status \notin Terminal
         /\ \A e \in events : e.sub = t => e.entity.status \notin Terminal
         /\ \A g \in Handlers : job'[g].sub = t => job'[g].entity.status \notin Terminal
    BY <1>2 DEF EndedOK
  <2>1. remote[t].status \notin Terminal
    BY <1>4, <1>5 DEF Terminal
  <2>2. ASSUME NEW g \in Handlers, job'[g].sub = t PROVE job'[g].entity.status \notin Terminal
    BY <1>1, <1>4, <1>5, <2>1, <2>2 DEF Creates, BaseInv, EndedOK, Terminal
  <2> QED
    BY <2>1, <2>2 DEF BaseInv, EndedOK
<1> QED
  BY <1>6, <1>7, <1>8, <1>10, <1>11, <1>12 DEF BaseInv

\* The step of a checkout that inserts the row of subscription s.
Inserts(h, s) ==
  /\ At(h, "insert") /\ job[h].kind = "checkout" /\ job[h].sub = s /\ rows[s].status = "NONE"
  /\ rows' \in [Subs -> Row] /\ rows'[s].status = "CREATED" /\ \A r \in Subs \ {s} : rows'[r] = rows[r]
  /\ made' = Append(made, s) /\ touched' = Append(touched, s) /\ Goes(h, Idle)
  /\ UNCHANGED <<plan, payments, seen, remote, over, leaving, signed, events, sent, bounds, history>>

LEMMA InsertFacts ==
  ASSUME BaseInv, NEW h \in Handlers, Insert(h)
  PROVE  \E s \in Subs : Inserts(h, s)
<1>1. At(h, "insert")
  BY DEF Insert
<1>2. job[h].kind = "checkout" /\ job[h].sub \in Subs /\ rows[job[h].sub].status = "NONE"
  <2>1. job[h].todo # <<"create", "insert">>
    BY <1>1 DEF At
  <2> QED
    BY <1>1, <2>1, AtCheckout, CheckoutJob
<1>3. PICK s \in Subs : s = job[h].sub
  BY <1>2
<1>4. rows' = [rows EXCEPT ![s].status = "CREATED"]
  BY <1>3 DEF Insert
<1>5. rows' \in [Subs -> Row] /\ rows'[s].status = "CREATED" /\ \A r \in Subs \ {s} : rows'[r] = rows[r]
  BY <1>4 DEF BaseInv, Typed, Row, Statuses
<1> QED
  BY <1>1, <1>2, <1>3, <1>5 DEF Insert, Inserts

LEMMA AppendFacts ==
  ASSUME NEW q \in Seq(Subs), NEW s \in Subs, NEW p, p = Append(q, s)
  PROVE  /\ p \in Seq(Subs) /\ Len(q) \in Nat /\ Len(p) = Len(q) + 1 /\ p[Len(q) + 1] = s
         /\ \A i \in 1 .. Len(q) : p[i] = q[i]
OBVIOUS

LEMMA InsertBase ==
  ASSUME BaseInv, NEW h \in Handlers, Insert(h)
  PROVE  BaseInv'
<1>1. PICK s \in Subs : Inserts(h, s)
  BY InsertFacts
<1>2. /\ UNCHANGED <<plan, remote, over, sent, seen, events, signed>>
      /\ rows' \in [Subs -> Row] /\ rows'[s].status = "CREATED" /\ \A r \in Subs \ {s} : rows'[r] = rows[r]
      /\ rows[s].status = "NONE"
  BY <1>1 DEF Inserts
<1>3. /\ made' \in Seq(Subs) /\ Len(made) \in Nat /\ Len(made') = Len(made) + 1 /\ made'[Len(made) + 1] = s
      /\ \A i \in 1 .. Len(made) : made'[i] = made[i]
  BY <1>1, AppendFacts DEF Inserts, BaseInv, Typed
<1>4. touched' \in Seq(Subs)
  BY <1>1, AppendFacts DEF Inserts, BaseInv, Typed
<1>5. /\ job' = [job EXCEPT ![h] = Idle] /\ job'[h] = Idle /\ \A g \in Handlers \ {h} : job'[g] = job[g]
      /\ job[h].sub = s /\ job[h].kind = "checkout"
  BY <1>1 DEF Inserts, Goes, BaseInv, Typed
<1>6. Typed'
  BY <1>2, <1>3, <1>4, <1>5, IdleIsJob DEF BaseInv, Typed
<1>7. MadeOK'
  <2>1. ASSUME NEW t \in Subs, rows'[t].status # "NONE" PROVE \E i \in 1 .. Len(made') : made'[i] = t
    <3>1. CASE t = s
      BY <1>3, <3>1
    <3>2. CASE t # s
      <4>1. PICK i \in 1 .. Len(made) : made[i] = t
        BY <1>2, <2>1, <3>2 DEF BaseInv, MadeOK
      <4>2. i \in 1 .. Len(made') /\ made'[i] = t
        BY <1>3, <4>1
      <4> QED
        BY <4>2
    <3> QED
      BY <3>1, <3>2
  <2>2. ASSUME NEW t \in Subs PROVE /\ rows'[t].status = "NONE" => rows'[t] = NoRow
                                    /\ remote'[t].status = "NONE" => remote'[t] = NoRemote
    BY <1>2 DEF BaseInv, MadeOK
  <2> QED
    BY <2>1, <2>2 DEF MadeOK
<1>8. EventsOK'
  BY <1>2 DEF BaseInv, EventsOK
<1>9. JobsOK'
  <2>1. ASSUME NEW g \in Handlers PROVE StepsOK(job[g])' /\ KnowsOK(job[g])'
    <3>1. PICK k : k = job'[g]
      OBVIOUS
    <3>2. StepsOK(k) /\ KnowsOK(k)'
      <4>1. CASE g = h
        <5>1. k = Idle
          BY <1>5, <3>1, <4>1
        <5>2. Len(<<>>) = 0 /\ 1 .. 0 = {}
          OBVIOUS
        <5> QED
          BY <5>1, <5>2, IdleIsJob DEF StepsOK, Has, KnowsOK, Manages, Webhook, EventTypes
      <4>2. CASE g # h
        <5>1. k = job[g] /\ StepsOK(k) /\ KnowsOK(k) /\ (k.kind = "checkout" => k.sub # s)
          BY <1>5, <3>1, <4>2 DEF BaseInv, JobsOK, Subs
        <5>2. Manages(k) => rows'[k.sub].status # "NONE"
          BY <1>2, <5>1 DEF KnowsOK
        <5>3. k.kind = "checkout" /\ k.sub # 0 => rows'[k.sub].status = "NONE"
          <6>1. k.sub \in {0} \cup Subs
            BY <5>1 DEF BaseInv, Typed, Job
          <6> QED
            BY <1>2, <5>1, <6>1 DEF KnowsOK
        <5> QED
          BY <1>2, <5>1, <5>2, <5>3 DEF KnowsOK
      <4> QED
        BY <4>1, <4>2
    <3> QED
      BY <3>1, <3>2 DEF StepsOK, KnowsOK, Has, Manages, Webhook, Asked
  <2>2. ASSUME NEW f \in Handlers, NEW g \in Handlers,
               job'[f].event = job'[g].event, job'[f].event # 0
        PROVE  f = g
    BY <1>5, <2>2, IdleIsJob DEF BaseInv, JobsOK
  <2>3. ASSUME NEW f \in Handlers, NEW g \in Handlers, job'[f].kind = "checkout",
               job'[g].kind = "checkout", job'[f].sub = job'[g].sub, job'[f].sub # 0
        PROVE  f = g
    BY <1>5, <2>3, IdleIsJob DEF BaseInv, JobsOK
  <2> QED
    BY <2>1, <2>2, <2>3 DEF JobsOK
<1>10. \A g \in Handlers : job'[g] = Idle \/ job'[g] = job[g]
  BY <1>5
<1>11. UnpaidOK'
  <2> SUFFICES ASSUME NEW t \in Subs PROVE
         /\ remote[t].status \in Unpaid =>
              /\ rows'[t].status \in Unpaid /\ t \notin signed
              /\ \A d \in events : d.sub # t
         /\ remote[t].status = "NONE" => rows'[t].status = "NONE" /\ \A g \in Handlers : job'[g].sub # t
         /\ remote[t].status \in Live \cup {"PAUSED"} \/ t \in signed => rows'[t].status # "NONE"
    BY <1>2 DEF UnpaidOK
  <2>1. remote[t].status = "NONE" => t # s /\ \A g \in Handlers : job'[g].sub # t
    BY <1>5, <1>10, IdleIsJob DEF BaseInv, UnpaidOK, Subs
  <2>2. CASE t = s
    BY <1>2, <2>1, <2>2 DEF BaseInv, UnpaidOK, Unpaid
  <2>3. CASE t # s
    BY <1>2, <2>1, <2>3 DEF BaseInv, UnpaidOK
  <2> QED
    BY <2>2, <2>3
<1>12. EndedOK'
  <2> SUFFICES ASSUME NEW t \in Subs, remote[t].status \notin Terminal PROVE
         /\ rows'[t].status \notin Terminal
         /\ \A e \in events : e.sub = t => e.entity.status \notin Terminal
         /\ \A g \in Handlers : job'[g].sub = t => job'[g].entity.status \notin Terminal
    BY <1>2 DEF EndedOK
  <2>1. rows'[t].status \notin Terminal
    BY <1>2 DEF BaseInv, EndedOK, Terminal
  <2>2. \A g \in Handlers : job'[g].sub = t => job'[g].entity.status \notin Terminal
    BY <1>10, IdleIsJob DEF BaseInv, EndedOK, Subs
  <2> QED
    BY <2>1, <2>2 DEF BaseInv, EndedOK
<1> QED
  BY <1>6, <1>7, <1>8, <1>9, <1>11, <1>12 DEF BaseInv

\* A checkout that fails.
LEMMA StopFacts ==
  ASSUME BaseInv, NEW h \in Handlers, RequestFails(h), ~Manages(job[h])
  PROVE  /\ Goes(h, Idle) /\ Moves(h, Idle) /\ job[h].kind = "checkout" /\ job[h].event = 0 /\ lost' = lost
         /\ job[h].todo = <<"create", "insert">> \/ job[h].todo = <<"insert">>
         /\ UNCHANGED <<plan, rows, made, touched, payments, seen, remote, over, sent, signed, events,
                        disordered, doubled>>
<1>1. job[h].kind = "checkout" /\ job[h].event = 0 /\ (job[h].todo = <<"create", "insert">> \/ job[h].todo = <<"insert">>)
  BY CheckoutJob DEF RequestFails
<1>2. Goes(h, Idle) /\ Moves(h, Idle)
  BY GoesMoves, IdleIsJob DEF RequestFails, BaseInv
<1> QED
  BY <1>1, <1>2 DEF RequestFails, tables, rowVars, razorpay

LEMMA StopBase ==
  ASSUME BaseInv, NEW h \in Handlers, RequestFails(h), ~Manages(job[h])
  PROVE  BaseInv'
<1>1. /\ Moves(h, Idle)
      /\ UNCHANGED <<plan, rows, made, touched, seen, remote, over, sent, signed, events>>
  BY StopFacts
<1>2. StepsOK(Idle)
  <2>1. Len(<<>>) = 0 /\ 1 .. 0 = {}
    OBVIOUS
  <2> QED
    BY <2>1, IdleIsJob DEF StepsOK, Has
<1>3. Follows(job[h], Idle) /\ Writes(job[h])
  BY <1>1 DEF Follows, Writes
<1>4. rows' \in [Subs -> Row] /\ touched' \in Seq(Subs) /\ plan' \in Plans /\ events' \subseteq events
  BY <1>1 DEF BaseInv, Typed
<1> QED
  BY <1>1, <1>2, <1>3, <1>4, IdleIsJob, StepBase

\* What a step of the system is.
LEMMA NextIs ==
  ASSUME BaseInv, Next
  PROVE  \/ \E h \in Handlers : \E i, j : Progresses(h, i, j)
         \/ \E h \in Handlers : \E s \in Subs, j \in Job : Create(h) /\ Creates(h, s, j)
         \/ \E h \in Handlers : \E s \in Subs : Insert(h) /\ Inserts(h, s)
         \/ \E h \in Handlers : RequestFails(h) /\ ~Manages(job[h])
         \/ \E h \in Handlers : ReceiveCheckout(h) \/ ReceiveCancel(h) \/ \E s \in Subs : ReceiveVerify(h, s)
         \/ \E e \in events : Duplicate(e) \/ DedupeFails(e) \/ \E h \in Handlers : ReceiveEvent(h, e)
         \/ \E s \in Subs : \E type \in EventTypes, r \in Entity : Tells(s, type, r)
         \/ \E s \in Subs : PeriodEnds(s)
         \/ MakeEnterprise
<1>1. ASSUME NEW h \in Handlers, Step(h)
      PROVE  \/ \E i, j : Progresses(h, i, j)
             \/ \E s \in Subs, j \in Job : Create(h) /\ Creates(h, s, j)
             \/ \E s \in Subs : Insert(h) /\ Inserts(h, s)
             \/ RequestFails(h) /\ ~Manages(job[h])
  <2>1. CASE Manages(job[h])
    BY <1>1, <2>1, StepProgresses
  <2>2. CASE ~Manages(job[h])
    <3>1. CASE Create(h)
      BY <3>1, CreateFacts
    <3>2. CASE Insert(h)
      BY <3>2, InsertFacts
    <3>3. CASE RequestFails(h)
      BY <2>2, <3>3
    <3>4. CASE \E step \in {"fetch", "force", "grant", "record", "cancel", "close", "apply", "sync", "rest", "set"} :
                 At(h, step)
      BY <2>2, <3>4, AtManages DEF At
    <3> QED
      BY <1>1, <3>1, <3>2, <3>3, <3>4 DEF Step, Fetch, ForceStatus, Grant, Record, Cancel, Close, Apply,
         SyncRead, RestRead, SetPlan
  <2> QED
    BY <2>1, <2>2
<1>2. ASSUME NEW s \in Subs, Razorpay(s)
      PROVE  (\E type \in EventTypes, r \in Entity : Tells(s, type, r)) \/ PeriodEnds(s)
  BY <1>2, TellsFacts
<1> QED
  BY <1>1, <1>2 DEF Next, Deliver

LEMMA NextBase ==
  ASSUME BaseInv, [Next]_vars
  PROVE  BaseInv'
<1>1. CASE UNCHANGED vars
  <2>1. events' \subseteq events /\ plan' \in Plans /\ over' \in [Subs -> Nat] /\ seen \subseteq seen' /\ seen' \subseteq 1 .. sent
    BY <1>1 DEF vars, tables, rowVars, razorpay, BaseInv, Typed
  <2>2. UNCHANGED <<rows, made, touched, job, remote, sent, signed>>
    BY <1>1 DEF vars, tables, rowVars, razorpay
  <2> QED
    BY <2>1, <2>2, QuietBase
<1>2. CASE Next
  BY <1>2, NextIs, ProgressBase, CreateBase, InsertBase, StopBase, CheckoutBase, ReceiveCancelBase,
     VerifyBase, DuplicateBase, EventBase, TellsBase, PeriodBase, EnterpriseBase
<1> QED
  BY <1>1, <1>2

\* What requests, rows, events and Razorpay have to do with each other holds throughout: the
\* lists of queries of the handlers of billing.controller.ts and what they know.
THEOREM BaseHolds ==
  Spec => []BaseInv
<1>1. BaseInv /\ [Next]_vars => BaseInv'
  BY NextBase
<1> QED
  BY <1>1, InitBase, PTL DEF Spec

----------------------------------------------------------------------------
(* PaymentInv.                                                             *)

\* Request j is to record the charge e tells of.
Records(j, e) ==
  j.event = e.id /\ j.kind = "charged" /\ j.sub = e.sub /\ j.entity = e.entity /\ Has(j, "record")
Open(e) == e.sub \notin lost /\ e.type = "charged" /\ (e.id \notin seen \/ Recording(e))

LEMMA RecordsIs ==
  ASSUME NEW e
  PROVE  /\ Recording(e) <=> \E g \in Handlers : Records(job[g], e)
         /\ Recording(e)' <=> \E g \in Handlers : Records(job'[g], e)
BY DEF Recording, Records, Has

\* PaymentInv is kept if the charges that are still to be recorded are.
LEMMA PaymentKept ==
  ASSUME BaseInv, PaymentInv, lost \subseteq lost', payments \subseteq payments',
         \A s \in Subs : remote'[s].end = remote[s].end \/ remote'[s].end = 0,
         \A e \in events : Open(e) /\ e.sub \notin lost' =>
           \/ e \in events' /\ (e.id \notin seen' \/ \E g \in Handlers : Records(job'[g], e))
           \/ <<e.sub, e.entity.end>> \in payments'
  PROVE  PaymentInv'
<1> SUFFICES ASSUME NEW s \in Subs \ lost', NEW n \in 1 .. remote'[s].end
             PROVE  <<s, n>> \in payments' \/ Charged(s, n)'
  BY DEF PaymentInv
<1>1. s \notin lost /\ n \in 1 .. remote[s].end
  <2>1. CASE remote'[s].end = remote[s].end
    BY <2>1
  <2>2. CASE remote'[s].end = 0
    BY <2>2
  <2> QED
    BY <2>1, <2>2
<1>2. CASE <<s, n>> \in payments
  BY <1>2
<1>3. CASE Charged(s, n)
  <2>1. PICK e \in events : /\ e.sub = s /\ e.type = "charged" /\ e.entity.end = n
                            /\ e.id \notin seen \/ Recording(e)
    BY <1>3 DEF Charged
  <2>2. CASE e \in events' /\ (e.id \notin seen' \/ \E g \in Handlers : Records(job'[g], e))
    <3>1. e.id \notin seen' \/ Recording(e)'
      BY <2>2, RecordsIs
    <3> QED
      BY <2>1, <2>2, <3>1 DEF Charged
  <2>3. CASE <<e.sub, e.entity.end>> \in payments'
    BY <2>1, <2>3
  <2> QED
    BY <1>1, <2>1, <2>2, <2>3 DEF Open
<1> QED
  BY <1>1, <1>2, <1>3 DEF PaymentInv

LEMMA RecordsSame ==
  ASSUME NEW j \in Job, NEW k, Same(j, k), NEW e, Records(j, e)
  PROVE  Records(k, e)
<1>1. /\ k.todo = j.todo /\ k.kind = j.kind /\ k.sub = j.sub /\ k.entity = j.entity /\ k.event = j.event
  BY SameFacts
<1> QED
  BY <1>1 DEF Records, Has

LEMMA ProgressPayment ==
  ASSUME BaseInv, PaymentInv, NEW h \in Handlers, NEW i, NEW j, Progresses(h, i, j)
  PROVE  PaymentInv'
<1>1. /\ lost \subseteq lost' /\ payments \subseteq payments' /\ UNCHANGED <<remote, seen>>
      /\ job'[h] = j /\ i = job[h] /\ i \in Job
      /\ \A g \in Handlers \ {h} : Same(job[g], job'[g]) /\ job[g] \in Job
  BY DEF Progresses, Moves, BaseInv, Typed
<1>2. ASSUME NEW e \in events, Open(e), e.sub \notin lost'
      PROVE  \/ e \in events' /\ (e.id \notin seen' \/ \E g \in Handlers : Records(job'[g], e))
             \/ <<e.sub, e.entity.end>> \in payments'
  <2>1. 1 <= e.id /\ e.id \in Nat /\ e.id # 0
    BY DEF BaseInv, Typed, EventsOK, Event
  <2>2. e \in events' \/ (j = Idle /\ e.id = i.event)
    BY DEF Progresses
  <2>3. CASE e.id \notin seen
    <3>1. i.event # e.id
      BY <1>1, <2>1, <2>3 DEF BaseInv, JobsOK, KnowsOK
    <3> QED
      BY <1>1, <2>2, <2>3, <3>1
  <2>4. ASSUME NEW g \in Handlers, Records(job[g], e), g # h
        PROVE  e \in events' /\ \E f \in Handlers : Records(job'[f], e)
    <3>1. PICK k : k = job'[g] /\ Same(job[g], k)
      BY <1>1, <2>4
    <3>2. Records(k, e)
      BY <1>1, <2>4, <3>1, RecordsSame
    <3>3. i.event # e.id
      BY <1>1, <2>1, <2>4 DEF Records, BaseInv, JobsOK
    <3> QED
      BY <2>2, <3>1, <3>2, <3>3
  <2>5. CASE Records(i, e)
    <3>1. Webhook(i) /\ i.kind = "charged" /\ Has(i, "record")
      BY <2>5 DEF Records, Webhook, EventTypes
    <3>2. CASE j # Idle /\ Has(j, "record")
      <4>1. /\ j.kind = i.kind /\ j.sub = i.sub /\ j.event = i.event /\ j.entity = i.entity
        BY <3>1, <3>2 DEF Progresses, Follows
      <4>2. Records(j, e)
        BY <2>5, <3>2, <4>1 DEF Records
      <4> QED
        BY <1>1, <2>2, <3>2, <4>2
    <3>3. CASE <<i.sub, i.entity.end>> \in payments'
      BY <2>5, <3>3 DEF Records
    <3> QED
      BY <1>2, <2>5, <3>1, <3>2, <3>3 DEF Progresses, Records
  <2> QED
    BY <1>1, <1>2, <2>3, <2>4, <2>5, RecordsIs DEF Open
<1> QED
  BY <1>1, <1>2, PaymentKept

\* A request begins or ends that has nothing to record, and no event is taken from the list.
LEMMA StartPayment ==
  ASSUME BaseInv, PaymentInv, NEW h \in Handlers, job[h].kind \in {"none", "checkout"}, NEW j, Goes(h, j),
         lost' = lost, payments' = payments, events' = events, seen' = seen,
         \A s \in Subs : remote'[s].end = remote[s].end \/ remote'[s].end = 0
  PROVE  PaymentInv'
<1>1. \A g \in Handlers \ {h} : job'[g] = job[g]
  BY DEF Goes, BaseInv, Typed
<1>2. ASSUME NEW e \in events, Open(e)
      PROVE  e.id \notin seen' \/ \E g \in Handlers : Records(job'[g], e)
  <2>1. ASSUME NEW g \in Handlers, Records(job[g], e) PROVE Records(job'[g], e)
    BY <1>1, <2>1 DEF Records
  <2> QED
    BY <1>2, <2>1, RecordsIs DEF Open
<1> QED
  BY <1>2, PaymentKept

LEMMA EventPayment ==
  ASSUME BaseInv, PaymentInv, NEW h \in Handlers, NEW e \in events, ReceiveEvent(h, e)
  PROVE  PaymentInv'
<1>1. UNCHANGED <<payments, remote>> /\ seen' = seen \cup {e.id} /\ lost \subseteq lost'
  BY DEF ReceiveEvent
<1>2. job \in [Handlers -> Job] /\ job[h] = Idle /\ \A f \in events : f.id = e.id => f = e
  BY DEF BaseInv, Typed, EventsOK, ReceiveEvent
<1>3. ASSUME NEW f \in events, Open(f), f.sub \notin lost'
      PROVE  f \in events' /\ (f.id \notin seen' \/ \E g \in Handlers : Records(job'[g], f))
  <2>1. CASE rows[e.sub] = NoRow
    <3>1. events' = events \ {e} /\ job' = job /\ e.sub \in lost'
      BY <2>1 DEF ReceiveEvent
    <3>2. f # e /\ f.id # e.id
      BY <1>2, <1>3, <3>1
    <3> QED
      BY <1>1, <1>3, <3>1, <3>2, RecordsIs DEF Open
  <2>2. CASE rows[e.sub] # NoRow
    <3>1. PICK j \in Job :
           /\ Goes(h, j) /\ j.kind = e.type /\ j.sub = e.sub /\ j.entity = e.entity /\ j.event = e.id
           /\ j.kind = "charged" => Has(j, "record")
      BY <2>2, EventFacts
    <3>2. events' = events /\ job'[h] = j /\ \A g \in Handlers \ {h} : job'[g] = job[g]
      BY <1>2, <2>2, <3>1 DEF ReceiveEvent, Goes
    <3>3. CASE f = e
      <4>1. Records(j, f)
        BY <1>3, <3>1, <3>3 DEF Records, Open
      <4> QED
        BY <3>2, <4>1
    <3>4. CASE f # e
      <4>1. f.id # e.id
        BY <1>2, <3>4
      <4>2. ASSUME NEW g \in Handlers, Records(job[g], f) PROVE Records(job'[g], f)
        BY <1>2, <3>2, <4>2, IdleIsJob DEF Records
      <4> QED
        BY <1>1, <1>3, <3>2, <4>1, <4>2, RecordsIs DEF Open
    <3> QED
      BY <3>3, <3>4
  <2> QED
    BY <2>1, <2>2
<1> QED
  BY <1>1, <1>3, PaymentKept

LEMMA DuplicatePayment ==
  ASSUME BaseInv, PaymentInv, NEW e \in events, Duplicate(e) \/ DedupeFails(e)
  PROVE  PaymentInv'
<1>1. UNCHANGED <<payments, remote, job, seen>> /\ events' = events \ {e} /\ lost \subseteq lost'
  BY DEF Duplicate, DedupeFails, tables, history
<1>2. ASSUME NEW f \in events, Open(f), f.sub \notin lost'
      PROVE  f \in events' /\ (f.id \notin seen' \/ \E g \in Handlers : Records(job'[g], f))
  <2>1. f # e
    <3>1. CASE Duplicate(e)
      <4>1. e.id \in seen /\ \A g \in Handlers : job[g].event # e.id
        BY <3>1 DEF Duplicate, Accepted
      <4> QED
        BY <1>2, <4>1 DEF Open, Recording
    <3>2. CASE DedupeFails(e)
      BY <1>2, <3>2 DEF DedupeFails
    <3> QED
      BY <3>1, <3>2
  <2> QED
    BY <1>1, <1>2, <2>1, RecordsIs DEF Open
<1> QED
  BY <1>1, <1>2, PaymentKept

LEMMA TellsPayment ==
  ASSUME BaseInv, PaymentInv, NEW s \in Subs, NEW type \in EventTypes, NEW r \in Entity, Tells(s, type, r)
  PROVE  PaymentInv'
<1>1. /\ UNCHANGED <<payments, job, seen, lost>> /\ sent' = sent + 1
      /\ remote' = [remote EXCEPT ![s] = r]
      /\ events' = events \cup {[id |-> sent + 1, sub |-> s, type |-> type, entity |-> r]}
      /\ r.end = remote[s].end \/ (type = "charged" /\ r.end = remote[s].end + 1)
  BY DEF Tells, Tell, tables
<1>2. PICK e : e = [id |-> sent + 1, sub |-> s, type |-> type, entity |-> r]
  OBVIOUS
<1>3. e \in events' /\ e.id \notin seen' /\ e.sub = s /\ e.type = type /\ e.entity = r
  BY <1>1, <1>2 DEF BaseInv, Typed
<1> SUFFICES ASSUME NEW t \in Subs \ lost', NEW n \in 1 .. remote'[t].end
             PROVE  <<t, n>> \in payments' \/ Charged(t, n)'
  BY DEF PaymentInv
<1>4. CASE n \in 1 .. remote[t].end
  <2>1. <<t, n>> \in payments \/ Charged(t, n)
    BY <1>1, <1>4 DEF PaymentInv
  <2>2. Charged(t, n) => Charged(t, n)'
    BY <1>1 DEF Charged, Recording, Has
  <2> QED
    BY <1>1, <2>1, <2>2
<1>5. CASE n \notin 1 .. remote[t].end
  <2>1. t = s
    BY <1>1, <1>5 DEF BaseInv, Typed
  <2>2. remote'[s] = r /\ remote[s].end \in Nat /\ r.end \in Nat
    BY <1>1 DEF BaseInv, Typed, Entity
  <2>3. n = r.end /\ type = "charged"
    BY <1>1, <1>5, <2>1, <2>2
  <2> QED
    BY <1>3, <2>1, <2>3 DEF Charged
<1> QED
  BY <1>4, <1>5

LEMMA InitPayment ==
  Init => PaymentInv
<1> SUFFICES ASSUME Init PROVE PaymentInv
  OBVIOUS
<1>1. \A s \in Subs : remote[s].end = 0
  BY DEF Init, NoRemote
<1> QED
  BY <1>1 DEF PaymentInv

LEMMA NextPayment ==
  ASSUME BaseInv, PaymentInv, [Next]_vars
  PROVE  PaymentInv'
<1>1. ASSUME UNCHANGED <<payments, remote, job, seen, events, lost>> PROVE PaymentInv'
  <2>1. \A s, n : Charged(s, n)' = Charged(s, n)
    BY <1>1 DEF Charged, Recording, Has
  <2> QED
    BY <1>1, <2>1 DEF PaymentInv
<1>2. CASE UNCHANGED vars
  BY <1>1, <1>2 DEF vars, tables, razorpay, history
<1>3. ASSUME NEW h \in Handlers, NEW s \in Subs, NEW j \in Job, Create(h), Creates(h, s, j) PROVE PaymentInv'
  <2>1. job[h].kind = "checkout" /\ Goes(h, j) /\ \A t \in Subs : remote'[t].end = remote[t].end \/ remote'[t].end = 0
    BY <1>3 DEF Creates, BaseInv, Typed
  <2>2. lost' = lost /\ payments' = payments /\ events' = events /\ seen' = seen
    BY <1>3 DEF Create, tables, history
  <2> QED
    BY <2>1, <2>2, StartPayment
<1>4. ASSUME NEW h \in Handlers, NEW s \in Subs, Inserts(h, s) PROVE PaymentInv'
  <2>1. job[h].kind = "checkout" /\ Goes(h, Idle) /\ \A t \in Subs : remote'[t].end = remote[t].end \/ remote'[t].end = 0
    BY <1>4 DEF Inserts
  <2>2. lost' = lost /\ payments' = payments /\ events' = events /\ seen' = seen
    BY <1>4 DEF Inserts, history
  <2> QED
    BY <2>1, <2>2, StartPayment
<1>5. ASSUME NEW h \in Handlers, RequestFails(h), ~Manages(job[h]) PROVE PaymentInv'
  <2>1. job[h].kind = "checkout" /\ Goes(h, Idle) /\ \A t \in Subs : remote'[t].end = remote[t].end \/ remote'[t].end = 0
    BY <1>5, StopFacts
  <2>2. lost' = lost /\ payments' = payments /\ events' = events /\ seen' = seen
    BY <1>5, StopFacts
  <2> QED
    BY <2>1, <2>2, StartPayment
<1>6. ASSUME NEW h \in Handlers, ReceiveCheckout(h) \/ ReceiveCancel(h) \/ \E s \in Subs : ReceiveVerify(h, s)
      PROVE  PaymentInv'
  <2>1. \E j : Goes(h, j)
    BY <1>6, CheckoutFacts, ReceiveCancelFacts, VerifyFacts
  <2>2. job[h].kind = "none" /\ \A t \in Subs : remote'[t].end = remote[t].end \/ remote'[t].end = 0
    BY <1>6, IdleIsJob DEF ReceiveCheckout, ReceiveCancel, ReceiveVerify, razorpay
  <2>3. lost' = lost /\ payments' = payments /\ events' = events /\ seen' = seen
    BY <1>6 DEF ReceiveCheckout, ReceiveCancel, ReceiveVerify, razorpay, tables
  <2> QED
    BY <2>1, <2>2, <2>3, StartPayment
<1>7. ASSUME (\E s \in Subs : PeriodEnds(s)) \/ MakeEnterprise PROVE PaymentInv'
  BY <1>1, <1>7 DEF PeriodEnds, MakeEnterprise, tables, razorpay, history
<1>8. CASE Next
  BY <1>3, <1>4, <1>5, <1>6, <1>7, <1>8, NextIs, ProgressPayment, EventPayment, DuplicatePayment, TellsPayment
<1> QED
  BY <1>2, <1>8

----------------------------------------------------------------------------
(* StatusInv.                                                              *)

LEMMA StatusPrimed ==
  ASSUME NEW s, NEW u, NEW now, NEW row, NEW jobs,
         u = Unseen(s)', now = remote'[s].status, row = rows'[s].status, jobs = job',
         StatusOf(s, u, now, row, jobs)
  PROVE  StatusOK(s)'
BY DEF StatusOK, StatusOf, Applies, Webhook, Manages, Asked

\* The requests that are at work on s, or come to be, go on as they are.
LEMMA JobsKept ==
  ASSUME NEW s \in Subs, NEW u, NEW now, NEW row, NEW jobs \in [Handlers -> Job], NEW news \in [Handlers -> Job],
         StatusOf(s, u, now, row, jobs),
         \A g \in Handlers : news[g].sub = s => Same(jobs[g], news[g]),
         \A g \in Handlers : Applies(jobs[g], s) => Same(jobs[g], news[g])
  PROVE  StatusOf(s, u, now, row, news)
<1>1. ASSUME NEW g \in Handlers, Same(jobs[g], news[g])
      PROVE  /\ news[g].todo = jobs[g].todo /\ news[g].kind = jobs[g].kind /\ news[g].sub = jobs[g].sub
             /\ news[g].entity = jobs[g].entity /\ news[g].event = jobs[g].event
  <2>1. PICK j, k : j \in Job /\ j = jobs[g] /\ k = news[g] /\ Same(j, k)
    BY <1>1
  <2> QED
    BY <2>1, SameFacts
<1>2. \A g, h \in Handlers : news[g].sub = s /\ news[h].sub = s => g = h
  BY <1>1 DEF StatusOf
<1>3. \A g \in Handlers : Applies(jobs[g], s) => Applies(news[g], s)
  BY <1>1 DEF Applies, Webhook
<1>4. \A h \in Handlers : news[h].sub = s /\ Manages(news[h]) /\ Asked(news[h]) => u # {} \/ news[h].entity.status = now
  BY <1>1 DEF StatusOf, Manages, Asked
<1>5. \A h \in Handlers : news[h].sub = s /\ news[h].kind = "checkout" => u # {} \/ now = "CREATED"
  BY <1>1 DEF StatusOf
<1> QED
  BY <1>2, <1>3, <1>4, <1>5 DEF StatusOf

LEMMA StatusKept ==
  ASSUME BaseInv, BaseInv', NEW s \in Subs, StatusOK(s), Unseen(s)' = Unseen(s),
         remote'[s].status = remote[s].status, rows'[s].status = rows[s].status,
         \A g \in Handlers : job'[g].sub = s => Same(job[g], job'[g]),
         \A g \in Handlers : Applies(job[g], s) => Same(job[g], job'[g])
  PROVE  StatusOK(s)'
<1>1. PICK u, now, row : u = Unseen(s) /\ now = remote[s].status /\ row = rows[s].status
  OBVIOUS
<1>2. PICK jobs \in [Handlers -> Job] : jobs = job
  BY DEF BaseInv, Typed
<1>3. PICK news \in [Handlers -> Job] : news = job'
  BY DEF BaseInv, Typed
<1>4. StatusOf(s, u, now, row, jobs)
  BY <1>1, <1>2 DEF StatusOK
<1>5. StatusOf(s, u, now, row, news)
  <2>1. \A g \in Handlers : news[g].sub = s => Same(jobs[g], news[g])
    BY <1>2, <1>3
  <2>2. \A g \in Handlers : Applies(jobs[g], s) => Same(jobs[g], news[g])
    BY <1>2, <1>3
  <2> QED
    BY <1>4, <2>1, <2>2, JobsKept
<1>6. u = Unseen(s)' /\ now = remote'[s].status /\ row = rows'[s].status
  BY <1>1
<1> QED
  BY <1>3, <1>5, <1>6, StatusPrimed

LEMMA ProgressStatus ==
  ASSUME BaseInv, StatusInv, NEW h \in Handlers, NEW i, NEW j, Progresses(h, i, j)
  PROVE  StatusInv'
<1> SUFFICES ASSUME NEW s \in Subs \ (lost' \cup disordered') PROVE StatusOK(s)'
  BY DEF StatusInv
<1>1. /\ s \notin lost /\ s \notin disordered /\ UNCHANGED <<remote, seen>>
      /\ job'[h] = j /\ i = job[h] /\ i \in Job /\ j \in Job /\ KnowsOK(i)
      /\ \A g \in Handlers \ {h} : Same(job[g], job'[g]) /\ job[g] \in Job
      /\ s # 0
  BY DEF Progresses, Moves, BaseInv, Typed, JobsOK, Subs
<1>2. Unseen(s)' = Unseen(s)
  <2>1. ASSUME NEW e \in events, e.id \notin seen PROVE e \in events'
    <3>1. 1 <= e.id /\ e.id \in Nat /\ e.id # 0
      BY DEF BaseInv, Typed, EventsOK, Event
    <3>2. i.event # e.id
      BY <1>1, <2>1, <3>1 DEF KnowsOK
    <3> QED
      BY <3>2 DEF Progresses
  <2>2. events' \subseteq events
    BY DEF Progresses
  <2> QED
    BY <1>1, <2>1, <2>2 DEF Unseen
<1>3. PICK u, now, row : u = Unseen(s) /\ now = remote[s].status /\ row = rows[s].status
  OBVIOUS
<1>4. PICK jobs \in [Handlers -> Job] : jobs = job
  BY DEF BaseInv, Typed
<1>5. PICK news \in [Handlers -> Job] : news = job'
  BY DEF Progresses, Moves
<1>6. StatusOf(s, u, now, row, jobs)
  BY <1>1, <1>3, <1>4 DEF StatusOK, StatusInv
<1>7. PICK row2 : row2 = rows'[s].status
  OBVIOUS
<1>8. ASSUME NEW g \in Handlers, g # h
      PROVE  /\ news[g].todo = jobs[g].todo /\ news[g].kind = jobs[g].kind /\ news[g].sub = jobs[g].sub
             /\ news[g].entity = jobs[g].entity /\ news[g].event = jobs[g].event
  <2>1. PICK a, b : a \in Job /\ a = jobs[g] /\ b = news[g] /\ Same(a, b)
    BY <1>1, <1>4, <1>5, <1>8
  <2> QED
    BY <2>1, SameFacts
<1>9. jobs[h] = i /\ news[h] = j /\ (j.sub = s => j # Idle /\ i.sub = s /\ j.kind = i.kind /\ Manages(i))
  BY <1>1, <1>4, <1>5, IdleIsJob DEF Progresses, Follows
<1>10. Manages(i) /\ Asked(i) /\ i.sub = s => u # {} \/ i.entity.status = now
  BY <1>6, <1>9 DEF StatusOf
<1>11. \A f, g \in Handlers : news[f].sub = s /\ news[g].sub = s => f = g
  <2>1. \A g \in Handlers : news[g].sub = s => jobs[g].sub = s
    BY <1>8, <1>9
  <2> QED
    BY <1>6, <2>1 DEF StatusOf
<1>12. row2 # "NONE" => u # {} \/ row2 = now \/ \E g \in Handlers : Applies(news[g], s)
  <2>1. CASE rows'[s] # rows[s]
    <3>1. s = i.sub /\ Manages(i) /\ Asked(i) /\ row2 = i.entity.status
      BY <1>7, <2>1 DEF Progresses, Writes
    <3> QED
      BY <1>10, <3>1
  <2>2. CASE rows'[s] = rows[s]
    <3>1. row2 = row
      BY <1>3, <1>7, <2>2
    <3>2. ASSUME NEW g \in Handlers, Applies(jobs[g], s), g # h PROVE Applies(news[g], s)
      BY <1>8, <3>2 DEF Applies, Webhook
    <3>3. ASSUME Applies(i, s) PROVE u # {} \/ row2 = now
      <4>1. Webhook(i) /\ i.todo # <<>> /\ i.todo[1] = "apply" /\ i.sub = s /\ Asked(i)
        BY <3>3 DEF Applies, Asked
      <4>2. rows'[s].status = i.entity.status
        BY <4>1 DEF Progresses
      <4>3. Manages(i)
        BY DEF Progresses
      <4> QED
        BY <1>7, <1>10, <4>1, <4>2, <4>3
    <3> QED
      BY <1>6, <1>9, <3>1, <3>2, <3>3 DEF StatusOf
  <2> QED
    BY <2>1, <2>2
<1>13. \A g \in Handlers : news[g].sub = s /\ Manages(news[g]) /\ Asked(news[g]) => u # {} \/ news[g].entity.status = now
  <2>1. ASSUME NEW g \in Handlers, g # h, news[g].sub = s, Manages(news[g]), Asked(news[g])
        PROVE  u # {} \/ news[g].entity.status = now
    BY <1>6, <1>8, <2>1 DEF StatusOf, Manages, Asked
  <2>2. ASSUME j.sub = s PROVE u # {} \/ j.entity.status = now
    <3>1. j # Idle /\ i.sub = s /\ Manages(i)
      BY <1>9, <2>2
    <3>2. CASE Asked(i) /\ j.entity = i.entity
      BY <1>10, <3>1, <3>2
    <3>3. CASE j.entity = remote[i.sub]
      BY <1>3, <3>1, <3>3
    <3> QED
      BY <3>1, <3>2, <3>3 DEF Progresses
  <2> QED
    BY <1>9, <2>1, <2>2
<1>14. \A g \in Handlers : news[g].sub = s /\ news[g].kind = "checkout" => u # {} \/ now = "CREATED"
  <2>1. ASSUME NEW g \in Handlers, news[g].sub = s, news[g].kind = "checkout" PROVE g # h
    BY <1>9, <2>1 DEF Manages
  <2> QED
    BY <1>6, <1>8, <2>1 DEF StatusOf
<1>15. StatusOf(s, u, now, row2, news)
  BY <1>6, <1>11, <1>12, <1>13, <1>14 DEF StatusOf
<1>16. u = Unseen(s)' /\ now = remote'[s].status
  BY <1>1, <1>2, <1>3
<1> QED
  BY <1>5, <1>7, <1>15, <1>16, StatusPrimed

LEMMA CreateStatus ==
  ASSUME BaseInv, BaseInv', StatusInv, NEW h \in Handlers, NEW q \in Subs, NEW j \in Job, Create(h), Creates(h, q, j)
  PROVE  StatusInv'
<1> SUFFICES ASSUME NEW s \in Subs \ (lost' \cup disordered') PROVE StatusOK(s)'
  BY DEF StatusInv
<1>1. UNCHANGED <<rows, events, seen, lost, disordered>>
  BY DEF Create, tables, rowVars, history
<1>2. /\ job'[h] = j /\ \A g \in Handlers \ {h} : job'[g] = job[g]
      /\ \A t \in Subs \ {q} : remote'[t] = remote[t]
      /\ remote'[q].status = "CREATED"
      /\ j.sub = q /\ j.kind = "checkout" /\ job[h].kind = "checkout" /\ remote[q].status = "NONE"
  BY DEF Creates, Goes, BaseInv, Typed, NoRemote
<1>3. Unseen(s)' = Unseen(s)
  BY <1>1 DEF Unseen
<1>4. CASE s # q
  <2>1. \A g \in Handlers : job'[g].sub = s => Same(job[g], job'[g])
    BY <1>2, <1>4 DEF Same
  <2>2. \A g \in Handlers : Applies(job[g], s) => Same(job[g], job'[g])
    BY <1>2 DEF Applies, Webhook, EventTypes, Same
  <2>3. StatusOK(s) /\ remote'[s].status = remote[s].status /\ rows'[s].status = rows[s].status
    BY <1>1, <1>2, <1>4 DEF StatusInv
  <2> QED
    BY <1>3, <2>1, <2>2, <2>3, StatusKept
<1>5. CASE s = q
  <2>1. rows[s].status = "NONE" /\ (\A g \in Handlers : job[g].sub # s) /\ Unseen(s) = {}
    BY <1>2, <1>5 DEF BaseInv, UnpaidOK, Unpaid, Unseen
  <2>2. PICK u, now, row, jobs : u = Unseen(s)' /\ now = remote'[s].status /\ row = rows'[s].status /\ jobs = job'
    OBVIOUS
  <2>3. u = {} /\ now = "CREATED" /\ row = "NONE"
    BY <1>1, <1>2, <1>3, <1>5, <2>1, <2>2
  <2>4. \A g \in Handlers : jobs[g].sub = s => g = h /\ jobs[g] = j
    BY <1>2, <2>1, <2>2
  <2>5. StatusOf(s, u, now, row, jobs)
    BY <1>2, <2>3, <2>4 DEF StatusOf, Manages
  <2> QED
    BY <2>2, <2>5, StatusPrimed
<1> QED
  BY <1>4, <1>5

LEMMA InsertStatus ==
  ASSUME BaseInv, BaseInv', StatusInv, NEW h \in Handlers, NEW q \in Subs, Inserts(h, q)
  PROVE  StatusInv'
<1> SUFFICES ASSUME NEW s \in Subs \ (lost' \cup disordered') PROVE StatusOK(s)'
  BY DEF StatusInv
<1>1. UNCHANGED <<remote, events, seen, lost, disordered>>
  BY DEF Inserts, history
<1>2. /\ job'[h] = Idle /\ \A g \in Handlers \ {h} : job'[g] = job[g]
      /\ \A t \in Subs \ {q} : rows'[t] = rows[t]
      /\ rows'[q].status = "CREATED"
      /\ job[h].kind = "checkout" /\ job[h].sub = q /\ s # 0
  BY DEF Inserts, Goes, BaseInv, Typed, Subs
<1>3. Unseen(s)' = Unseen(s)
  BY <1>1 DEF Unseen
<1>4. \A g \in Handlers : job'[g].sub = s => Same(job[g], job'[g])
  BY <1>2, IdleIsJob DEF Same
<1>5. \A g \in Handlers : Applies(job[g], s) => Same(job[g], job'[g])
  BY <1>2 DEF Applies, Webhook, EventTypes, Same
<1>6. StatusOK(s) /\ remote'[s].status = remote[s].status
  BY <1>1 DEF StatusInv
<1>7. CASE s # q
  <2>1. rows'[s].status = rows[s].status
    BY <1>2, <1>7
  <2> QED
    BY <1>3, <1>4, <1>5, <1>6, <2>1, StatusKept
<1>8. CASE s = q
  <2>1. PICK u, now, row : u = Unseen(s) /\ now = remote[s].status /\ row = rows[s].status
    OBVIOUS
  <2>2. PICK jobs \in [Handlers -> Job] : jobs = job
    BY DEF BaseInv, Typed
  <2>3. PICK news \in [Handlers -> Job] : news = job'
    BY DEF BaseInv, Typed
  <2>4. StatusOf(s, u, now, row, jobs)
    BY <1>6, <2>1, <2>2 DEF StatusOK
  <2>5. StatusOf(s, u, now, row, news)
    <3>1. \A g \in Handlers : news[g].sub = s => Same(jobs[g], news[g])
      BY <1>4, <2>2, <2>3
    <3>2. \A g \in Handlers : Applies(jobs[g], s) => Same(jobs[g], news[g])
      BY <1>5, <2>2, <2>3
    <3> QED
      BY <2>4, <3>1, <3>2, JobsKept
  <2>6. u # {} \/ now = "CREATED"
    BY <1>2, <1>8, <2>2, <2>4 DEF StatusOf
  <2>7. StatusOf(s, u, now, "CREATED", news)
    BY <2>5, <2>6 DEF StatusOf
  <2>8. u = Unseen(s)' /\ now = remote'[s].status /\ "CREATED" = rows'[s].status
    BY <1>1, <1>2, <1>3, <1>8, <2>1
  <2> QED
    BY <2>3, <2>7, <2>8, StatusPrimed
<1> QED
  BY <1>7, <1>8

\* A request begins on subscription q, or on none, and has nothing yet from Razorpay; or one ends.
LEMMA StartStatus ==
  ASSUME BaseInv, BaseInv', StatusInv, NEW h \in Handlers, job[h].kind \in {"none", "checkout"}, NEW j, Goes(h, j),
         j = Idle \/ (j.kind = "checkout" /\ j.sub = 0)
           \/ (Manages(j) /\ ~Asked(j) /\ j.sub \in Subs /\ (Busy(j.sub) => j.sub \in disordered')),
         UNCHANGED <<rows, remote, events, seen, lost>>, disordered \subseteq disordered'
  PROVE  StatusInv'
<1> SUFFICES ASSUME NEW s \in Subs \ (lost' \cup disordered') PROVE StatusOK(s)'
  BY DEF StatusInv
<1>2. job'[h] = j /\ (\A g \in Handlers \ {h} : job'[g] = job[g]) /\ s # 0
  BY DEF Goes, BaseInv, Typed, Subs
<1>3. Unseen(s)' = Unseen(s)
  BY DEF Unseen
<1>4. \A g \in Handlers : Applies(job[g], s) => Same(job[g], job'[g])
  BY <1>2 DEF Applies, Webhook, EventTypes, Same
<1>5. StatusOK(s) /\ remote'[s].status = remote[s].status /\ rows'[s].status = rows[s].status
  BY DEF StatusInv
<1>6. CASE j.sub # s
  <2>1. \A g \in Handlers : job'[g].sub = s => Same(job[g], job'[g])
    BY <1>2, <1>6 DEF Same
  <2> QED
    BY <1>3, <1>4, <1>5, <2>1, StatusKept
<1>7. CASE j.sub = s
  <2>1. Manages(j) /\ ~Asked(j) /\ \A g \in Handlers : job[g].sub # s
    BY <1>2, <1>7, IdleIsJob DEF Busy
  <2>2. PICK u, now, row : u = Unseen(s) /\ now = remote[s].status /\ row = rows[s].status
    OBVIOUS
  <2>3. PICK jobs, news : jobs = job /\ news = job'
    OBVIOUS
  <2>4. StatusOf(s, u, now, row, jobs)
    BY <1>5, <2>2, <2>3 DEF StatusOK
  <2>5. \A g \in Handlers : news[g].sub = s => g = h /\ news[g] = j
    BY <1>2, <2>1, <2>3
  <2>6. \A g \in Handlers : ~Applies(jobs[g], s)
    BY <2>1, <2>3 DEF Applies
  <2>7. StatusOf(s, u, now, row, news)
    BY <2>1, <2>4, <2>5, <2>6 DEF StatusOf, Manages
  <2>8. u = Unseen(s)' /\ now = remote'[s].status /\ row = rows'[s].status
    BY <1>3, <1>5, <2>2
  <2> QED
    BY <2>3, <2>7, <2>8, StatusPrimed
<1> QED
  BY <1>6, <1>7

LEMMA DuplicateStatus ==
  ASSUME BaseInv, BaseInv', StatusInv, NEW e \in events, Duplicate(e) \/ DedupeFails(e)
  PROVE  StatusInv'
<1> SUFFICES ASSUME NEW s \in Subs \ (lost' \cup disordered') PROVE StatusOK(s)'
  BY DEF StatusInv
<1>1. /\ UNCHANGED <<rows, remote, job, seen, disordered>> /\ events' = events \ {e} /\ lost \subseteq lost'
      /\ e.id \in seen \/ e.sub \in lost'
  BY DEF Duplicate, DedupeFails, Accepted, tables, rowVars, history
<1>2. Unseen(s)' = Unseen(s)
  BY <1>1 DEF Unseen
<1>3. StatusOK(s) /\ remote'[s].status = remote[s].status /\ rows'[s].status = rows[s].status
  BY <1>1 DEF StatusInv
<1>4. \A g \in Handlers : Same(job[g], job'[g])
  BY <1>1 DEF Same
<1> QED
  BY <1>2, <1>3, <1>4, StatusKept

LEMMA TellsStatus ==
  ASSUME BaseInv, BaseInv', StatusInv, NEW q \in Subs, NEW type \in EventTypes, NEW r \in Entity, Tells(q, type, r)
  PROVE  StatusInv'
<1> SUFFICES ASSUME NEW s \in Subs \ (lost' \cup disordered') PROVE StatusOK(s)'
  BY DEF StatusInv
<1>1. PICK e : e = [id |-> sent + 1, sub |-> q, type |-> type, entity |-> r]
  OBVIOUS
<1>2. /\ UNCHANGED <<rows, job, seen, lost, disordered>> /\ events' = events \cup {e}
      /\ remote' = [remote EXCEPT ![q] = r]
  BY <1>1 DEF Tells, Tell, tables, rowVars
<1>3. e.sub = q /\ e.entity = r /\ e.id = sent + 1 /\ e.id \notin seen /\ \A f \in events : f.id <= e.id
  BY <1>1 DEF BaseInv, Typed, EventsOK, Event
<1>4. StatusOK(s) /\ (\A g \in Handlers : Same(job[g], job'[g]))
  BY <1>2 DEF StatusInv, Same
<1>5. CASE s # q
  <2>1. Unseen(s)' = Unseen(s) /\ remote'[s] = remote[s]
    BY <1>2, <1>3, <1>5 DEF Unseen, BaseInv, Typed
  <2> QED
    BY <1>2, <1>4, <2>1, StatusKept
<1>6. CASE s = q
  <2>1. PICK u, now, row, jobs : u = Unseen(s)' /\ now = remote'[s].status /\ row = rows'[s].status /\ jobs = job'
    OBVIOUS
  <2>2. e \in u /\ now = r.status /\ \A f \in u : f = e \/ f \in events
    BY <1>2, <1>3, <1>6, <2>1 DEF Unseen, BaseInv, Typed
  <2>3. \A f \in u : f.id <= e.id
    BY <1>3, <2>2 DEF BaseInv, Typed
  <2>4. \A f, g \in Handlers : jobs[f].sub = s /\ jobs[g].sub = s => f = g
    BY <1>2, <1>4, <2>1 DEF StatusOK, StatusOf
  <2>5. StatusOf(s, u, now, row, jobs)
    BY <1>3, <2>2, <2>3, <2>4 DEF StatusOf
  <2> QED
    BY <2>1, <2>5, StatusPrimed
<1> QED
  BY <1>5, <1>6

LEMMA EventStatus ==
  ASSUME BaseInv, BaseInv', StatusInv, NEW h \in Handlers, NEW e \in events, ReceiveEvent(h, e)
  PROVE  StatusInv'
<1> SUFFICES ASSUME NEW s \in Subs \ (lost' \cup disordered') PROVE StatusOK(s)'
  BY DEF StatusInv
<1>1. /\ UNCHANGED <<rows, remote>> /\ seen' = seen \cup {e.id} /\ e.id \notin seen
      /\ lost \subseteq lost' /\ disordered \subseteq disordered' /\ job[h] = Idle
  BY DEF ReceiveEvent, Accepted, rowVars
<1>2. /\ \A f \in events : f.id = e.id => f = e
      /\ \A f \in events : f.id \in Nat
      /\ e \in Event /\ job \in [Handlers -> Job] /\ s # 0
  BY DEF BaseInv, EventsOK, Typed, Event, Subs
<1>3. StatusOK(s) /\ remote'[s].status = remote[s].status /\ rows'[s].status = rows[s].status
  BY <1>1 DEF StatusInv
<1>4. CASE rows[e.sub] = NoRow
  <2>1. events' = events \ {e} /\ e.sub \in lost' /\ job' = job
    BY <1>4 DEF ReceiveEvent
  <2>2. Unseen(s)' = Unseen(s)
    BY <1>1, <1>2, <2>1 DEF Unseen
  <2>3. \A g \in Handlers : Same(job[g], job'[g])
    BY <2>1 DEF Same
  <2> QED
    BY <1>3, <2>2, <2>3, StatusKept
<1>5. CASE rows[e.sub] # NoRow
  <2>1. PICK j \in Job :
           /\ Goes(h, j) /\ j.kind = e.type /\ j.sub = e.sub /\ j.entity = e.entity /\ j.event = e.id
           /\ j.todo # <<>> /\ j.todo[1] = "apply"
    BY <1>5, EventFacts
  <2>2. /\ events' = events /\ job'[h] = j /\ \A g \in Handlers \ {h} : job'[g] = job[g]
        /\ e.sub \notin disordered' => ~Busy(e.sub) /\ \A f \in events : ~(f.sub = e.sub /\ f.id < e.id)
    BY <1>2, <1>5, <2>1 DEF ReceiveEvent, Goes
  <2>3. CASE s # e.sub
    <3>1. Unseen(s)' = Unseen(s)
      BY <1>1, <1>2, <2>2, <2>3 DEF Unseen
    <3>2. \A g \in Handlers : job'[g].sub = s => Same(job[g], job'[g])
      BY <2>1, <2>2, <2>3 DEF Same
    <3>3. \A g \in Handlers : Applies(job[g], s) => Same(job[g], job'[g])
      BY <1>1, <1>2, <2>2, IdleIsJob DEF Same, Applies
    <3> QED
      BY <1>3, <3>1, <3>2, <3>3, StatusKept
  <2>4. CASE s = e.sub
    <3>1. (\A g \in Handlers : job[g].sub # s) /\ \A f \in events : ~(f.sub = s /\ f.id < e.id)
      BY <2>2, <2>4 DEF Busy
    <3>2. PICK u, now : u = Unseen(s) /\ now = remote[s].status
      OBVIOUS
    <3>3. e \in u /\ (\A f \in u : f \in events /\ f.sub = s)
      BY <1>1, <2>4, <3>2 DEF Unseen
    <3>4. PICK m \in u : m.entity.status = now /\ \A f \in u : f.id <= m.id
      BY <1>3, <3>2, <3>3 DEF StatusOK, StatusOf
    <3>5. PICK v, row, jobs : v = Unseen(s)' /\ row = rows'[s].status /\ jobs = job'
      OBVIOUS
    <3>6. v = u \ {e}
      BY <1>1, <1>2, <2>2, <3>2, <3>5 DEF Unseen
    <3>7. m = e => v = {} /\ e.entity.status = now
      <4>1. ASSUME m = e, NEW f \in v PROVE FALSE
        <5>1. f.id <= e.id /\ f # e /\ f \in events /\ f.sub = s
          BY <3>3, <3>4, <3>6, <4>1
        <5>2. f.id # e.id /\ f.id \in Nat /\ e.id \in Nat
          BY <1>2, <5>1
        <5>3. f.id < e.id
          BY <5>1, <5>2
        <5> QED
          BY <3>1, <5>1, <5>3
      <4> QED
        BY <3>4, <4>1
    <3>8. v # {} => m \in v
      BY <3>4, <3>6, <3>7
    <3>9. Applies(j, s) /\ j.kind # "checkout"
      BY <1>2, <2>1, <2>4 DEF Applies, Webhook, Event, EventTypes
    <3>10. \A g \in Handlers : jobs[g].sub = s => g = h /\ jobs[g] = j
      BY <2>2, <3>1, <3>5
    <3>11. jobs[h] = j
      BY <2>2, <3>5
    <3>12. v # {} => \E d \in v : d.entity.status = now /\ \A f \in v : f.id <= d.id
      BY <3>4, <3>6, <3>8
    <3>13. v # {} \/ j.entity.status = now
      BY <2>1, <3>4, <3>6, <3>7
    <3>14. StatusOf(s, v, now, row, jobs)
      BY <3>9, <3>10, <3>11, <3>12, <3>13 DEF StatusOf
    <3> QED
      BY <1>1, <3>2, <3>5, <3>14, StatusPrimed
  <2> QED
    BY <2>3, <2>4
<1> QED
  BY <1>4, <1>5

LEMMA InitStatus ==
  Init => StatusInv
<1> SUFFICES ASSUME Init, NEW s \in Subs PROVE StatusOK(s)
  BY DEF StatusInv
<1>1. Unseen(s) = {} /\ rows[s].status = "NONE" /\ \A h \in Handlers : job[h] = Idle
  BY DEF Init, Unseen, NoRow
<1>2. \A h \in Handlers : job[h].sub # s
  BY <1>1, IdleIsJob DEF Subs
<1> QED
  BY <1>1, <1>2 DEF StatusOK, StatusOf

LEMMA NextStatus ==
  ASSUME BaseInv, StatusInv, [Next]_vars
  PROVE  StatusInv'
<1>0. BaseInv'
  BY NextBase
<1>1. ASSUME UNCHANGED <<rows, remote, job, seen, events, lost, disordered>> PROVE StatusInv'
  <2> SUFFICES ASSUME NEW s \in Subs \ (lost' \cup disordered') PROVE StatusOK(s)'
    BY DEF StatusInv
  <2>1. Unseen(s)' = Unseen(s) /\ StatusOK(s) /\ \A g \in Handlers : Same(job[g], job'[g])
    BY <1>1 DEF Unseen, StatusInv, Same
  <2> QED
    BY <1>0, <1>1, <2>1, StatusKept
<1>2. CASE UNCHANGED vars
  BY <1>1, <1>2 DEF vars, tables, rowVars, razorpay, history
<1>5. ASSUME NEW h \in Handlers, RequestFails(h), ~Manages(job[h]) PROVE StatusInv'
  <2>1. /\ job[h].kind = "checkout" /\ Goes(h, Idle)
        /\ UNCHANGED <<rows, remote, events, seen, lost>> /\ disordered \subseteq disordered'
    BY <1>5, StopFacts
  <2> QED
    BY <1>0, <2>1, StartStatus
<1>6. ASSUME NEW h \in Handlers, ReceiveCheckout(h) PROVE StatusInv'
  <2>1. PICK j : Goes(h, j) /\ j.kind = "checkout" /\ j.sub = 0
    BY <1>6, CheckoutFacts
  <2>2. /\ job[h].kind = "none"
        /\ UNCHANGED <<rows, remote, events, seen, lost>> /\ disordered \subseteq disordered'
    BY <1>6, IdleIsJob DEF ReceiveCheckout, tables, rowVars
  <2> QED
    BY <1>0, <2>1, <2>2, StartStatus
<1>7. ASSUME NEW h \in Handlers, ReceiveCancel(h) PROVE StatusInv'
  <2>1. PICK j \in Job, s \in Subs :
          /\ Goes(h, j) /\ j.kind = "cancel" /\ j.sub = s /\ j.todo[1] = "cancel"
          /\ disordered' = IF Busy(s) THEN disordered \cup {s} ELSE disordered
    BY <1>7, ReceiveCancelFacts
  <2>2. /\ job[h].kind = "none"
        /\ UNCHANGED <<rows, remote, events, seen, lost>> /\ disordered \subseteq disordered'
    BY <1>7, <2>1, IdleIsJob DEF ReceiveCancel, tables, rowVars, razorpay
  <2>3. Manages(j) /\ ~Asked(j) /\ j.sub \in Subs /\ (Busy(j.sub) => j.sub \in disordered')
    BY <2>1 DEF Manages, Asked
  <2> QED
    BY <1>0, <2>1, <2>2, <2>3, StartStatus
<1>8. ASSUME NEW h \in Handlers, NEW s \in Subs, ReceiveVerify(h, s) PROVE StatusInv'
  <2>1. PICK j \in Job : Goes(h, j) /\ j.kind = "verify" /\ j.sub = s /\ j.todo[1] = "fetch"
    BY <1>8, VerifyFacts
  <2>2. /\ job[h].kind = "none" /\ disordered' = IF Busy(s) THEN disordered \cup {s} ELSE disordered
        /\ UNCHANGED <<rows, remote, events, seen, lost>>
    BY <1>8, IdleIsJob DEF ReceiveVerify, tables, rowVars
  <2>3. Manages(j) /\ ~Asked(j) /\ j.sub \in Subs /\ (Busy(j.sub) => j.sub \in disordered')
    BY <2>1, <2>2 DEF Manages, Asked
  <2>4. disordered \subseteq disordered'
    BY <2>2
  <2> QED
    BY <1>0, <2>1, <2>2, <2>3, <2>4, StartStatus
<1>9. ASSUME (\E s \in Subs : PeriodEnds(s)) \/ MakeEnterprise PROVE StatusInv'
  BY <1>1, <1>9 DEF PeriodEnds, MakeEnterprise, tables, rowVars, razorpay, history
<1>10. CASE Next
  BY <1>0, <1>5, <1>6, <1>7, <1>8, <1>9, <1>10, NextIs, ProgressStatus, CreateStatus, InsertStatus,
     EventStatus, DuplicateStatus, TellsStatus
<1> QED
  BY <1>2, <1>10

\* When every event has been answered, a row says what Razorpay says and every charge is
\* recorded, but for lost events and, for the status, disorder: applySubscriptionEntity
\* and recordBillingPayment.
THEOREM RowsFollowHolds ==
  Spec => []RowsFollowRazorpay
<1>1. BaseInv /\ StatusInv /\ PaymentInv => RowsFollowRazorpay
  <2> SUFFICES ASSUME BaseInv, StatusInv, PaymentInv, AtRest, events = {}, NEW s \in Subs \ lost, rows[s] # NoRow
               PROVE  /\ s \notin disordered => rows[s].status = remote[s].status
                      /\ \A n \in 1 .. remote[s].end : <<s, n>> \in payments
    BY DEF RowsFollowRazorpay
  <2>1. rows[s].status # "NONE"
    BY DEF BaseInv, MadeOK
  <2>2. ASSUME s \notin disordered PROVE rows[s].status = remote[s].status
    <3>1. StatusOf(s, Unseen(s), remote[s].status, rows[s].status, job)
      BY <2>2 DEF StatusInv, StatusOK
    <3>2. Unseen(s) = {}
      BY DEF Unseen
    <3>3. \A h \in Handlers : ~Applies(job[h], s)
      BY IdleIsJob DEF AtRest, Applies
    <3> QED
      BY <2>1, <3>1, <3>2, <3>3 DEF StatusOf
  <2>3. \A n : ~Charged(s, n)
    BY DEF Charged
  <2> QED
    BY <2>2, <2>3 DEF PaymentInv
<1>2. StatusInv /\ PaymentInv /\ BaseInv /\ [Next]_vars => StatusInv' /\ PaymentInv' /\ BaseInv'
  BY NextStatus, NextPayment, NextBase
<1> QED
  BY <1>1, <1>2, InitBase, InitStatus, InitPayment, PTL DEF Spec

----------------------------------------------------------------------------
(* LiveInv: what a checkout at work has found, and what Razorpay resumes.  *)

LEMMA CheckoutKind ==
  ASSUME NEW j \in Job, StepsOK(j), j.todo # <<>>, j.todo[1] \in {"create", "insert"}
  PROVE  j.kind = "checkout"
<1>1. j.todo \in Seq(Steps) /\ Len(j.todo) \in Nat /\ Len(j.todo) >= 1
  BY DoneFacts DEF Job
<1>2. Has(j, "create") \/ Has(j, "insert")
  BY <1>1 DEF Has
<1> QED
  BY <1>2 DEF StepsOK

LEMMA LiveKept ==
  ASSUME LiveInv, doubled => doubled',
         \A g \in Handlers : job'[g].kind = "checkout" => job[g].kind = "checkout",
         \A g \in Handlers : At(g, "create")' => At(g, "create"),
         \A s \in Subs : Viable(s)' => Viable(s)
  PROVE  LiveInv'
BY DEF LiveInv

\* A request that is no checkout, or that is over, makes nothing viable.
LEMMA SameLive ==
  ASSUME BaseInv, BaseInv', LiveInv, doubled => doubled', NEW h \in Handlers,
         job'[h].kind # "checkout", \A g \in Handlers \ {h} : Same(job[g], job'[g]),
         \A s \in Subs : \/ remote'[s].status = remote[s].status
                         \/ remote'[s].status \notin Live \cup Unpaid
                         \/ Viable(s),
         \A s \in Subs : rows'[s].status = rows[s].status \/ remote'[s].status # "CREATED" \/ Viable(s)
  PROVE  LiveInv'
<1>1. \A g \in Handlers : job[g] \in Job /\ job'[g] \in Job /\ StepsOK(job[g]) /\ StepsOK(job'[g])
  BY DEF BaseInv, Typed, JobsOK
<1>2. \A g \in Handlers \ {h} :
        job'[g].todo = job[g].todo /\ job'[g].kind = job[g].kind /\ job'[g].sub = job[g].sub
  BY <1>1, SameFacts
<1>3. \A g \in Handlers : job'[g].todo # <<>> /\ job'[g].todo[1] \in {"create", "insert"} => g # h
  BY <1>1, CheckoutKind
<1>4. ASSUME NEW s \in Subs, Viable(s)' PROVE Viable(s)
  BY <1>2, <1>3, <1>4 DEF Viable, At, Unpaid
<1>5. \A g \in Handlers : At(g, "create")' => At(g, "create")
  BY <1>2, <1>3 DEF At
<1> QED
  BY <1>2, <1>4, <1>5, LiveKept

LEMMA ProgressLive ==
  ASSUME BaseInv, LiveInv, NEW h \in Handlers, NEW i, NEW j, Progresses(h, i, j)
  PROVE  LiveInv'
<1>1. /\ i = job[h] /\ j \in Job /\ Manages(i) /\ Follows(i, j) /\ Writes(i)
      /\ job'[h] = j /\ (\A g \in Handlers \ {h} : Same(job[g], job'[g]))
      /\ remote' = remote /\ doubled' = doubled
  BY DEF Progresses, Moves
<1>2. BaseInv'
  BY ProgressBase
<1>3. j.kind # "checkout"
  BY <1>1, IdleIsJob DEF Follows, Manages
<1>4. i.sub \in Subs /\ remote[i.sub].status \notin Unpaid
  BY <1>1 DEF BaseInv, JobsOK, KnowsOK
<1>5. \A s \in Subs : rows'[s].status = rows[s].status \/ remote'[s].status # "CREATED"
  BY <1>1, <1>4 DEF Writes, Unpaid
<1> QED
  BY <1>1, <1>2, <1>3, <1>5, SameLive

LEMMA CreateLive ==
  ASSUME BaseInv, BaseInv', LiveInv, NEW h \in Handlers, NEW q \in Subs, NEW j \in Job, Create(h), Creates(h, q, j)
  PROVE  LiveInv'
<1> SUFFICES ASSUME ~doubled PROVE LiveInv'
  BY DEF Create, history, LiveInv
<1>1. /\ job'[h] = j /\ (\A g \in Handlers \ {h} : job'[g] = job[g]) /\ UNCHANGED rows
      /\ j.sub = q /\ j.todo = <<"insert">> /\ job[h].kind = "checkout" /\ At(h, "create")
      /\ \A s \in Subs \ {q} : remote'[s] = remote[s]
  BY DEF Create, Creates, Goes, tables, rowVars, BaseInv, Typed
<1>2. \A g \in Handlers : job[g] \in Job /\ StepsOK(job[g])
  BY DEF BaseInv, Typed, JobsOK
<1>3. ASSUME NEW s \in Subs, Viable(s)' PROVE s = q
  <2> SUFFICES ASSUME s # q PROVE FALSE
    OBVIOUS
  <2>1. \A g \in Handlers : At(g, "insert")' /\ job'[g].sub = s => At(g, "insert") /\ job[g].sub = s
    BY <1>1 DEF At
  <2>2. Viable(s)
    BY <1>1, <1>3, <2>1 DEF Viable
  <2> QED
    BY <1>1, <2>2 DEF LiveInv
<1>4. \A g \in Handlers \ {h} : job[g].kind # "checkout"
  BY <1>1 DEF LiveInv
<1>5. \A g \in Handlers : ~At(g, "create")'
  <2> SUFFICES ASSUME NEW g \in Handlers, At(g, "create")' PROVE FALSE
    OBVIOUS
  <2>1. g # h /\ At(g, "create")
    BY <1>1 DEF At
  <2> QED
    BY <1>2, <1>4, <2>1, CheckoutKind DEF At
<1> QED
  BY <1>1, <1>3, <1>4, <1>5 DEF LiveInv

LEMMA InsertLive ==
  ASSUME BaseInv, BaseInv', LiveInv, NEW h \in Handlers, NEW q \in Subs, Inserts(h, q)
  PROVE  LiveInv'
<1>1. /\ job'[h] = Idle /\ (\A g \in Handlers \ {h} : job'[g] = job[g]) /\ remote' = remote /\ doubled' = doubled
      /\ \A s \in Subs \ {q} : rows'[s] = rows[s]
  BY DEF Inserts, Goes, BaseInv, Typed, history
<1>2. remote[q].status # "CREATED" \/ Viable(q)
  BY DEF Inserts, Viable
<1>3. job'[h].kind # "checkout" /\ \A g \in Handlers \ {h} : Same(job[g], job'[g])
  BY <1>1, IdleIsJob DEF Same
<1>4. \A s \in Subs : rows'[s].status = rows[s].status \/ remote'[s].status # "CREATED" \/ Viable(s)
  BY <1>1, <1>2
<1> QED
  BY <1>1, <1>3, <1>4, SameLive

LEMMA CheckoutLive ==
  ASSUME BaseInv, BaseInv', LiveInv, NEW h \in Handlers, ReceiveCheckout(h)
  PROVE  LiveInv'
<1> SUFFICES ASSUME ~doubled' PROVE LiveInv'
  BY DEF LiveInv
<1>1. PICK j \in Job : Goes(h, j) /\ j.todo = <<"create", "insert">>
  BY CheckoutFacts
<1>2. /\ ~CheckingOut /\ (\A r \in Subs : ~(rows[r].status = "PAUSED" /\ remote[r].status \in Live))
      /\ LastIn(made, Subscribed) = 0 /\ UNCHANGED <<rows, remote>>
  BY DEF ReceiveCheckout, tables, rowVars
<1>3. job'[h] = j /\ \A g \in Handlers \ {h} : job'[g] = job[g]
  BY <1>1 DEF Goes, BaseInv, Typed
<1>4. \A s \in Subs : rows[s].status \notin Subscribed
  <2>1. \A i \in 1 .. Len(made) : rows[made[i]].status \notin Subscribed
    BY <1>2, LastInFacts DEF BaseInv, Typed
  <2> QED
    BY <2>1 DEF BaseInv, MadeOK, Subscribed
<1>5. \A g \in Handlers : job[g] \in Job /\ StepsOK(job[g])
  BY DEF BaseInv, Typed, JobsOK
<1>6. \A g \in Handlers : ~At(g, "insert")'
  <2> SUFFICES ASSUME NEW g \in Handlers, At(g, "insert")' PROVE FALSE
    OBVIOUS
  <2>1. g # h /\ At(g, "insert")
    BY <1>1, <1>3 DEF At
  <2> QED
    BY <1>2, <1>5, <2>1, CheckoutKind DEF At, CheckingOut
<1>7. ASSUME NEW s \in Subs PROVE ~Viable(s)'
  <2>1. rows[s].status \in Statuses \cup {"NONE"}
    BY DEF BaseInv, Typed, Row
  <2>2. CASE remote[s].status \in Live
    <3>1. rows[s].status # "NONE"
      BY <2>2 DEF BaseInv, UnpaidOK
    <3>2. rows[s].status \notin Terminal
      BY <2>2 DEF BaseInv, EndedOK, Live, Good, Terminal
    <3>3. rows[s].status = "PAUSED"
      BY <1>4, <2>1, <3>1, <3>2 DEF Statuses, Good, Dead, Subscribed, Terminal
    <3> QED
      BY <1>2, <2>2, <3>3
  <2>3. CASE remote[s].status \notin Live
    <3>1. remote[s].status = "CREATED" => rows[s].status \in Unpaid
      BY DEF BaseInv, UnpaidOK, Unpaid
    <3>2. remote[s].status = "CREATED" => rows[s].status = "NONE"
      BY <1>4, <3>1 DEF Unpaid, Subscribed
    <3> QED
      BY <1>2, <1>6, <2>3, <3>2 DEF Viable
  <2> QED
    BY <2>2, <2>3
<1>8. \A g \in Handlers : job'[g].kind = "checkout" => g = h
  BY <1>2, <1>3 DEF CheckingOut
<1> QED
  BY <1>7, <1>8 DEF LiveInv

\* Razorpay's charges, pauses and cancellations; and resumptions, which doubled tells of.
LEMMA TellsLive ==
  ASSUME BaseInv, BaseInv', LiveInv, NEW q \in Subs, NEW type \in EventTypes, NEW r \in Entity, Tells(q, type, r)
  PROVE  LiveInv'
<1>1. /\ UNCHANGED <<rows, job>> /\ remote'[q] = r /\ (\A s \in Subs \ {q} : remote'[s] = remote[s])
      /\ r.status \notin Unpaid /\ (doubled => doubled')
      /\ remote[q].status = "CREATED" => rows[q].status # "NONE" \/ r.status \in Terminal
  BY DEF Tells, Tell, tables, rowVars, BaseInv, Typed
<1>2. \A g \in Handlers : At(g, "create")' = At(g, "create") /\ At(g, "insert")' = At(g, "insert")
  BY <1>1 DEF At
<1>3. \A s \in Subs \ {q} : Viable(s)' => Viable(s)
  BY <1>1, <1>2 DEF Viable
<1>4. Viable(q)' => r.status \in Live
  BY <1>1 DEF Viable, Unpaid
<1>5. CASE r.status \notin Live \/ remote[q].status \in Live \cup {"CREATED"}
  <2>1. Viable(q)' => Viable(q)
    BY <1>1, <1>4, <1>5 DEF Viable, Live, Good, Terminal
  <2> QED
    BY <1>1, <1>2, <1>3, <2>1, LiveKept
<1>6. CASE doubled'
  BY <1>6 DEF LiveInv
<1>7. CASE /\ ~CheckingOut
           /\ \A s \in Subs \ {q} : rows[s] # NoRow => remote[s].status \notin Live \cup {"CREATED"}
  <2>1. \A g \in Handlers : job[g].kind # "checkout" /\ job[g] \in Job /\ StepsOK(job[g])
    BY <1>7 DEF CheckingOut, BaseInv, Typed, JobsOK
  <2>2. \A g \in Handlers : ~At(g, "create") /\ ~At(g, "insert")
    BY <2>1, CheckoutKind DEF At
  <2>3. \A s \in Subs : remote[s].status \in Live => rows[s].status # "NONE"
    BY DEF BaseInv, UnpaidOK
  <2>4. NoRow.status = "NONE"
    BY DEF NoRow
  <2>5. \A s \in Subs \ {q} : ~Viable(s)
    BY <1>7, <2>2, <2>3, <2>4 DEF Viable
  <2>6. \A s \in Subs : Viable(s)' => s = q
    BY <1>3, <2>5
  <2> QED
    BY <1>1, <1>2, <2>1, <2>2, <2>6 DEF LiveInv
<1> QED
  BY <1>5, <1>6, <1>7 DEF Tells

LEMMA NextLive ==
  ASSUME BaseInv, LiveInv, [Next]_vars
  PROVE  LiveInv'
<1>0. BaseInv'
  BY NextBase
<1>1. ASSUME UNCHANGED <<rows, remote, job, doubled>> PROVE LiveInv'
  BY <1>1 DEF LiveInv, Viable, At
<1>2. CASE UNCHANGED vars
  BY <1>1, <1>2 DEF vars, tables, rowVars, razorpay, history
\* A request that is no checkout begins, or one is over.
<1>3. ASSUME NEW h \in Handlers, NEW j, Goes(h, j), j.kind # "checkout", UNCHANGED <<rows, remote, doubled>>
      PROVE  LiveInv'
  <2>1. job'[h] = j /\ \A g \in Handlers \ {h} : Same(job[g], job'[g])
    BY <1>3 DEF Goes, BaseInv, Typed, Same
  <2> QED
    BY <1>0, <1>3, <2>1, SameLive
<1>4. ASSUME NEW h \in Handlers, RequestFails(h), ~Manages(job[h]) PROVE LiveInv'
  BY <1>3, <1>4, StopFacts, IdleIsJob
<1>5. ASSUME NEW h \in Handlers, ReceiveCancel(h) PROVE LiveInv'
  <2>1. PICK j \in Job : Goes(h, j) /\ j.kind = "cancel"
    BY <1>5, ReceiveCancelFacts
  <2> QED
    BY <1>3, <1>5, <2>1 DEF ReceiveCancel, tables, rowVars, razorpay
<1>6. ASSUME NEW h \in Handlers, NEW s \in Subs, ReceiveVerify(h, s) PROVE LiveInv'
  <2>1. PICK j \in Job : Goes(h, j) /\ j.kind = "verify"
    BY <1>6, VerifyFacts
  <2> QED
    BY <1>3, <1>6, <2>1 DEF ReceiveVerify, tables, rowVars
<1>7. ASSUME NEW h \in Handlers, NEW e \in events, ReceiveEvent(h, e) PROVE LiveInv'
  <2>1. UNCHANGED <<rows, remote, doubled>>
    BY <1>7 DEF ReceiveEvent, rowVars
  <2>2. CASE rows[e.sub] = NoRow
    <3>1. UNCHANGED job
      BY <1>7, <2>2 DEF ReceiveEvent
    <3> QED
      BY <1>1, <2>1, <3>1
  <2>3. CASE rows[e.sub] # NoRow
    <3>1. PICK j \in Job : Goes(h, j) /\ j.kind = e.type
      BY <1>7, <2>3, EventFacts
    <3>2. j.kind # "checkout"
      BY <3>1 DEF BaseInv, Typed, Event, EventTypes
    <3> QED
      BY <1>3, <2>1, <3>1, <3>2
  <2> QED
    BY <2>2, <2>3
<1>8. ASSUME \/ \E e \in events : Duplicate(e) \/ DedupeFails(e)
             \/ \E s \in Subs : PeriodEnds(s)
             \/ MakeEnterprise
      PROVE  LiveInv'
  BY <1>1, <1>8 DEF Duplicate, DedupeFails, PeriodEnds, MakeEnterprise, tables, rowVars, razorpay, history
<1>9. CASE Next
  BY <1>0, <1>4, <1>5, <1>6, <1>7, <1>8, <1>9, NextIs, ProgressLive, CreateLive, InsertLive, CheckoutLive, TellsLive
<1> QED
  BY <1>2, <1>9

\* The user pays for one subscription at a time, unless two checkouts were at work or one
\* did not know of a subscription that is resumed: createRazorpaySubscription refuses one
\* while a row is in force.
THEOREM OneLiveHolds ==
  Spec => []OneLiveSubscription
<1>1. LiveInv => OneLiveSubscription
  BY DEF LiveInv, Viable, OneLiveSubscription
<1>2. Init => LiveInv
  <2> SUFFICES ASSUME Init PROVE LiveInv
    OBVIOUS
  <2>1. \A h \in Handlers : job[h] = Idle
    BY DEF Init
  <2>2. \A s \in Subs : ~Viable(s)
    BY <2>1, IdleIsJob DEF Init, Viable, At, NoRemote, Live, Good
  <2> QED
    BY <2>1, <2>2, IdleIsJob DEF LiveInv, At
<1>3. LiveInv /\ BaseInv /\ [Next]_vars => LiveInv' /\ BaseInv'
  BY NextLive, NextBase
<1> QED
  BY <1>1, <1>2, <1>3, InitBase, PTL DEF Spec

----------------------------------------------------------------------------
(* PlanInv: what changes rows or plan has a sync to come, and a sync that  *)
(* has read before the change is stale.                                    *)

LEMMA FitsPrimed ==
  ASSUME NEW g, NEW p
  PROVE  /\ p = job'[g].plan => (Fits(job[g].plan)' <=> Fits(p)')
         /\ p = plan' => (Fits(plan)' <=> Fits(p)')
BY DEF Fits

\* After its first step a request knows no rows, and still has its other steps.
LEMMA StepDone ==
  ASSUME BaseInv, NEW h \in Handlers, NEW step, step \notin {"create", "insert"}, At(h, step),
         NEW j, j = Next1(h)
  PROVE  /\ j \in Job /\ (j.todo # <<>> => j.todo[1] \notin {"rest", "set"})
         /\ \A x : x # step /\ Has(job[h], x) => Has(j, x)
         /\ step \in BeforeSync => Has(j, "sync")
<1>1. PICK i : i = job[h]
  OBVIOUS
<1>2. Manages(i) /\ i \in Job /\ StepsOK(i) /\ i.todo # <<>> /\ i.todo \in Seq(Steps) /\ i.todo[1] = step
  BY <1>1, AtManages DEF At, Job
<1>3. /\ Len(i.todo) \in Nat /\ Len(i.todo) >= 1 /\ Len(Tail(i.todo)) = Len(i.todo) - 1
      /\ \A n \in 1 .. Len(Tail(i.todo)) : Tail(i.todo)[n] = i.todo[n + 1]
  BY <1>2, DoneFacts
<1>4. /\ j \in Job
      /\ \/ j = Idle /\ Len(i.todo) = 1
         \/ Len(i.todo) # 1 /\ j.todo = Tail(i.todo) /\ j.todo # <<>>
  BY <1>1, <1>2, NextJob
<1>5. ASSUME j.todo # <<>> PROVE j.todo[1] \notin {"rest", "set"}
  <2>1. Len(i.todo) # 1 /\ j.todo = Tail(i.todo)
    BY <1>4, <1>5, IdleIsJob
  <2>2. 1 \in 1 .. Len(i.todo) - 1 /\ 2 \in 1 .. Len(i.todo) /\ 1 + 1 = 2
    <3>1. PICK n \in Nat : n = Len(i.todo) /\ n # 1 /\ n >= 1
      BY <1>3, <2>1
    <3>2. \A m \in Nat : m >= 1 /\ m # 1 => 1 \in 1 .. m - 1 /\ 2 \in 1 .. m /\ 1 + 1 = 2
      OBVIOUS
    <3> QED
      BY <3>1, <3>2
  <2>3. j.todo[1] = i.todo[2]
    BY <1>3, <2>1, <2>2
  <2> QED
    BY <1>2, <2>2, <2>3 DEF StepsOK
<1>6. ASSUME NEW x, x # step, Has(i, x) PROVE Has(j, x)
  <2>1. PICK p \in 1 .. Len(i.todo) : i.todo[p] = x
    BY <1>6 DEF Has
  <2>2. p # 1 /\ p - 1 \in 1 .. Len(i.todo) - 1 /\ (p - 1) + 1 = p /\ Len(i.todo) # 1
    BY <1>2, <1>3, <1>6, <2>1
  <2>3. j.todo = Tail(i.todo)
    BY <1>4, <2>2
  <2>4. p - 1 \in 1 .. Len(j.todo) /\ j.todo[p - 1] = x
    BY <1>3, <2>1, <2>2, <2>3
  <2> QED
    BY <2>4 DEF Has
<1>7. ASSUME step \in BeforeSync PROVE Has(j, "sync")
  <2>1. 1 \in 1 .. Len(i.todo)
    BY <1>3
  <2>2. PICK k \in 1 .. Len(i.todo) : 1 < k /\ i.todo[k] = "sync"
    BY <1>2, <1>7, <2>1 DEF StepsOK
  <2>3. Has(i, "sync") /\ step # "sync"
    BY <1>7, <2>2 DEF Has, BeforeSync
  <2> QED
    BY <1>6, <2>3
<1> QED
  BY <1>1, <1>4, <1>5, <1>6, <1>7

\* What leaves plan and rows alone, and no sync undone.
LEMMA PlanKept ==
  ASSUME BaseInv, PlanInv, plan' = plan, LastIn(touched, Good) = 0 => LastIn(touched, Good)' = 0,
         \A p \in Plans : Fits(p) => Fits(p)',
         unsynced => unsynced',
         \A g \in Handlers : (~At(g, "rest")' /\ ~At(g, "set")') \/ Same(job[g], job'[g]),
         \A g \in Handlers : Owes(g) => Owes(g)' \/ unsynced'
  PROVE  PlanInv'
<1>1. ASSUME NEW g \in Handlers PROVE ReadOK(g)'
  <2> SUFFICES ASSUME At(g, "rest")' \/ At(g, "set")', ~job'[g].stale PROVE ReadOK(g)'
    BY DEF ReadOK
  <2>1. Same(job[g], job'[g]) /\ job[g] \in Job
    BY DEF BaseInv, Typed
  <2>2. PICK k : k = job'[g]
    OBVIOUS
  <2>3. /\ k.todo = job[g].todo /\ k.plan = job[g].plan /\ (job[g].stale => k.stale)
        /\ job[g].plan \in Plans
    BY <2>1, <2>2, SameFacts DEF Job
  <2>4. ReadOK(g) /\ ~job[g].stale /\ (At(g, "rest")' => At(g, "rest")) /\ (At(g, "set")' => At(g, "set"))
    BY <2>2, <2>3 DEF PlanInv, At
  <2>5. At(g, "rest") => LastIn(touched, Good)' = 0 /\ k.plan = plan /\ plan # "ENTERPRISE"
    BY <2>3, <2>4 DEF ReadOK
  <2>6. PICK p \in Plans : p = k.plan
    BY <2>3
  <2>7. At(g, "set") => Fits(p)'
    <3>1. At(g, "set") => Fits(p)
      BY <2>3, <2>4, <2>6 DEF ReadOK
    <3> QED
      BY <3>1
  <2>8. At(g, "set") => Fits(job[g].plan)'
    BY <2>2, <2>6, <2>7, FitsPrimed
  <2> QED
    BY <2>2, <2>4, <2>5, <2>8 DEF ReadOK
<1>2. Fits(plan)' \/ unsynced' \/ plan' = "ENTERPRISE" \/ \E g \in Handlers : Owes(g)'
  <2>1. PICK p \in Plans : p = plan
    BY DEF BaseInv, Typed
  <2>2. Fits(p) => Fits(plan)'
    BY <2>1, FitsPrimed
  <2>3. Fits(plan) => Fits(p)
    BY <2>1
  <2> QED
    BY <2>2, <2>3 DEF PlanInv
<1> QED
  BY <1>1, <1>2 DEF PlanInv

LEMMA SameFits ==
  ASSUME UNCHANGED <<rows, touched, over>>, NEW p
  PROVE  /\ Fits(p)' <=> Fits(p)
         /\ LastIn(touched, Good)' = LastIn(touched, Good)
BY DEF Fits, PaidUp, LastIn

\* A request changes row or plan: it has its sync to come, and what others have read is stale.
LEMMA ChangePlan ==
  ASSUME BaseInv, NEW h \in Handlers, NEW step \in {"apply", "force", "close", "grant"}, At(h, step),
         NEW j, j = Next1(h), Changes(h, j)
  PROVE  PlanInv'
<1>1. j \in Job /\ (j.todo # <<>> => j.todo[1] \notin {"rest", "set"}) /\ Has(j, "sync")
  BY StepDone DEF BeforeSync
<1>2. job'[h] = j
  BY DEF Changes
<1>3. ASSUME NEW g \in Handlers PROVE ReadOK(g)'
  <2>1. CASE g = h
    BY <1>1, <1>2, <2>1 DEF ReadOK, At
  <2>2. CASE g # h /\ (At(g, "rest") \/ At(g, "set"))
    <3>1. job'[g] = [job[g] EXCEPT !.stale = TRUE] /\ job[g] \in Job
      BY <2>2 DEF Changes, BaseInv, Typed
    <3>2. job'[g].stale
      BY <3>1 DEF Job
    <3> QED
      BY <3>2 DEF ReadOK
  <2>3. CASE g # h /\ ~At(g, "rest") /\ ~At(g, "set")
    <3>1. job'[g] = job[g]
      BY <2>3 DEF Changes
    <3> QED
      BY <2>3, <3>1 DEF ReadOK, At
  <2> QED
    BY <2>1, <2>2, <2>3
<1>4. Owes(h)'
  BY <1>1, <1>2 DEF Owes, Syncing
<1> QED
  BY <1>3, <1>4 DEF PlanInv

LEMMA RowPlan ==
  ASSUME BaseInv, NEW h \in Handlers, ForceStatus(h) \/ Close(h) \/ Apply(h) \/ Grant(h)
  PROVE  PlanInv'
<1>1. PICK step \in {"apply", "force", "close", "grant"} : At(h, step)
  BY DEF ForceStatus, Close, Apply, Grant
<1>2. PICK j : j = Next1(h) /\ Changes(h, j)
  BY DEF ForceStatus, Close, Apply, Grant
<1> QED
  BY <1>1, <1>2, ChangePlan

\* A request goes on with its sync still to come, or had none to come.
LEMMA GoesPlan ==
  ASSUME BaseInv, PlanInv, NEW h \in Handlers, NEW j, Goes(h, j),
         j.todo # <<>> => j.todo[1] \notin {"rest", "set"},
         Owes(h) => unsynced' \/ \E x \in Syncing : Has(j, x),
         UNCHANGED <<plan, rows, touched, over>>, unsynced => unsynced'
  PROVE  PlanInv'
<1>1. job'[h] = j /\ \A g \in Handlers \ {h} : job'[g] = job[g]
  BY DEF Goes, BaseInv, Typed
<1>2. \A g \in Handlers : (~At(g, "rest")' /\ ~At(g, "set")') \/ Same(job[g], job'[g])
  BY <1>1 DEF At, Same
<1>3. \A g \in Handlers : Owes(g) => Owes(g)' \/ unsynced'
  BY <1>1 DEF Owes
<1> QED
  BY <1>2, <1>3, SameFits, PlanKept

LEMMA OwesOther ==
  ASSUME BaseInv, NEW h \in Handlers, NEW step, step \notin {"create", "insert"} \cup Syncing, At(h, step),
         NEW j, j = Next1(h), Owes(h)
  PROVE  \E x \in Syncing : Has(j, x)
BY StepDone DEF Owes

LEMMA RecordPlan ==
  ASSUME BaseInv, PlanInv, NEW h \in Handlers, Record(h)
  PROVE  PlanInv'
<1>1. PICK j : j = Next1(h)
  OBVIOUS
<1>2. At(h, "record") /\ Goes(h, j) /\ UNCHANGED <<plan, rows, touched, over, unsynced>>
  BY <1>1 DEF Record, rowVars, razorpay, history
<1>3. j.todo # <<>> => j.todo[1] \notin {"rest", "set"}
  BY <1>1, <1>2, StepDone
<1>4. Owes(h) => \E x \in Syncing : Has(j, x)
  BY <1>1, <1>2, OwesOther DEF Syncing
<1> QED
  BY <1>2, <1>3, <1>4, GoesPlan

LEMMA CancelPlan ==
  ASSUME BaseInv, PlanInv, NEW h \in Handlers, Cancel(h)
  PROVE  PlanInv'
<1>1. PICK k, j : k = Next1(h) /\ j = [k EXCEPT !.entity = remote[job[h].sub]] /\ Goes(h, j)
  BY DEF Cancel
<1>2. At(h, "cancel") /\ UNCHANGED <<plan, rows, touched, over, unsynced>>
  BY DEF Cancel, tables, rowVars, history
<1>3. k \in Job /\ (k.todo # <<>> => k.todo[1] \notin {"rest", "set"}) /\ Has(k, "sync")
  BY <1>1, <1>2, StepDone DEF BeforeSync
<1>4. j.todo = k.todo
  BY <1>1, <1>3 DEF Job
<1>5. Has(j, "sync")
  BY <1>3, <1>4 DEF Has
<1> QED
  BY <1>1, <1>2, <1>3, <1>4, <1>5, GoesPlan DEF Syncing

LEMMA FetchPlan ==
  ASSUME BaseInv, PlanInv, NEW h \in Handlers, Fetch(h)
  PROVE  PlanInv'
<1>1. PICK k : k = Next1(h)
  OBVIOUS
<1>2. PICK e, j :
        /\ j = [k EXCEPT !.entity = e,
                  !.todo = IF e.status \in Good \cup {"CREATED"} THEN @ ELSE <<"apply", "sync", "record", "sync">>]
        /\ Goes(h, j)
  BY <1>1 DEF Fetch
<1>3. At(h, "fetch") /\ UNCHANGED <<plan, rows, touched, over, unsynced>>
  BY DEF Fetch, tables, rowVars, razorpay, Fails
<1>4. k \in Job /\ (k.todo # <<>> => k.todo[1] \notin {"rest", "set"}) /\ Has(k, "sync")
  BY <1>1, <1>3, StepDone DEF BeforeSync
<1>5. j.todo = k.todo \/ j.todo = <<"apply", "sync", "record", "sync">>
  <2>1. PICK l : l = [k EXCEPT !.entity = e]
    OBVIOUS
  <2>2. l.todo = k.todo /\ "todo" \in DOMAIN l
    BY <1>4, <2>1 DEF Job
  <2>3. j = [l EXCEPT !.todo = IF e.status \in Good \cup {"CREATED"} THEN @ ELSE <<"apply", "sync", "record", "sync">>]
    BY <1>2, <2>1
  <2> QED
    BY <2>2, <2>3
<1>6. (j.todo # <<>> => j.todo[1] \notin {"rest", "set"}) /\ Has(j, "sync")
  <2>1. CASE j.todo = k.todo
    BY <1>4, <2>1 DEF Has
  <2>2. CASE j.todo = <<"apply", "sync", "record", "sync">>
    <3>1. Len(j.todo) = 4 /\ j.todo[1] = "apply" /\ j.todo[2] = "sync"
      BY <2>2
    <3> QED
      BY <3>1 DEF Has
  <2> QED
    BY <1>5, <2>1, <2>2
<1> QED
  BY <1>2, <1>3, <1>6, GoesPlan DEF Syncing

LEMMA FailPlan ==
  ASSUME BaseInv, PlanInv, NEW h \in Handlers, RequestFails(h)
  PROVE  PlanInv'
<1>1. PICK j : j = Idle /\ Goes(h, j)
  BY DEF RequestFails
<1>2. /\ UNCHANGED <<plan, rows, touched, over>> /\ (unsynced => unsynced')
      /\ (\E n \in DOMAIN job[h].todo : job[h].todo[n] \in Syncing) => unsynced'
  BY DEF RequestFails, tables, rowVars, razorpay
<1>3. Owes(h) => unsynced'
  <2>1. DOMAIN job[h].todo = 1 .. Len(job[h].todo)
    BY DEF BaseInv, Typed, Job
  <2> QED
    BY <1>2, <2>1 DEF Owes, Has
<1> QED
  BY <1>1, <1>2, <1>3, IdleIsJob, GoesPlan

\* syncUserPlanFromBilling has read that the plan is right, or what to write.
LEMMA RereadPlan ==
  ASSUME BaseInv, PlanInv, NEW h \in Handlers, NEW step \in Syncing, At(h, step), NEW x \in Syncing,
         NEW p \in Plans, NEW b \in BOOLEAN, NEW j, j = Reread(job[h], x, p, b), Goes(h, j),
         x = "rest" /\ ~b => LastIn(touched, Good) = 0 /\ p = plan /\ plan # "ENTERPRISE",
         x = "set" /\ ~b => Fits(p),
         UNCHANGED <<plan, rows, touched, over>>
  PROVE  PlanInv'
<1>1. job[h].todo \in Seq(Steps) /\ job[h].todo # <<>>
  BY DEF At, BaseInv, Typed, Job
<1>2. Len(job[h].todo) \in Nat /\ Len(job[h].todo) >= 1
  BY <1>1, DoneFacts
<1>3. j.todo = [job[h].todo EXCEPT ![1] = x] /\ j.plan = p /\ j.stale = b
  BY DEF Reread
<1>4. j.todo[1] = x /\ Len(j.todo) = Len(job[h].todo)
  BY <1>1, <1>2, <1>3
<1>5. job'[h] = j /\ \A g \in Handlers \ {h} : job'[g] = job[g]
  BY DEF Goes, BaseInv, Typed
<1>6. Owes(h)'
  BY <1>2, <1>4, <1>5 DEF Owes, Has
<1>7. ASSUME NEW g \in Handlers PROVE ReadOK(g)'
  <2>1. CASE g = h
    <3>1. p = job'[g].plan /\ b = job'[g].stale /\ (At(g, "rest")' => x = "rest") /\ (At(g, "set")' => x = "set")
      BY <1>3, <1>4, <1>5, <2>1 DEF At
    <3>2. x = "set" /\ ~b => Fits(job[g].plan)'
      BY <3>1, FitsPrimed, SameFits
    <3>3. x = "rest" /\ ~b => LastIn(touched, Good)' = 0 /\ p = plan' /\ plan' # "ENTERPRISE"
      BY SameFits
    <3> QED
      BY <3>1, <3>2, <3>3 DEF ReadOK
  <2>2. CASE g # h
    <3>1. job'[g] = job[g]
      BY <1>5, <2>2
    <3>2. PICK k : k = job'[g].plan
      OBVIOUS
    <3>3. Fits(job[g].plan) <=> Fits(k)
      BY <3>1, <3>2
    <3>4. Fits(job[g].plan)' <=> Fits(job[g].plan)
      BY <3>2, <3>3, FitsPrimed, SameFits
    <3>5. LastIn(touched, Good)' = LastIn(touched, Good)
      BY SameFits
    <3> QED
      BY <3>1, <3>4, <3>5 DEF ReadOK, PlanInv, At
  <2> QED
    BY <2>1, <2>2
<1> QED
  BY <1>6, <1>7 DEF PlanInv

\* A sync is over: others know what they knew.
LEMMA SyncedPlan ==
  ASSUME BaseInv, PlanInv, NEW h \in Handlers, NEW j, Goes(h, j), j.todo # <<>> => j.todo[1] \notin {"rest", "set"},
         UNCHANGED <<plan, rows, touched, over>>, Fits(plan) \/ plan = "ENTERPRISE" \/ unsynced'
  PROVE  PlanInv'
<1>1. job'[h] = j /\ \A g \in Handlers \ {h} : job'[g] = job[g]
  BY DEF Goes, BaseInv, Typed
<1>2. ASSUME NEW g \in Handlers PROVE ReadOK(g)'
  <2>1. CASE g = h
    BY <1>1, <2>1 DEF ReadOK, At
  <2>2. CASE g # h
    <3>1. job'[g] = job[g]
      BY <1>1, <2>2
    <3>2. PICK k : k = job'[g].plan
      OBVIOUS
    <3>3. Fits(job[g].plan) <=> Fits(k)
      BY <3>1, <3>2
    <3>4. Fits(job[g].plan)' <=> Fits(job[g].plan)
      BY <3>2, <3>3, FitsPrimed, SameFits
    <3>5. LastIn(touched, Good)' = LastIn(touched, Good)
      BY SameFits
    <3> QED
      BY <3>1, <3>4, <3>5 DEF ReadOK, PlanInv, At
  <2> QED
    BY <2>1, <2>2
<1>3. Fits(plan)' <=> Fits(plan)
  <2>1. PICK k : k = plan
    OBVIOUS
  <2>2. Fits(plan) <=> Fits(k)
    BY <2>1
  <2> QED
    BY <2>1, <2>2, FitsPrimed, SameFits
<1> QED
  BY <1>2, <1>3 DEF PlanInv

LEMMA SyncReadPlan ==
  ASSUME BaseInv, PlanInv, NEW h \in Handlers, SyncRead(h)
  PROVE  PlanInv'
<1>1. PICK k : k = Next1(h)
  OBVIOUS
<1>2. /\ At(h, "sync") /\ UNCHANGED <<plan, rows, touched, over>>
      /\ job[h] \in Job /\ plan \in Plans
  BY DEF SyncRead, tables, rowVars, BaseInv, Typed
<1>3. k \in Job /\ (k.todo # <<>> => k.todo[1] \notin {"rest", "set"})
  BY <1>1, <1>2, StepDone
<1>4. CASE /\ plan = "ENTERPRISE" \/ (LastIn(touched, Good) # 0 /\ plan = "PRO")
           /\ Goes(h, [k EXCEPT !.stale = FALSE])
  <2>1. PICK j : j = [k EXCEPT !.stale = FALSE]
    OBVIOUS
  <2>2. j.todo = k.todo
    BY <1>3, <2>1 DEF Job
  <2>3. Goes(h, j) /\ (j.todo # <<>> => j.todo[1] \notin {"rest", "set"})
    BY <1>3, <1>4, <2>1, <2>2
  <2>4. Fits(plan) \/ plan = "ENTERPRISE"
    BY <1>4 DEF Fits
  <2> QED
    BY <1>2, <2>3, <2>4, SyncedPlan
<1>5. CASE /\ plan # "ENTERPRISE"
           /\ Goes(h, [job[h] EXCEPT !.plan = IF LastIn(touched, Good) # 0 THEN "PRO" ELSE plan,
                         !.todo[1] = IF LastIn(touched, Good) # 0 THEN "set" ELSE "rest",
                         !.stale = FALSE])
  <2>1. PICK p \in Plans, x \in Syncing :
                    /\ p = IF LastIn(touched, Good) # 0 THEN "PRO" ELSE plan
                    /\ x = IF LastIn(touched, Good) # 0 THEN "set" ELSE "rest"
    BY <1>2 DEF Plans, Syncing
  <2>2. PICK b \in BOOLEAN : b = FALSE
    OBVIOUS
  <2>3. PICK j : j = Reread(job[h], x, p, b)
    OBVIOUS
  <2>4. Goes(h, [job[h] EXCEPT !.plan = p, !.todo[1] = x, !.stale = FALSE])
    BY <1>5, <2>1
  <2>5. Goes(h, j)
    BY <1>2, <2>2, <2>3, <2>4, SyncReadIs
  <2>6. x = "rest" => LastIn(touched, Good) = 0 /\ p = plan /\ plan # "ENTERPRISE"
    BY <1>5, <2>1
  <2>7. x = "set" => Fits(p)
    BY <2>1 DEF Fits
  <2>8. "sync" \in Syncing
    BY DEF Syncing
  <2> QED
    BY <1>2, <2>3, <2>5, <2>6, <2>7, <2>8, RereadPlan
<1> QED
  BY <1>1, <1>4, <1>5 DEF SyncRead, Manual

LEMMA RestReadPlan ==
  ASSUME BaseInv, PlanInv, NEW h \in Handlers, RestRead(h)
  PROVE  PlanInv'
<1>1. PICK k, p : k = Next1(h) /\ p = IF PaidUp(LastDead) THEN "PRO" ELSE "FREE"
  OBVIOUS
<1>2. /\ At(h, "rest") /\ UNCHANGED <<plan, rows, touched, over>>
      /\ job[h] \in Job /\ plan \in Plans
      /\ IF LastIn(touched, {"PENDING"}) # 0 \/ job[h].plan = p THEN Synced(h) ELSE WillSet(h, p)
  BY <1>1 DEF RestRead, Synced, WillSet, rowVars, BaseInv, Typed
<1>3. k \in Job /\ (k.todo # <<>> => k.todo[1] \notin {"rest", "set"})
  BY <1>1, <1>2, StepDone
<1>4. ~job[h].stale => LastIn(touched, Good) = 0 /\ job[h].plan = plan /\ plan # "ENTERPRISE"
  BY <1>2 DEF PlanInv, ReadOK
<1>5. LastIn(touched, Good) = 0 => Fits(p)
  BY <1>1 DEF Fits, PaidUp, LastDead
<1>6. CASE LastIn(touched, {"PENDING"}) # 0 \/ job[h].plan = p
  <2>1. Goes(h, k) /\ unsynced' = job[h].stale
    BY <1>1, <1>2, <1>6 DEF Synced
  <2>2. ~job[h].stale => Fits(plan)
    <3>1. CASE LastIn(touched, {"PENDING"}) # 0
      BY <1>4, <3>1 DEF Fits
    <3>2. CASE job[h].plan = p
      <4>1. ~job[h].stale => Fits(p) /\ p = plan
        BY <1>4, <1>5, <3>2
      <4> QED
        BY <4>1
    <3> QED
      BY <1>6, <3>1, <3>2
  <2> QED
    BY <1>2, <1>3, <2>1, <2>2, SyncedPlan
<1>7. CASE ~(LastIn(touched, {"PENDING"}) # 0 \/ job[h].plan = p)
  <2>1. PICK b \in BOOLEAN, x \in Syncing : b = job[h].stale /\ x = "set"
    BY <1>2 DEF Job, Syncing
  <2>2. PICK j : j = Reread(job[h], x, p, b)
    OBVIOUS
  <2>3. Goes(h, j)
    BY <1>2, <1>7, <2>1, <2>2, RereadIs DEF WillSet
  <2>4. p \in Plans /\ "rest" \in Syncing
    BY <1>1 DEF Plans, Syncing
  <2>5. ~b => Fits(p)
    BY <1>4, <1>5, <2>1
  <2>6. x # "rest"
    BY <2>1
  <2> QED
    BY <1>2, <2>2, <2>3, <2>4, <2>5, <2>6, RereadPlan
<1> QED
  BY <1>6, <1>7

LEMMA SetPlanPlan ==
  ASSUME BaseInv, PlanInv, NEW h \in Handlers, SetPlan(h)
  PROVE  PlanInv'
<1>1. PICK j, p : j = Next1(h) /\ p = job[h].plan
  OBVIOUS
<1>2. /\ At(h, "set") /\ Changes(h, j) /\ plan' = p /\ unsynced' = job[h].stale
      /\ UNCHANGED <<rows, touched, over>>
  BY <1>1 DEF SetPlan, rowVars
<1>3. j.todo # <<>> => j.todo[1] \notin {"rest", "set"}
  BY <1>1, <1>2, StepDone
<1>4. ASSUME NEW g \in Handlers PROVE ReadOK(g)'
  <2>1. CASE g = h
    BY <1>2, <1>3, <2>1 DEF Changes, ReadOK, At
  <2>2. CASE g # h /\ (At(g, "rest") \/ At(g, "set"))
    <3>1. job'[g] = [job[g] EXCEPT !.stale = TRUE] /\ job[g] \in Job
      BY <1>2, <2>2 DEF Changes, BaseInv, Typed
    <3>2. job'[g].stale
      BY <3>1 DEF Job
    <3> QED
      BY <3>2 DEF ReadOK
  <2>3. CASE g # h /\ ~At(g, "rest") /\ ~At(g, "set")
    <3>1. job'[g] = job[g]
      BY <1>2, <2>3 DEF Changes
    <3> QED
      BY <2>3, <3>1 DEF ReadOK, At
  <2> QED
    BY <2>1, <2>2, <2>3
<1>5. ~job[h].stale => Fits(p)
  <2>1. ~job[h].stale => Fits(job[h].plan)
    BY <1>2 DEF PlanInv, ReadOK
  <2> QED
    BY <1>1, <2>1
<1>6. Fits(p) => Fits(plan)'
  BY <1>2, FitsPrimed, SameFits
<1> QED
  BY <1>2, <1>4, <1>5, <1>6 DEF PlanInv

\* A row that is made changes nothing of what is the last of the others.
LEMMA InsertLast ==
  ASSUME BaseInv, NEW h \in Handlers, NEW q \in Subs, Inserts(h, q), NEW S, {"NONE", "CREATED"} \cap S = {}
  PROVE  LastIn(touched, S)' = LastIn(touched, S)
<1>1. PICK old, new : old = touched /\ new = touched'
  OBVIOUS
<1>2. old \in Seq(Subs) /\ new = Append(old, q)
  BY <1>1 DEF Inserts, BaseInv, Typed
<1>3. /\ new \in Seq(Subs) /\ Len(new) = Len(old) + 1 /\ new[Len(old) + 1] = q /\ Len(old) \in Nat
      /\ \A i \in 1 .. Len(old) : new[i] = old[i]
  BY <1>2, AppendFacts
<1>4. /\ rows[q].status = "NONE" /\ rows'[q].status = "CREATED" /\ \A r \in Subs \ {q} : rows'[r] = rows[r]
      /\ "NONE" \notin S /\ "CREATED" \notin S
  BY DEF Inserts
<1>5. PICK T : T = {i \in DOMAIN old : rows[old[i]].status \in S}
  OBVIOUS
<1>6. PICK U : U = {i \in DOMAIN new : rows'[new[i]].status \in S}
  OBVIOUS
<1>7. \A i : i \in U <=> i \in T
  <2> TAKE i
  <2>1. DOMAIN old = 1 .. Len(old) /\ DOMAIN new = 1 .. Len(old) + 1
    BY <1>2, <1>3
  <2>2. CASE i \in 1 .. Len(old)
    <3>1. old[i] \in Subs /\ new[i] = old[i]
      BY <1>2, <1>3, <2>2
    <3>2. rows'[new[i]].status \in S <=> rows[old[i]].status \in S
      BY <1>4, <3>1
    <3> QED
      BY <1>3, <1>5, <1>6, <2>1, <2>2, <3>2
  <2>3. CASE i \notin 1 .. Len(old)
    <3>1. i \notin T
      BY <1>5, <2>1, <2>3
    <3>2. i \in U => i = Len(old) + 1
      BY <1>3, <1>6, <2>1, <2>3
    <3>3. i \notin U
      BY <1>3, <1>4, <1>6, <3>2
    <3> QED
      BY <3>1, <3>3
  <2> QED
    BY <2>2, <2>3
<1>8. U = T
  BY <1>7
<1>9. LastIn(touched, S) = IF T = {} THEN 0 ELSE old[CHOOSE i \in T : \A j \in T : j <= i]
  BY <1>1, <1>5 DEF LastIn
<1>10. LastIn(touched, S)' = IF T = {} THEN 0 ELSE new[CHOOSE i \in T : \A j \in T : j <= i]
  <2>1. U = {i \in DOMAIN touched' : rows'[touched'[i]].status \in S}
    BY <1>1, <1>6
  <2>2. LastIn(touched, S)' = IF U = {} THEN 0 ELSE touched'[CHOOSE i \in U : \A j \in U : j <= i]
    BY <2>1 DEF LastIn
  <2> QED
    BY <1>1, <1>8, <2>2
<1>11. CASE T = {}
  BY <1>9, <1>10, <1>11
<1>12. CASE T # {}
  <2>1. T \in SUBSET (1 .. Len(old))
    BY <1>2, <1>5
  <2>2. \E m \in T : \A j \in T : j <= m
    BY <1>3, <1>12, <2>1, LastPosition
  <2>3. PICK m \in T : m = CHOOSE i \in T : \A j \in T : j <= i
    BY <2>2
  <2> QED
    BY <1>3, <1>9, <1>10, <1>12, <2>1, <2>3
<1> QED
  BY <1>11, <1>12

LEMMA CheckoutOwesNone ==
  ASSUME BaseInv, NEW h \in Handlers, job[h].kind \in {"none", "checkout"}
  PROVE  ~Owes(h)
<1>1. PICK t : t = job[h].todo
  OBVIOUS
<1>2. t = <<>> \/ t = <<"create", "insert">> \/ t = <<"insert">>
  BY <1>1, IdleIsJob DEF BaseInv, JobsOK, StepsOK
<1>3. Len(<<>>) = 0 /\ 1 .. 0 = {} /\ 1 .. 1 = {1} /\ 1 .. 2 = {1, 2}
  OBVIOUS
<1>4. \A i \in 1 .. Len(t) : t[i] \in {"create", "insert"}
  <2>1. CASE t = <<>>
    BY <1>3, <2>1
  <2>2. CASE t = <<"create", "insert">>
    BY <1>3, <2>2
  <2>3. CASE t = <<"insert">>
    BY <1>3, <2>3
  <2> QED
    BY <1>2, <2>1, <2>2, <2>3
<1> QED
  BY <1>1, <1>4 DEF Owes, Has, Syncing

LEMMA InsertPlan ==
  ASSUME BaseInv, PlanInv, NEW h \in Handlers, NEW q \in Subs, Inserts(h, q)
  PROVE  PlanInv'
<1>1. /\ job[h].kind = "checkout" /\ Goes(h, Idle) /\ UNCHANGED <<plan, over, unsynced>>
      /\ rows[q].status = "NONE" /\ (\A r \in Subs \ {q} : rows'[r] = rows[r])
  BY DEF Inserts, history
<1>2. /\ LastIn(touched, Good)' = LastIn(touched, Good)
      /\ LastIn(touched, {"PENDING"})' = LastIn(touched, {"PENDING"})
      /\ LastIn(touched, Dead)' = LastIn(touched, Dead)
  <2>1. \A S \in {Good, {"PENDING"}, Dead} : {"NONE", "CREATED"} \cap S = {}
    BY DEF Good, Dead
  <2> QED
    BY <2>1, InsertLast
<1>3. PICK d : d = LastIn(touched, Dead)
  OBVIOUS
<1>4. d # 0 => d \in Subs \ {q}
  <2>1. d \in Subs \cup {0} /\ (d # 0 => rows[d].status \in Dead)
    BY <1>3, LastInFacts DEF BaseInv, Typed
  <2> QED
    BY <1>1, <2>1 DEF Dead
<1>5. d # 0 => rows'[d] = rows[d]
  BY <1>1, <1>4
<1>6. PaidUp(d)' <=> PaidUp(d)
  BY <1>1, <1>5 DEF PaidUp
<1>7. PaidUp(LastIn(touched, Dead))' <=> PaidUp(LastIn(touched, Dead))
  BY <1>2, <1>3, <1>6 DEF PaidUp
<1>8. ASSUME NEW p \in Plans, Fits(p) PROVE Fits(p)'
  BY <1>2, <1>3, <1>5, <1>7, <1>8 DEF Fits
<1>9. job'[h] = Idle /\ \A g \in Handlers \ {h} : job'[g] = job[g]
  BY <1>1 DEF Goes, BaseInv, Typed
<1>10. \A g \in Handlers : (~At(g, "rest")' /\ ~At(g, "set")') \/ Same(job[g], job'[g])
  BY <1>9, IdleIsJob DEF At, Same
<1>11. \A g \in Handlers : Owes(g) => Owes(g)'
  BY <1>1, <1>9, CheckoutOwesNone DEF Owes
<1> QED
  BY <1>1, <1>2, <1>8, <1>10, <1>11, PlanKept

\* A request without a sync to do goes on, or one begins, with nothing read yet.
LEMMA StartPlan ==
  ASSUME BaseInv, PlanInv, NEW h \in Handlers, job[h].kind \in {"none", "checkout"}, NEW j, Goes(h, j),
         j.todo # <<>> => j.todo[1] \notin {"rest", "set"},
         UNCHANGED <<plan, rows, touched, over, unsynced>>
  PROVE  PlanInv'
BY CheckoutOwesNone, GoesPlan

\* A period that is over can only end what was paid up.
LEMMA PeriodPlan ==
  ASSUME BaseInv, PlanInv, NEW q \in Subs, PeriodEnds(q)
  PROVE  PlanInv'
<1>1. /\ UNCHANGED <<plan, rows, touched, job, unsynced>>
      /\ over[q] < over'[q] /\ over'[q] \in Nat /\ \A s \in Subs \ {q} : over'[s] = over[s]
  BY DEF PeriodEnds, tables, rowVars, history, BaseInv, Typed, Entity
<1>2. \A S : LastIn(touched, S)' = LastIn(touched, S)
  BY <1>1 DEF LastIn
<1>3. PICK d : d = LastIn(touched, Dead)
  OBVIOUS
<1>4. d \in Subs \cup {0}
  BY <1>3, LastInFacts DEF BaseInv, Typed
<1>5. PaidUp(d)' => PaidUp(d)
  <2>1. CASE d = q
    <3>1. rows[q].end \in Nat /\ over[q] \in Nat
      BY DEF BaseInv, Typed, Row
    <3> QED
      BY <1>1, <2>1, <3>1 DEF PaidUp
  <2>2. CASE d # q
    BY <1>1, <1>4, <2>2 DEF PaidUp
  <2> QED
    BY <2>1, <2>2
<1>6. PaidUp(LastIn(touched, Dead))' => PaidUp(LastIn(touched, Dead))
  BY <1>2, <1>3, <1>5 DEF PaidUp
<1>7. ASSUME NEW p \in Plans, Fits(p) PROVE Fits(p)'
  BY <1>1, <1>2, <1>6, <1>7 DEF Fits
<1>8. \A g \in Handlers : Same(job[g], job'[g]) /\ (Owes(g) => Owes(g)')
  BY <1>1 DEF Same, Owes
<1> QED
  BY <1>1, <1>2, <1>7, <1>8, PlanKept

LEMMA StepPlan ==
  ASSUME BaseInv, PlanInv, NEW h \in Handlers, Step(h)
  PROVE  PlanInv'
<1>1. CASE Create(h)
  <2>1. PICK s, j : Creates(h, s, j)
    BY <1>1, CreateFacts
  <2>2. job[h].kind = "checkout" /\ Goes(h, j) /\ j.todo[1] = "insert"
    BY <2>1 DEF Creates
  <2>3. UNCHANGED <<plan, rows, touched, over, unsynced>>
    BY <1>1 DEF Create, tables, rowVars, history
  <2> QED
    BY <2>2, <2>3, StartPlan
<1>2. CASE Insert(h)
  BY <1>2, InsertFacts, InsertPlan
<1> QED
  BY <1>1, <1>2, FetchPlan, RowPlan, RecordPlan, CancelPlan, SyncReadPlan, RestReadPlan, SetPlanPlan, FailPlan DEF Step

LEMMA ReceivePlan ==
  ASSUME BaseInv, PlanInv, NEW h \in Handlers,
         ReceiveCheckout(h) \/ ReceiveCancel(h) \/ \E s \in Subs : ReceiveVerify(h, s)
  PROVE  PlanInv'
<1>1. UNCHANGED <<plan, rows, touched, over, unsynced>>
  BY DEF ReceiveCheckout, ReceiveCancel, ReceiveVerify, tables, rowVars, razorpay
<1>2. PICK j \in Job : job[h] = Idle /\ Goes(h, j) /\ j.todo[1] \in {"create", "cancel", "fetch"}
  BY CheckoutFacts, ReceiveCancelFacts, VerifyFacts
<1> QED
  BY <1>1, <1>2, IdleIsJob, StartPlan

LEMMA DeliverPlan ==
  ASSUME BaseInv, PlanInv, NEW e \in events, Duplicate(e) \/ DedupeFails(e) \/ \E h \in Handlers : ReceiveEvent(h, e)
  PROVE  PlanInv'
<1>1. UNCHANGED <<plan, rows, touched, over, unsynced>>
  BY DEF Duplicate, DedupeFails, ReceiveEvent, tables, rowVars, history
<1>2. ASSUME UNCHANGED job PROVE PlanInv'
  <2>1. \A g \in Handlers : Same(job[g], job'[g]) /\ (Owes(g) => Owes(g)')
    BY <1>2 DEF Same, Owes
  <2> QED
    BY <1>1, <2>1, SameFits, PlanKept
<1>3. ASSUME NEW h \in Handlers, ReceiveEvent(h, e), rows[e.sub] # NoRow PROVE PlanInv'
  <2>1. PICK j \in Job : job[h] = Idle /\ Goes(h, j) /\ j.todo[1] = "apply"
    BY <1>3, EventFacts
  <2> QED
    BY <1>1, <2>1, IdleIsJob, StartPlan
<1> QED
  BY <1>2, <1>3 DEF Duplicate, DedupeFails, ReceiveEvent

LEMMA NextPlan ==
  ASSUME BaseInv, PlanInv, [Next]_vars
  PROVE  PlanInv'
<1>1. ASSUME UNCHANGED <<plan, rows, touched, over, job, unsynced>> PROVE PlanInv'
  <2>1. \A g \in Handlers : Same(job[g], job'[g]) /\ (Owes(g) => Owes(g)')
    BY <1>1 DEF Same, Owes
  <2> QED
    BY <1>1, <2>1, SameFits, PlanKept
<1>2. CASE UNCHANGED vars
  BY <1>1, <1>2 DEF vars, tables, rowVars, razorpay, history
<1>3. ASSUME NEW s \in Subs, Razorpay(s) PROVE PlanInv'
  <2>1. CASE PeriodEnds(s)
    BY <2>1, PeriodPlan
  <2>2. CASE ~PeriodEnds(s)
    BY <1>1, <1>3, <2>2, TellsFacts DEF Tells, Tell, tables, rowVars
  <2> QED
    BY <2>1, <2>2
<1>4. CASE MakeEnterprise
  <2>1. job' = job /\ plan' = "ENTERPRISE" /\ \A g \in Handlers : job[g] = Idle
    BY <1>4 DEF MakeEnterprise
  <2>2. \A g \in Handlers : ReadOK(g)'
    BY <2>1, IdleIsJob DEF ReadOK, At
  <2> QED
    BY <2>1, <2>2 DEF PlanInv
<1>5. CASE Next
  BY <1>3, <1>4, <1>5, StepPlan, ReceivePlan, DeliverPlan DEF Next, Deliver
<1> QED
  BY <1>2, <1>5

\* When no request is at work the plan is the one the rows stand for, whatever the order of
\* the syncs, unless a sync wrote what was stale or a request failed before its sync:
\* syncUserPlanFromBilling at the end of whatever changes a row.
THEOREM PlanFollowsHolds ==
  Spec => []PlanFollowsRows
<1>1. BaseInv /\ PlanInv => PlanFollowsRows
  <2> SUFFICES ASSUME BaseInv, PlanInv, AtRest, ~unsynced, plan # "ENTERPRISE" PROVE Fits(plan)
    BY DEF PlanFollowsRows, Fits
  <2>1. \A h \in Handlers : ~Owes(h)
    BY IdleIsJob, CheckoutOwesNone DEF AtRest
  <2> QED
    BY <2>1 DEF PlanInv
<1>2. Init => PlanInv
  <2> SUFFICES ASSUME Init PROVE PlanInv
    OBVIOUS
  <2>1. \A h \in Handlers : job[h] = Idle
    BY DEF Init
  <2>2. \A h \in Handlers : ReadOK(h)
    BY <2>1, IdleIsJob DEF ReadOK, At
  <2>3. \A S : LastIn(touched, S) = 0
    <3>1. touched = <<>> /\ DOMAIN <<>> = {}
      BY DEF Init
    <3> QED
      BY <3>1 DEF LastIn
  <2>4. Fits(plan)
    BY <2>3 DEF Init, Fits, PaidUp
  <2> QED
    BY <2>2, <2>4 DEF PlanInv
<1>3. PlanInv /\ BaseInv /\ [Next]_vars => PlanInv' /\ BaseInv'
  BY NextPlan, NextBase
<1> QED
  BY <1>1, <1>2, <1>3, InitBase, PTL DEF Spec

----------------------------------------------------------------------------
(* The types.                                                              *)

\* q lists the members of S, each of them once.
Lists(q, S) ==
  /\ \A i, k \in 1 .. Len(q) : q[i] = q[k] => i = k
  /\ \A i \in 1 .. Len(q) : q[i] \in S
  /\ \A s \in S : \E i \in 1 .. Len(q) : q[i] = s
Rowed == {s \in Subs : rows[s].status # "NONE"}
ListsOK == Lists(made, Rowed) /\ Lists(touched, Rowed)

\* No period is named before an event has said that it is charged; only a payment is recorded.
Pays(j) == Has(j, "record") \/ Has(j, "fetch")
EndsOK ==
  /\ \A s \in Subs : rows[s].end <= sent /\ remote[s].end <= sent /\ over[s] <= sent
  /\ \A s \in Subs : remote[s].status \notin Unpaid => 1 <= sent
  /\ \A e \in events : e.entity.end <= sent /\ (e.type = "charged" => 1 <= e.entity.end)
  /\ \A h \in Handlers : job[h].entity.end <= sent /\ (job[h].kind = "charged" => 1 <= job[h].entity.end)
  /\ \A h \in Handlers : Pays(job[h]) => job[h].kind \in {"verify", "charged"}
  /\ payments \subseteq Subs \X (1 .. sent)

CountsOK ==
  /\ sent <= MaxEvents /\ cancels \in 0 .. MaxCancels /\ failures \in 0 .. MaxFailures
  /\ leaving \cup lost \cup disordered \subseteq Subs
  /\ doubled \in BOOLEAN /\ unsynced \in BOOLEAN

TypeInv == ListsOK /\ EndsOK /\ CountsOK

\* A row that is written anew goes to the end of the list, and no other is lost or doubled.
LEMMA MovedLastLists ==
  ASSUME NEW q \in Seq(Subs), NEW S, Lists(q, S), NEW s \in S
  PROVE  Lists(MovedLast(q, s), S)
<1>1. PICK n \in Nat : n = Len(q) /\ DOMAIN q = 1 .. n
  OBVIOUS
<1>2. PICK k \in 1 .. n : q[k] = s
  BY <1>1 DEF Lists
<1>3. PICK p : p = MovedLast(q, s)
  OBVIOUS
<1>4. ASSUME NEW i \in 1 .. n
      PROVE  p[i] = IF i = n THEN s ELSE IF k <= i THEN q[i + 1] ELSE q[i]
  <2>1. p[i] = IF i = n THEN s ELSE IF \E j \in 1 .. i : q[j] = s THEN q[i + 1] ELSE q[i]
    BY <1>1, <1>3 DEF MovedLast
  <2>2. (\E j \in 1 .. i : q[j] = s) <=> k <= i
    BY <1>1, <1>2 DEF Lists
  <2> QED
    BY <2>1, <2>2
<1>5. Len(p) = n
  <2>1. p = [i \in 1 .. n |-> p[i]]
    BY <1>1, <1>3 DEF MovedLast
  <2> QED
    BY <2>1
<1>6. ASSUME NEW i \in 1 .. n
      PROVE  \E a \in 1 .. n : p[i] = q[a] /\ a = IF i = n THEN k ELSE IF k <= i THEN i + 1 ELSE i
  BY <1>2, <1>4
<1>7. \A i \in 1 .. n : p[i] \in S
  BY <1>1, <1>6 DEF Lists
<1>8. ASSUME NEW i \in 1 .. n, NEW m \in 1 .. n, p[i] = p[m] PROVE i = m
  <2>1. PICK a \in 1 .. n : p[i] = q[a] /\ a = IF i = n THEN k ELSE IF k <= i THEN i + 1 ELSE i
    BY <1>6
  <2>2. PICK b \in 1 .. n : p[m] = q[b] /\ b = IF m = n THEN k ELSE IF k <= m THEN m + 1 ELSE m
    BY <1>6
  <2>3. a = b
    BY <1>1, <1>8, <2>1, <2>2 DEF Lists
  <2> QED
    BY <1>2, <2>1, <2>2, <2>3
<1>9. ASSUME NEW r \in S PROVE \E i \in 1 .. n : p[i] = r
  <2>1. PICK a \in 1 .. n : q[a] = r
    BY <1>1 DEF Lists
  <2>2. CASE a = k
    <3>1. n \in 1 .. n /\ r = s
      BY <1>2, <2>1, <2>2
    <3> QED
      BY <1>4, <3>1
  <2>3. CASE a < k
    BY <1>2, <1>4, <2>1, <2>3
  <2>4. CASE k < a
    <3>1. a - 1 \in 1 .. n /\ a - 1 # n /\ k <= a - 1 /\ (a - 1) + 1 = a
      BY <1>2, <2>4
    <3> QED
      BY <1>4, <2>1, <3>1
  <2> QED
    BY <1>2, <2>2, <2>3, <2>4
<1> QED
  BY <1>3, <1>5, <1>7, <1>8, <1>9 DEF Lists

LEMMA AppendLists ==
  ASSUME NEW q \in Seq(Subs), NEW S, Lists(q, S), NEW s \in Subs, s \notin S, NEW p, p = Append(q, s)
  PROVE  Lists(p, S \cup {s})
<1>1. /\ Len(q) \in Nat /\ Len(p) = Len(q) + 1 /\ p[Len(q) + 1] = s
      /\ \A i \in 1 .. Len(q) : p[i] = q[i]
  BY AppendFacts
<1>2. PICK n \in Nat : n = Len(q) /\ Len(p) = n + 1
  BY <1>1
<1>3. /\ p[n + 1] = s /\ \A i \in 1 .. n : p[i] = q[i] /\ q[i] \in S
      /\ \A i \in 1 .. n + 1 : i = n + 1 \/ i \in 1 .. n
  BY <1>1, <1>2 DEF Lists
<1>4. ASSUME NEW i \in 1 .. n + 1, NEW m \in 1 .. n + 1, p[i] = p[m] PROVE i = m
  BY <1>2, <1>3, <1>4 DEF Lists
<1>5. \A r \in S \cup {s} : \E i \in 1 .. n + 1 : p[i] = r
  <2> TAKE r \in S \cup {s}
  <2>1. CASE r \in S
    <3>1. PICK i \in 1 .. n : q[i] = r
      BY <1>2, <2>1 DEF Lists
    <3> QED
      BY <1>3, <3>1
  <2>2. CASE r = s
    BY <1>2, <1>3, <2>2
  <2> QED
    BY <2>1, <2>2
<1> QED
  BY <1>2, <1>3, <1>4, <1>5 DEF Lists

\* A list that names each member once is as long as there are members.
LEMMA ListsLength ==
  ASSUME NEW q \in Seq(Subs), NEW S, Lists(q, S)
  PROVE  Len(q) = Cardinality(S) /\ {q[i] : i \in DOMAIN q} = S
<1>1. Len(q) \in Nat /\ DOMAIN q = 1 .. Len(q)
  OBVIOUS
<1>2. q \in [1 .. Len(q) -> S]
  BY DEF Lists
<1>3. q \in Bijection(1 .. Len(q), S)
  BY <1>2 DEF Lists, Bijection, Injection, Surjection, IsInjective
<1>4. ExistsBijection(1 .. Len(q), S)
  BY <1>3 DEF ExistsBijection
<1> QED
  BY <1>1, <1>4, FS_CountingElements DEF Lists

LEMMA AppliedRow ==
  ASSUME NEW kind, NEW old \in Row, NEW e \in Entity, e.status \notin Unpaid, NEW row,
         row = Applied(kind, old, e)
  PROVE  row \in Row /\ row.status # "NONE" /\ row.end \in {old.end, e.end}
<1>1. CASE kind = "paused"
  BY <1>1 DEF Applied, Row, Statuses, Dead
<1>2. CASE kind = "cancelled"
  BY <1>2 DEF Applied, Row, Entity, Unpaid
<1>3. CASE kind \notin {"paused", "cancelled"}
  <2>1. row = [old EXCEPT !.status = e.status, !.end = e.end]
    BY <1>3 DEF Applied
  <2> QED
    BY <2>1 DEF Row, Entity, Unpaid
<1> QED
  BY <1>1, <1>2, <1>3

LEMMA WriteLists ==
  ASSUME BaseInv, ListsOK, NEW h \in Handlers, NEW step \in {"apply", "force", "close"}, At(h, step),
         NEW row \in Row, PutRow(job[h].sub, row), row.status # "NONE", UNCHANGED made
  PROVE  ListsOK'
<1>1. PICK s \in Rowed : s = job[h].sub
  BY AtManages DEF At, KnowsOK, Rowed
<1>2. /\ \A r \in Subs : rows'[r] = IF r = s THEN row ELSE rows[r]
      /\ touched' = MovedLast(touched, s) /\ touched \in Seq(Subs)
  BY <1>1 DEF PutRow, BaseInv, Typed, Rowed
<1>3. Rowed' = Rowed
  BY <1>1, <1>2 DEF Rowed
<1>4. Lists(touched, Rowed) /\ Lists(made, Rowed)
  BY DEF ListsOK
<1>5. Lists(touched', Rowed)
  BY <1>1, <1>2, <1>4, MovedLastLists
<1> QED
  BY <1>3, <1>4, <1>5 DEF ListsOK

\* What a request at "apply", "force" or "close" knows is not that nothing was paid.
LEMMA WriterAsked ==
  ASSUME BaseInv, NEW h \in Handlers, NEW step \in {"apply", "force", "close"}, At(h, step)
  PROVE  /\ job[h].entity \in Entity /\ job[h].entity.status \notin Unpaid
         /\ job[h].sub \in Subs /\ rows[job[h].sub] \in Row
BY AtManages DEF At, KnowsOK, Asked, Job, BaseInv, Typed

\* What a step of a request does to the rows.
Overwrites(h) ==
  \E step \in {"apply", "force", "close"}, row \in Row :
    /\ At(h, step) /\ PutRow(job[h].sub, row) /\ row.status # "NONE" /\ UNCHANGED made
    /\ row.end \in {rows[job[h].sub].end, job[h].entity.end}

LEMMA StepRows ==
  ASSUME BaseInv, NEW h \in Handlers, Step(h)
  PROVE  \/ UNCHANGED <<rows, made, touched>>
         \/ \E s \in Subs : Inserts(h, s) /\ rows'[s].end = rows[s].end
         \/ Overwrites(h)
<1>2. CASE Insert(h)
  <2>1. PICK s \in Subs : Inserts(h, s)
    BY <1>2, InsertFacts
  <2>2. rows' = [rows EXCEPT ![s].status = "CREATED"] /\ rows[s] \in Row
    BY <1>2, <2>1 DEF Insert, Inserts, BaseInv, Typed
  <2>3. rows'[s].end = rows[s].end
    BY <2>2 DEF Row, BaseInv, Typed
  <2> QED
    BY <2>1, <2>3
<1>3. CASE ForceStatus(h)
  <2>1. PICK e : e = job[h].entity
    OBVIOUS
  <2>2. PICK status : status = IF e.status = "CREATED" THEN "AUTHENTICATED" ELSE e.status
    OBVIOUS
  <2>3. PICK row : row = [rows[job[h].sub] EXCEPT !.status = status]
    OBVIOUS
  <2>4. At(h, "force") /\ PutRow(job[h].sub, row) /\ made' = made
    BY <1>3, <2>1, <2>2, <2>3 DEF ForceStatus
  <2>5. e \in Entity /\ e.status \notin Unpaid /\ rows[job[h].sub] \in Row
    BY <2>1, <2>4, WriterAsked
  <2>6. row \in Row /\ row.status # "NONE" /\ row.end = rows[job[h].sub].end
    BY <2>2, <2>3, <2>5 DEF Row, Entity, Unpaid, Statuses, Good
  <2> QED
    BY <2>4, <2>6 DEF Overwrites
<1>4. CASE Close(h)
  <2>1. PICK e : e = job[h].entity
    OBVIOUS
  <2>2. PICK row : row = [status |-> e.status, cancelAtEnd |-> TRUE, end |-> e.end]
    OBVIOUS
  <2>3. At(h, "close") /\ PutRow(job[h].sub, row) /\ made' = made
    BY <1>4, <2>1, <2>2 DEF Close
  <2>4. row \in Row /\ row.status # "NONE" /\ row.end = e.end
    BY <2>1, <2>2, <2>3, WriterAsked DEF Row, Entity, Unpaid
  <2> QED
    BY <2>1, <2>3, <2>4 DEF Overwrites
<1>5. CASE Apply(h)
  <2>1. PICK e : e = job[h].entity
    OBVIOUS
  <2>2. PICK row : row = Applied(job[h].kind, rows[job[h].sub], e)
    OBVIOUS
  <2>3. At(h, "apply") /\ PutRow(job[h].sub, row) /\ made' = made
    BY <1>5, <2>1, <2>2 DEF Apply
  <2>4. e \in Entity /\ e.status \notin Unpaid /\ rows[job[h].sub] \in Row
    BY <2>1, <2>3, WriterAsked
  <2>5. row \in Row /\ row.status # "NONE" /\ row.end \in {rows[job[h].sub].end, e.end}
    BY <2>2, <2>4, AppliedRow
  <2> QED
    BY <2>1, <2>3, <2>5 DEF Overwrites
<1> QED
  BY <1>2, <1>3, <1>4, <1>5 DEF Step, Create, Fetch, Grant, Record, Cancel, SyncRead, RestRead,
     SetPlan, RequestFails, tables, rowVars

LEMMA StepLists ==
  ASSUME BaseInv, ListsOK, NEW h \in Handlers, Step(h)
  PROVE  ListsOK'
<1>1. CASE UNCHANGED <<rows, made, touched>>
  BY <1>1 DEF ListsOK, Rowed, Lists
<1>2. ASSUME NEW s \in Subs, Inserts(h, s) PROVE ListsOK'
  <2>1. Rowed' = Rowed \cup {s} /\ s \notin Rowed
    BY <1>2 DEF Inserts, Rowed
  <2>2. Lists(made', Rowed \cup {s}) /\ Lists(touched', Rowed \cup {s})
    BY <1>2, <2>1, AppendLists DEF Inserts, ListsOK, BaseInv, Typed
  <2> QED
    BY <2>1, <2>2 DEF ListsOK
<1>3. CASE Overwrites(h)
  BY <1>3, WriteLists DEF Overwrites
<1> QED
  BY <1>1, <1>2, <1>3, StepRows

LEMMA NextLists ==
  ASSUME BaseInv, ListsOK, [Next]_vars
  PROVE  ListsOK'
<1>1. CASE UNCHANGED <<rows, made, touched>>
  BY <1>1 DEF ListsOK, Rowed, Lists
<1>2. ASSUME NEW s \in Subs, Razorpay(s) PROVE UNCHANGED <<rows, made, touched>>
  BY <1>2 DEF Razorpay, Pay, Charge, ChargeFails, Halt, Pause, Resume, CancelNow, Complete, PeriodEnds,
     Tell, tables, rowVars
<1>3. ASSUME Deliver PROVE UNCHANGED <<rows, made, touched>>
  BY <1>3 DEF Deliver, Duplicate, DedupeFails, ReceiveEvent, tables, rowVars
<1>4. ASSUME NEW h \in Handlers,
             ReceiveCheckout(h) \/ ReceiveCancel(h) \/ (\E s \in Subs : ReceiveVerify(h, s))
      PROVE  UNCHANGED <<rows, made, touched>>
  BY <1>4 DEF ReceiveCheckout, ReceiveCancel, ReceiveVerify, tables, rowVars
<1>5. UNCHANGED vars \/ MakeEnterprise => UNCHANGED <<rows, made, touched>>
  BY DEF vars, MakeEnterprise, tables, rowVars
<1> QED
  BY <1>1, <1>2, <1>3, <1>4, <1>5, StepLists DEF Next

\* A step leaves a request as j what it knew as i of the periods, or tells it what Razorpay
\* says; it does not become a payment.
Carries(i, j) ==
  /\ j.entity.end \in {0, i.entity.end, remote[i.sub].end}
  /\ Pays(j) => Pays(i)

LEMMA IdleCarries ==
  ASSUME NEW i
  PROVE  Carries(i, Idle) /\ ~Pays(Idle)
<1>1. ~Pays(Idle)
  <2>1. Len(<<>>) = 0 /\ 1 .. 0 = {}
    OBVIOUS
  <2> QED
    BY <2>1, IdleIsJob DEF Pays, Has
<1> QED
  BY <1>1, IdleIsJob DEF Carries, NoRemote

LEMMA OnwardCarries ==
  ASSUME BaseInv, NEW h \in Handlers, NEW step, step \notin {"create", "insert", "fetch", "cancel"},
         At(h, step), NEW k, k = Next1(h), NEW j, j = k \/ j = [k EXCEPT !.stale = FALSE],
         Goes(h, j) \/ Changes(h, j)
  PROVE  Carries(job[h], job'[h])
<1>1. /\ Moves(h, j) /\ (j = Idle \/ j.entity = job[h].entity)
      /\ \A x : Has(j, x) => Has(job[h], x)
  BY Onward
<1>2. CASE j = Idle
  BY <1>1, <1>2, IdleCarries DEF Moves
<1>3. CASE j # Idle
  BY <1>1, <1>3 DEF Moves, Carries, Pays
<1> QED
  BY <1>2, <1>3

LEMMA RereadCarries ==
  ASSUME BaseInv, NEW h \in Handlers, NEW step \in Syncing, At(h, step), NEW x \in Syncing, NEW p, NEW b,
         Goes(h, Reread(job[h], x, p, b))
  PROVE  Carries(job[h], job'[h])
<1>1. PICK i \in Job : i = job[h]
  BY DEF BaseInv, Typed
<1>2. i.todo \in Seq(Steps) /\ i.todo # <<>>
  BY <1>1 DEF Job, At
<1>3. PICK j : j = Reread(i, x, p, b)
  OBVIOUS
<1>4. job'[h] = j
  BY <1>1, <1>3 DEF Goes, BaseInv, Typed
<1>5. PICK n \in Nat : n = Len(i.todo) /\ DOMAIN i.todo = 1 .. n
  BY <1>2
<1>6. j.todo = [i.todo EXCEPT ![1] = x] /\ j.entity = i.entity
  BY <1>3 DEF Reread
<1>7. Len(j.todo) = n /\ j.todo[1] \in Syncing \cup {i.todo[1]} /\ \A m \in 1 .. n : m # 1 => j.todo[m] = i.todo[m]
  BY <1>2, <1>5, <1>6
<1>8. ASSUME NEW y, y \notin Syncing, Has(j, y) PROVE Has(i, y)
  BY <1>5, <1>7, <1>8 DEF Has
<1>9. "record" \notin Syncing /\ "fetch" \notin Syncing
  BY DEF Syncing
<1> QED
  BY <1>1, <1>4, <1>6, <1>8, <1>9 DEF Carries, Pays

\* A request that asks Razorpay knows then what it says, or nothing.
LEMMA AskCarries ==
  ASSUME BaseInv, NEW h \in Handlers, At(h, "fetch") \/ At(h, "cancel"), NEW k, k = Next1(h),
         NEW e \in Entity, e.end \in {0, remote[job[h].sub].end}, NEW t, NEW j, Goes(h, j),
         j = [[k EXCEPT !.entity = e] EXCEPT !.todo = t],
         t = k.todo \/ At(h, "fetch")
  PROVE  Carries(job[h], job'[h])
<1>1. PICK i \in Job : i = job[h]
  BY DEF BaseInv, Typed
<1>2. k \in Job /\ \A x : Has(k, x) => Has(i, x)
  <2>1. Manages(i)
    BY <1>1, AtManages DEF At
  <2> QED
    BY <1>1, <2>1, NextJob
<1>3. j.entity = e /\ j.todo = t
  BY <1>2 DEF Job
<1>4. job'[h] = j
  BY DEF Goes, BaseInv, Typed
<1>5. At(h, "fetch") => Pays(i)
  BY <1>1, DoneFacts DEF At, Has, Pays, Job
<1>6. t = k.todo => (Pays(j) => Pays(i))
  BY <1>2, <1>3 DEF Pays, Has
<1> QED
  BY <1>1, <1>3, <1>4, <1>5, <1>6 DEF Carries

LEMMA FetchCarries ==
  ASSUME BaseInv, NEW h \in Handlers, Fetch(h)
  PROVE  Carries(job[h], job'[h])
<1>1. PICK i, k : i = job[h] /\ k = Next1(h)
  OBVIOUS
<1>2. At(h, "fetch")
  BY DEF Fetch
<1>3. Manages(i) /\ i.sub \in Subs /\ remote[i.sub] \in Entity
  BY <1>1, <1>2, AtManages DEF At, BaseInv, Typed
<1>4. k \in Job
  BY <1>1, <1>2, <1>3, NextJob
<1>5. ASSUME NEW e \in Entity, e.end \in {0, remote[i.sub].end},
             Goes(h, [k EXCEPT !.entity = e, !.todo = IF e.status \in Good \cup {"CREATED"} THEN @
                                                      ELSE <<"apply", "sync", "record", "sync">>])
      PROVE  Carries(job[h], job'[h])
  <2>1. PICK t : t = IF e.status \in Good \cup {"CREATED"} THEN k.todo
                     ELSE <<"apply", "sync", "record", "sync">>
    OBVIOUS
  <2>2. PICK j : j = [[k EXCEPT !.entity = e] EXCEPT !.todo = t]
    OBVIOUS
  <2>3. Goes(h, j)
    BY <1>4, <1>5, <2>1, <2>2 DEF Job
  <2> QED
    BY <1>1, <1>2, <1>5, <2>2, <2>3, AskCarries
<1>6. [NoRemote EXCEPT !.status = "AUTHENTICATED"] \in Entity
      /\ [NoRemote EXCEPT !.status = "AUTHENTICATED"].end = 0
  BY DEF Entity, NoRemote, Statuses, Good
<1> QED
  BY <1>1, <1>3, <1>5, <1>6 DEF Fetch

LEMMA StepCarries ==
  ASSUME BaseInv, NEW h \in Handlers, Step(h), Manages(job[h])
  PROVE  Carries(job[h], job'[h])
<1>1. PICK k : k = Next1(h)
  OBVIOUS
<1>2. ASSUME NEW step \in {"apply", "force", "grant", "record", "close", "sync", "rest", "set"}, At(h, step),
             Goes(h, k) \/ Changes(h, k) \/ Goes(h, [k EXCEPT !.stale = FALSE])
      PROVE  Carries(job[h], job'[h])
  BY <1>1, <1>2, OnwardCarries
<1>3. CASE ForceStatus(h) \/ Grant(h) \/ Record(h) \/ Close(h) \/ Apply(h) \/ SetPlan(h)
  BY <1>1, <1>2, <1>3 DEF ForceStatus, Grant, Record, Close, Apply, SetPlan
<1>4. CASE Cancel(h)
  <2>1. At(h, "cancel") /\ Goes(h, [k EXCEPT !.entity = remote[job[h].sub]])
    BY <1>1, <1>4 DEF Cancel
  <2>2. Manages(job[h]) /\ remote[job[h].sub] \in Entity
    BY <2>1, AtManages DEF At, BaseInv, Typed
  <2>3. k \in Job
    BY <1>1, <2>1, <2>2, NextJob
  <2>4. PICK e \in Entity : e = remote[job[h].sub]
    BY <2>2
  <2>5. PICK j : j = [[k EXCEPT !.entity = e] EXCEPT !.todo = k.todo]
    OBVIOUS
  <2>6. Goes(h, j)
    BY <2>1, <2>3, <2>4, <2>5 DEF Job
  <2> QED
    BY <1>1, <2>1, <2>4, <2>5, <2>6, AskCarries
<1>5. CASE SyncRead(h)
  <2>1. At(h, "sync") /\ job[h] \in Job
    BY <1>5 DEF SyncRead, BaseInv, Typed
  <2>2. CASE Goes(h, [k EXCEPT !.stale = FALSE])
    BY <1>2, <2>1, <2>2
  <2>3. PICK p, x : /\ p = IF LastIn(touched, Good) # 0 THEN "PRO" ELSE plan
                    /\ x = IF LastIn(touched, Good) # 0 THEN "set" ELSE "rest"
    OBVIOUS
  <2>4. CASE Goes(h, [job[h] EXCEPT !.plan = p, !.todo[1] = x, !.stale = FALSE])
    <3>1. Goes(h, Reread(job[h], x, p, FALSE))
      BY <2>1, <2>4, SyncReadIs
    <3>2. x \in Syncing /\ "sync" \in Syncing
      BY <2>3 DEF Syncing
    <3> QED
      BY <2>1, <3>1, <3>2, RereadCarries
  <2> QED
    BY <1>1, <1>5, <2>2, <2>3, <2>4 DEF SyncRead
<1>6. CASE RestRead(h)
  <2>1. At(h, "rest") /\ job[h] \in Job
    BY <1>6 DEF RestRead, BaseInv, Typed
  <2>2. CASE Synced(h)
    BY <1>1, <1>2, <2>1, <2>2 DEF Synced
  <2>3. ASSUME NEW p, WillSet(h, p) PROVE Carries(job[h], job'[h])
    <3>1. Goes(h, Reread(job[h], "set", p, job[h].stale))
      BY <2>1, <2>3, RereadIs DEF WillSet
    <3>2. "set" \in Syncing /\ "rest" \in Syncing
      BY DEF Syncing
    <3> QED
      BY <2>1, <3>1, <3>2, RereadCarries
  <2>4. Synced(h) \/ \E p : WillSet(h, p)
    BY <1>6 DEF RestRead
  <2> QED
    BY <2>2, <2>3, <2>4
<1>7. CASE RequestFails(h)
  BY <1>7, IdleCarries DEF RequestFails, Goes, BaseInv, Typed
<1>8. ~At(h, "create") /\ ~At(h, "insert")
  BY AtCheckout
<1> QED
  BY <1>3, <1>4, <1>5, <1>6, <1>7, <1>8, FetchCarries DEF Step, Create, Insert

\* EndsOK is kept if what changes is within what was.
LEMMA StepEnds ==
  ASSUME BaseInv, EndsOK, NEW h \in Handlers, Step(h), Manages(job[h])
  PROVE  EndsOK'
<1>1. PICK i, j : Progresses(h, i, j)
  BY StepProgresses
<1>2. /\ i = job[h] /\ j = job'[h] /\ Moves(h, j) /\ Follows(i, j) /\ Carries(i, j)
      /\ UNCHANGED <<remote, over, sent>> /\ events' \subseteq events /\ payments \subseteq payments'
  BY <1>1, StepCarries DEF Progresses, Moves
<1>3. i \in Job /\ KnowsOK(i) /\ i.sub \in Subs /\ remote[i.sub].status \notin Unpaid /\ 1 <= sent
  BY <1>1, <1>2 DEF Progresses, KnowsOK, BaseInv, Typed, JobsOK, EndsOK
<1>4. /\ sent \in Nat /\ rows \in [Subs -> Row] /\ rows' \in [Subs -> Row]
      /\ remote \in [Subs -> Entity] /\ over \in [Subs -> Nat]
      /\ job \in [Handlers -> Job] /\ job' \in [Handlers -> Job] /\ events \subseteq Event
  BY <1>1, <1>2 DEF BaseInv, Typed, Progresses, Moves
<1>5. ASSUME NEW s \in Subs PROVE rows'[s].end <= sent
  <2>1. rows[s].end <= sent /\ i.entity.end <= sent
    BY <1>2 DEF EndsOK
  <2>2. CASE UNCHANGED rows
    BY <2>1, <2>2
  <2>3. CASE Overwrites(h)
    <3>1. PICK row \in Row : PutRow(i.sub, row) /\ row.end \in {rows[i.sub].end, i.entity.end}
      BY <1>2, <2>3 DEF Overwrites
    <3>2. rows'[s] = IF s = i.sub THEN row ELSE rows[s]
      BY <1>3, <1>4, <3>1 DEF PutRow
    <3> QED
      BY <2>1, <3>1, <3>2
  <2>4. ASSUME NEW r, Inserts(h, r) PROVE FALSE
    BY <1>1, <1>2, <2>4 DEF Inserts, Progresses, Manages
  <2> QED
    BY <2>2, <2>3, <2>4, StepRows
<1>6. ASSUME NEW g \in Handlers
      PROVE  /\ job'[g].entity.end <= sent /\ (job'[g].kind = "charged" => 1 <= job'[g].entity.end)
             /\ Pays(job'[g]) => job'[g].kind \in {"verify", "charged"}
  <2>1. /\ job[g].entity.end <= sent /\ (job[g].kind = "charged" => 1 <= job[g].entity.end)
        /\ Pays(job[g]) => job[g].kind \in {"verify", "charged"}
    BY DEF EndsOK
  <2>2. CASE g # h
    <3>1. /\ job'[g].entity = job[g].entity /\ job'[g].kind = job[g].kind /\ job'[g].todo = job[g].todo
      BY <1>2, <1>4, <2>2, SameFacts DEF Moves
    <3> QED
      BY <2>1, <3>1 DEF Pays, Has
  <2>3. CASE g = h /\ j = Idle
    BY <1>2, <1>4, <2>3, IdleIsJob, IdleCarries DEF NoRemote
  <2>4. CASE g = h /\ j # Idle
    <3>1. j.kind = i.kind
      BY <1>2, <2>4 DEF Follows
    <3>2. j.entity.end <= sent
      BY <1>2, <1>3, <1>4, <2>1, <2>4 DEF Carries, EndsOK
    <3>3. j.kind = "charged" => j.entity = i.entity
      BY <1>1, <2>4, <3>1 DEF Progresses, Webhook, EventTypes
    <3>4. Pays(j) => Pays(i)
      BY <1>2 DEF Carries
    <3> QED
      BY <1>2, <2>1, <2>4, <3>1, <3>2, <3>3, <3>4
  <2> QED
    BY <2>2, <2>3, <2>4
<1>7. payments' \subseteq Subs \X (1 .. sent)
  <2>1. payments \subseteq Subs \X (1 .. sent)
    BY DEF EndsOK
  <2>2. CASE payments' = payments
    BY <2>1, <2>2
  <2>3. CASE Record(h)
    <3>1. At(h, "record") /\ payments' = payments \cup {<<i.sub, PaidPeriod(h)>>}
      BY <1>2, <2>3 DEF Record
    <3>2. Pays(i)
      BY <1>2, <1>3, <3>1, DoneFacts DEF At, Has, Pays, Job
    <3>3. i.kind \in {"verify", "charged"} /\ i.entity.end <= sent /\ (i.kind = "charged" => 1 <= i.entity.end)
      BY <1>2, <3>2 DEF EndsOK
    <3>4. i.entity.end \in Nat
      BY <1>3 DEF Job, Entity
    <3>5. PaidPeriod(h) \in 1 .. sent
      BY <1>2, <1>3, <1>4, <3>3, <3>4 DEF PaidPeriod
    <3> QED
      BY <1>3, <2>1, <3>1, <3>5
  <2> QED
    BY <2>2, <2>3 DEF Step, Create, Insert, Fetch, ForceStatus, Grant, Cancel, Close, Apply, SyncRead, RestRead,
       SetPlan, RequestFails, tables
<1> QED
  BY <1>2, <1>5, <1>6, <1>7 DEF EndsOK

\* What happens outside the requests, or as one comes in.
LEMMA OtherEnds ==
  ASSUME BaseInv, EndsOK, sent' = sent, events' \subseteq events, UNCHANGED <<rows, payments>>,
         \A s \in Subs : /\ remote'[s].end <= remote[s].end /\ remote'[s].end \in Nat
                         /\ remote'[s].status \in Unpaid \/ remote'[s].status = remote[s].status
                         /\ over'[s] <= sent,
         \A g \in Handlers :
           \/ job'[g] = job[g]
           \/ /\ job'[g].entity.end <= sent
              /\ job'[g].kind = "charged" => 1 <= job'[g].entity.end
              /\ Pays(job'[g]) => job'[g].kind \in {"verify", "charged"}
  PROVE  EndsOK'
<1>1. /\ sent \in Nat /\ remote \in [Subs -> Entity] /\ over \in [Subs -> Nat]
  BY DEF BaseInv, Typed
<1>2. \A s \in Subs : rows'[s].end <= sent /\ remote'[s].end <= sent /\ over'[s] <= sent
  BY <1>1 DEF EndsOK, Entity
<1>3. \A s \in Subs : remote'[s].status \notin Unpaid => 1 <= sent
  BY DEF EndsOK
<1>4. \A e \in events' : e.entity.end <= sent /\ (e.type = "charged" => 1 <= e.entity.end)
  BY DEF EndsOK
<1>5. \A g \in Handlers : /\ job'[g].entity.end <= sent
                          /\ job'[g].kind = "charged" => 1 <= job'[g].entity.end
                          /\ Pays(job'[g]) => job'[g].kind \in {"verify", "charged"}
  BY DEF EndsOK
<1>6. payments' \subseteq Subs \X (1 .. sent)
  BY DEF EndsOK
<1> QED
  BY <1>2, <1>3, <1>4, <1>5, <1>6 DEF EndsOK

\* A period has been charged when an event says so, and not before.
LEMMA ToldEnds ==
  ASSUME BaseInv, EndsOK, NEW s \in Subs, NEW type, NEW r \in Entity, Tell(s, type, r), UNCHANGED over,
         r.end <= remote[s].end + 1, type = "charged" => r.end = remote[s].end + 1
  PROVE  EndsOK'
<1>1. /\ sent \in Nat /\ remote \in [Subs -> Entity] /\ over \in [Subs -> Nat] /\ rows \in [Subs -> Row]
      /\ job \in [Handlers -> Job] /\ events \subseteq Event
  BY DEF BaseInv, Typed
<1>2. /\ sent' = sent + 1 /\ remote' = [remote EXCEPT ![s] = r]
      /\ events' = events \cup {[id |-> sent + 1, sub |-> s, type |-> type, entity |-> r]}
      /\ UNCHANGED <<rows, payments, job>>
  BY DEF Tell, tables, rowVars
<1>3. r.end <= sent' /\ r.end \in Nat /\ (type = "charged" => 1 <= r.end) /\ 1 <= sent'
  BY <1>1, <1>2 DEF EndsOK, Entity
<1>4. ASSUME NEW n \in Nat, n <= sent PROVE n <= sent'
  BY <1>1, <1>2, <1>4
<1>5. \A q \in Subs : rows'[q].end <= sent' /\ remote'[q].end <= sent' /\ over'[q] <= sent'
  BY <1>1, <1>2, <1>3, <1>4 DEF EndsOK, Entity, Row
<1>6. \A e \in events' : e.entity.end <= sent' /\ (e.type = "charged" => 1 <= e.entity.end)
  BY <1>1, <1>2, <1>3, <1>4 DEF EndsOK, Event, Entity
<1>7. \A g \in Handlers : /\ job'[g].entity.end <= sent'
                          /\ job'[g].kind = "charged" => 1 <= job'[g].entity.end
                          /\ Pays(job'[g]) => job'[g].kind \in {"verify", "charged"}
  BY <1>1, <1>2, <1>4 DEF EndsOK, Job, Entity
<1>8. payments' \subseteq Subs \X (1 .. sent')
  <2>1. payments \subseteq Subs \X (1 .. sent)
    BY DEF EndsOK
  <2>2. 1 .. sent \subseteq 1 .. sent'
    BY <1>1, <1>2
  <2> QED
    BY <1>2, <2>1, <2>2
<1> QED
  BY <1>3, <1>5, <1>6, <1>7, <1>8 DEF EndsOK

\* The steps of a checkout.
LEMMA NextIsCheckout ==
  ASSUME BaseInv, NEW h \in Handlers, Step(h), ~Manages(job[h])
  PROVE  Create(h) \/ Insert(h) \/ RequestFails(h)
<1>1. CASE \E step \in {"fetch", "force", "grant", "record", "cancel", "close", "apply", "sync", "rest", "set"} :
             At(h, step)
  BY <1>1, AtManages DEF At
<1> QED
  BY <1>1 DEF Step, Fetch, ForceStatus, Grant, Record, Cancel, Close, Apply, SyncRead, RestRead, SetPlan

LEMMA NextEnds ==
  ASSUME BaseInv, EndsOK, [Next]_vars
  PROVE  EndsOK'
<1>0. /\ sent \in Nat /\ remote \in [Subs -> Entity] /\ over \in [Subs -> Nat] /\ job \in [Handlers -> Job]
      /\ \A s \in Subs : over[s] <= sent /\ remote[s].end <= sent /\ remote[s].end \in Nat
  BY DEF BaseInv, Typed, EndsOK, Entity
<1>1. ASSUME NEW h \in Handlers, NEW j, Goes(h, j), j.entity.end <= sent,
             j.kind = "charged" => 1 <= j.entity.end, Pays(j) => j.kind \in {"verify", "charged"},
             sent' = sent, events' \subseteq events, UNCHANGED <<rows, payments, over>>,
             \A s \in Subs : /\ remote'[s].end <= remote[s].end /\ remote'[s].end \in Nat
                             /\ remote'[s].status \in Unpaid \/ remote'[s].status = remote[s].status
      PROVE  EndsOK'
  <2>1. \A g \in Handlers : job'[g] = IF g = h THEN j ELSE job[g]
    BY <1>0, <1>1 DEF Goes
  <2> QED
    BY <1>0, <1>1, <2>1, OtherEnds
<1>2. ASSUME NEW h \in Handlers, NEW j, Goes(h, j), j.entity = NoRemote, j.kind # "charged",
             Pays(j) => j.kind \in {"verify", "charged"},
             UNCHANGED <<rows, payments, over, remote, sent, events>>
      PROVE  EndsOK'
  BY <1>0, <1>1, <1>2 DEF NoRemote
<1>3. ASSUME NEW j, j.todo \in {<<"create", "insert">>, <<"insert">>, <<"cancel", "close", "sync">>}
      PROVE  ~Pays(j)
  BY <1>3 DEF Pays, Has
<1>4. ASSUME NEW h \in Handlers, ReceiveCheckout(h) PROVE EndsOK'
  <2>1. PICK j \in Job : Goes(h, j) /\ j.kind = "checkout" /\ j.entity = NoRemote /\ j.todo = <<"create", "insert">>
    BY <1>4, CheckoutFacts
  <2>2. UNCHANGED <<rows, payments, over, remote, sent, events>>
    BY <1>4 DEF ReceiveCheckout, tables, rowVars
  <2> QED
    BY <1>2, <1>3, <2>1, <2>2
<1>5. ASSUME NEW h \in Handlers, ReceiveCancel(h) PROVE EndsOK'
  <2>1. PICK s, j : j = Start(h, "cancel", s, <<"cancel", "close", "sync">>) /\ Goes(h, j)
    BY <1>5 DEF ReceiveCancel
  <2>2. j.todo = <<"cancel", "close", "sync">> /\ j.kind = "cancel" /\ j.entity = NoRemote
    BY <2>1 DEF Start, Idle
  <2>3. UNCHANGED <<rows, payments, over, remote, sent, events>>
    BY <1>5 DEF ReceiveCancel, tables, rowVars, razorpay
  <2> QED
    BY <1>2, <1>3, <2>1, <2>2, <2>3
<1>6. ASSUME NEW h \in Handlers, NEW s \in Subs, ReceiveVerify(h, s) PROVE EndsOK'
  <2>1. PICK j \in Job : Goes(h, j) /\ j.kind = "verify" /\ j.entity = NoRemote
    BY <1>6, VerifyFacts
  <2>2. UNCHANGED <<rows, payments, over, remote, sent, events>>
    BY <1>6 DEF ReceiveVerify, tables, rowVars
  <2> QED
    BY <1>2, <2>1, <2>2
<1>7. ASSUME NEW h \in Handlers, NEW e \in events, ReceiveEvent(h, e) PROVE EndsOK'
  <2>1. UNCHANGED <<rows, payments, over, remote, sent>> /\ events' \subseteq events
    BY <1>7 DEF ReceiveEvent, rowVars
  <2>2. CASE rows[e.sub] = NoRow
    <3>1. job' = job
      BY <1>7, <2>2 DEF ReceiveEvent
    <3> QED
      BY <1>0, <2>1, <3>1, OtherEnds
  <2>3. CASE rows[e.sub] # NoRow
    <3>1. PICK j \in Job : Goes(h, j) /\ j.kind = e.type /\ j.entity = e.entity
      BY <1>7, <2>3, EventFacts
    <3>2. PICK k, t : /\ k = Start(h, e.type, e.sub, t) /\ Goes(h, [k EXCEPT !.entity = e.entity, !.event = e.id])
                      /\ t = CASE e.type = "charged" -> <<"apply", "sync", "record", "sync">>
                               [] e.type \in {"cancelled", "completed", "paused"} -> <<"apply", "sync">>
                               [] OTHER -> <<"apply", "sync", "sync">>
      BY <1>7, <2>3 DEF ReceiveEvent
    <3>3. j = [k EXCEPT !.entity = e.entity, !.event = e.id]
      BY <1>0, <3>1, <3>2 DEF Goes
    <3>4. j.todo = t
      BY <3>2, <3>3 DEF Start, Idle
    <3>5. Pays(j) => j.kind = "charged"
      <4>1. e.type # "charged" => t \in {<<"apply", "sync">>, <<"apply", "sync", "sync">>}
        BY <3>2
      <4>2. e.type # "charged" => ~Pays(j)
        BY <3>4, <4>1 DEF Pays, Has
      <4> QED
        BY <3>1, <4>2
    <3>6. e.entity.end <= sent /\ (e.type = "charged" => 1 <= e.entity.end)
      BY DEF EndsOK
    <3> QED
      BY <1>0, <1>1, <2>1, <3>1, <3>5, <3>6
  <2> QED
    BY <2>2, <2>3
<1>8. ASSUME NEW e \in events, Duplicate(e) \/ DedupeFails(e) PROVE EndsOK'
  <2>1. UNCHANGED <<rows, payments, over, remote, sent, job>> /\ events' \subseteq events
    BY <1>8 DEF Duplicate, DedupeFails, tables, rowVars
  <2> QED
    BY <1>0, <2>1, OtherEnds
<1>9. ASSUME NEW h \in Handlers, Step(h), ~Manages(job[h]) PROVE EndsOK'
  <2>1. CASE Create(h)
    <3>1. PICK s \in Subs, j \in Job : Creates(h, s, j)
      BY <2>1, CreateFacts
    <3>2. UNCHANGED <<rows, payments, over, sent, events>>
      BY <2>1 DEF Create, tables, rowVars
    <3>3. \A q \in Subs : /\ remote'[q].end <= remote[q].end /\ remote'[q].end \in Nat
                          /\ remote'[q].status \in Unpaid \/ remote'[q].status = remote[q].status
      BY <1>0, <3>1 DEF Creates, NoRemote, Unpaid
    <3>4. Goes(h, j) /\ j.entity.end = 0 /\ j.kind = "checkout" /\ ~Pays(j)
      BY <1>3, <3>1 DEF Creates, NoRemote
    <3> QED
      BY <1>0, <1>1, <3>2, <3>3, <3>4
  <2>2. CASE Insert(h)
    <3>1. PICK s \in Subs : Inserts(h, s) /\ rows'[s].end = rows[s].end
      <4>1. At(h, "insert") /\ rows' = [rows EXCEPT ![job[h].sub].status = "CREATED"]
        BY <2>2 DEF Insert
      <4>2. PICK s \in Subs : Inserts(h, s) /\ job[h].sub = s
        BY <2>2, InsertFacts DEF Inserts
      <4>3. rows'[s].end = rows[s].end
        BY <4>1, <4>2 DEF BaseInv, Typed, Row
      <4> QED
        BY <4>2, <4>3
    <3>2. \A q \in Subs : rows'[q].end = rows[q].end
      BY <3>1 DEF Inserts
    <3>3. \A g \in Handlers : job'[g] = IF g = h THEN Idle ELSE job[g]
      BY <1>0, <3>1 DEF Inserts, Goes
    <3>4. \A g \in Handlers : /\ job'[g].entity.end <= sent
                              /\ job'[g].kind = "charged" => 1 <= job'[g].entity.end
                              /\ Pays(job'[g]) => job'[g].kind \in {"verify", "charged"}
      <4>1. Idle.entity.end <= sent /\ Idle.kind # "charged" /\ ~Pays(Idle)
        BY <1>0, IdleIsJob, IdleCarries DEF NoRemote
      <4>2. \A g \in Handlers : /\ job[g].entity.end <= sent
                                /\ job[g].kind = "charged" => 1 <= job[g].entity.end
                                /\ Pays(job[g]) => job[g].kind \in {"verify", "charged"}
        BY DEF EndsOK
      <4> QED
        BY <3>3, <4>1, <4>2
    <3>5. UNCHANGED <<payments, remote, over, sent, events>>
      BY <3>1 DEF Inserts
    <3> QED
      BY <3>2, <3>4, <3>5 DEF EndsOK
  <2>3. CASE RequestFails(h)
    <3>1. Goes(h, Idle) /\ UNCHANGED <<rows, payments, over, remote, sent, events>>
      BY <2>3 DEF RequestFails, tables, rowVars, razorpay
    <3> QED
      BY <1>2, <3>1, IdleIsJob, IdleCarries
  <2> QED
    BY <1>9, <2>1, <2>2, <2>3, NextIsCheckout
<1>10. ASSUME NEW s \in Subs, Razorpay(s) PROVE EndsOK'
  <2>1. CASE PeriodEnds(s)
    <3>1. over' = [over EXCEPT ![s] = remote[s].end] /\ UNCHANGED <<rows, payments, remote, sent, job, events>>
      BY <2>1 DEF PeriodEnds, tables, rowVars
    <3>2. \A q \in Subs : over'[q] <= sent
      BY <1>0, <3>1
    <3> QED
      BY <1>0, <3>1, <3>2, OtherEnds
  <2>2. CASE Charge(s)
    <3>1. PICK r : r = [status |-> "ACTIVE", end |-> remote[s].end + 1]
      OBVIOUS
    <3>2. r \in Entity /\ r.end = remote[s].end + 1
      BY <1>0, <3>1 DEF Entity, Statuses, Good
    <3>3. Tell(s, "charged", r) /\ UNCHANGED over
      BY <2>2, <3>1 DEF Charge
    <3> QED
      BY <1>0, <3>2, <3>3, ToldEnds
  <2>3. ASSUME NEW type, type # "charged", NEW status \in Statuses, Tell(s, type, With(s, status)), UNCHANGED over
        PROVE  EndsOK'
    <3>1. PICK r \in Entity : r = With(s, status) /\ r.end = remote[s].end
      BY WithIs DEF BaseInv
    <3> QED
      BY <1>0, <2>3, <3>1, ToldEnds
  <2>4. {"AUTHENTICATED", "ACTIVE", "PENDING", "HALTED", "PAUSED", "CANCELLED", "COMPLETED"} \subseteq Statuses
    BY DEF Statuses, Good, Dead
  <2>5. ASSUME Pay(s) \/ ChargeFails(s) \/ Halt(s) \/ Pause(s) \/ Resume(s) \/ CancelNow(s) \/ Complete(s)
        PROVE  \E type, status : /\ type # "charged" /\ status \in Statuses
                                 /\ Tell(s, type, With(s, status)) /\ UNCHANGED over
    <3>1. CASE Pay(s)
      BY <2>4, <3>1 DEF Pay
    <3>2. CASE ChargeFails(s)
      BY <2>4, <3>2 DEF ChargeFails
    <3>3. CASE Halt(s)
      BY <2>4, <3>3 DEF Halt
    <3>4. CASE Pause(s)
      BY <2>4, <3>4 DEF Pause
    <3>5. CASE Resume(s)
      BY <2>4, <3>5 DEF Resume
    <3>6. CASE CancelNow(s)
      BY <2>4, <3>6 DEF CancelNow
    <3>7. CASE Complete(s)
      BY <2>4, <3>7 DEF Complete
    <3> QED
      BY <2>5, <3>1, <3>2, <3>3, <3>4, <3>5, <3>6, <3>7
  <2> QED
    BY <1>10, <2>1, <2>2, <2>3, <2>5 DEF Razorpay
<1>11. CASE MakeEnterprise \/ UNCHANGED vars
  <2>1. UNCHANGED <<rows, payments, over, remote, sent, job, events>>
    BY <1>11 DEF MakeEnterprise, vars, tables, rowVars, razorpay
  <2> QED
    BY <1>0, <2>1, OtherEnds
<1> QED
  BY <1>4, <1>5, <1>6, <1>7, <1>8, <1>9, <1>10, <1>11, StepEnds DEF Next, Deliver

LEMMA NextCounts ==
  ASSUME BaseInv, CountsOK, [Next]_vars
  PROVE  CountsOK'
<1>0. /\ sent \in Nat /\ job \in [Handlers -> Job] /\ signed \subseteq Subs
      /\ MaxEvents \in Nat /\ MaxCancels \in Nat /\ MaxFailures \in Nat
      /\ \A e \in events : e.sub \in Subs
      /\ \A h \in Handlers : job[h].stale \in BOOLEAN
  BY BillingAssumption DEF BaseInv, Typed, Event, Job
<1>1. ASSUME Fails PROVE failures' \in 0 .. MaxFailures /\ cancels' = cancels
  BY <1>0, <1>1 DEF Fails, CountsOK
<1>2. ASSUME NEW h \in Handlers, Step(h) PROVE CountsOK'
  <2>1. /\ sent' = sent
    BY <1>2 DEF Step, Create, Insert, Fetch, ForceStatus, Grant, Record, Cancel, Close, Apply, SyncRead, RestRead,
       SetPlan, RequestFails, razorpay
  <2>2. CASE Cancel(h) \/ Fetch(h)
    <3>1. job[h].sub \in Subs
      BY <2>2, AtManages DEF Cancel, Fetch, At
    <3> QED
      BY <1>1, <2>1, <2>2, <3>1 DEF Cancel, Fetch, CountsOK, bounds, history, razorpay
  <2>3. CASE RequestFails(h)
    <3>1. job[h].event # 0 => job[h].sub \in Subs
      BY <1>0 DEF BaseInv, JobsOK, KnowsOK, Manages, Webhook, EventTypes
    <3>2. lost' \subseteq Subs /\ unsynced' \in BOOLEAN
      BY <2>3, <3>1 DEF RequestFails, CountsOK
    <3> QED
      BY <1>1, <2>1, <2>3, <3>2 DEF RequestFails, CountsOK, razorpay
  <2>4. CASE SyncRead(h) \/ RestRead(h) \/ SetPlan(h)
    <3>1. unsynced' \in BOOLEAN
      BY <1>0, <2>4 DEF SyncRead, RestRead, SetPlan, Synced, WillSet, CountsOK
    <3>2. UNCHANGED <<leaving, bounds, lost, disordered, doubled>>
      BY <2>4 DEF SyncRead, RestRead, SetPlan
    <3> QED
      BY <2>1, <3>1, <3>2 DEF CountsOK, bounds
  <2>5. CASE Create(h) \/ Insert(h) \/ ForceStatus(h) \/ Grant(h) \/ Record(h) \/ Close(h) \/ Apply(h)
    <3>1. UNCHANGED <<leaving, bounds, history>>
      BY <2>5 DEF Create, Insert, ForceStatus, Grant, Record, Close, Apply, razorpay
    <3> QED
      BY <2>1, <3>1 DEF CountsOK, bounds, history
  <2> QED
    BY <1>2, <2>2, <2>3, <2>4, <2>5 DEF Step
<1>3. ASSUME NEW h \in Handlers, ReceiveCheckout(h) PROVE CountsOK'
  <2>1. doubled' \in BOOLEAN
    BY <1>3 DEF ReceiveCheckout, CountsOK
  <2> QED
    BY <1>3, <2>1 DEF ReceiveCheckout, CountsOK, bounds
<1>4. ASSUME NEW h \in Handlers, ReceiveCancel(h) PROVE CountsOK'
  <2>1. LastIn(made, Cancellable) \in Subs
    BY <1>4, LastInFacts DEF ReceiveCancel, BaseInv, Typed
  <2> QED
    BY <1>0, <1>4, <2>1 DEF ReceiveCancel, CountsOK, razorpay
<1>5. ASSUME NEW h \in Handlers, NEW s \in Subs, ReceiveVerify(h, s) PROVE CountsOK'
  BY <1>5 DEF ReceiveVerify, CountsOK, bounds
<1>6. ASSUME NEW h \in Handlers, NEW e \in events, ReceiveEvent(h, e) PROVE CountsOK'
  <2>1. e.sub \in Subs
    BY <1>0
  <2>2. lost' \subseteq Subs /\ disordered' \subseteq Subs
    BY <1>6, <2>1 DEF ReceiveEvent, CountsOK
  <2> QED
    BY <1>6, <2>2 DEF ReceiveEvent, CountsOK, bounds
<1>7. ASSUME NEW e \in events, Duplicate(e) \/ DedupeFails(e) PROVE CountsOK'
  <2>1. e.sub \in Subs
    BY <1>0
  <2> QED
    BY <1>1, <1>7, <2>1 DEF Duplicate, DedupeFails, CountsOK, bounds, history
<1>8. ASSUME NEW s \in Subs, Razorpay(s) PROVE CountsOK'
  <2>1. CASE PeriodEnds(s)
    BY <2>1 DEF PeriodEnds, CountsOK, bounds, history
  <2>2. ASSUME NEW type, NEW r, Tell(s, type, r), doubled' \in BOOLEAN, leaving' = leaving PROVE CountsOK'
    BY <1>0, <2>2 DEF Tell, CountsOK, bounds
  <2>3. CASE Pay(s) \/ Charge(s) \/ ChargeFails(s) \/ Halt(s) \/ Pause(s) \/ CancelNow(s) \/ Complete(s)
    <3>1. UNCHANGED <<leaving, doubled>> /\ \E type, r : Tell(s, type, r)
      BY <2>3 DEF Pay, Charge, ChargeFails, Halt, Pause, CancelNow, Complete
    <3> QED
      BY <2>2, <3>1 DEF CountsOK
  <2>4. CASE Resume(s)
    <3>1. leaving' = leaving /\ doubled' \in BOOLEAN /\ \E type, r : Tell(s, type, r)
      BY <2>4 DEF Resume, CountsOK
    <3> QED
      BY <2>2, <3>1
  <2> QED
    BY <1>8, <2>1, <2>3, <2>4 DEF Razorpay
<1>9. CASE MakeEnterprise \/ UNCHANGED vars
  <2>1. UNCHANGED <<leaving, sent, bounds, history>>
    BY <1>9 DEF MakeEnterprise, vars, razorpay
  <2> QED
    BY <2>1 DEF CountsOK, bounds, history
<1> QED
  BY <1>2, <1>3, <1>4, <1>5, <1>6, <1>7, <1>8, <1>9 DEF Next, Deliver

LEMMA InitTypes ==
  Init => TypeInv
<1> SUFFICES ASSUME Init PROVE TypeInv
  OBVIOUS
<1>1. ListsOK
  <2>1. Rowed = {} /\ made = <<>> /\ touched = <<>> /\ Len(<<>>) = 0 /\ 1 .. 0 = {}
    BY DEF Init, Rowed, NoRow
  <2> QED
    BY <2>1 DEF ListsOK, Lists
<1>2. EndsOK
  BY IdleIsJob, IdleCarries DEF Init, EndsOK, NoRow, NoRemote, Unpaid
<1>3. CountsOK
  <2>1. MaxEvents \in Nat /\ 0 \in 0 .. MaxCancels /\ 0 \in 0 .. MaxFailures
    BY BillingAssumption
  <2>2. sent <= MaxEvents /\ cancels \in 0 .. MaxCancels /\ failures \in 0 .. MaxFailures
    BY <2>1 DEF Init
  <2>3. leaving \cup lost \cup disordered \subseteq Subs
    BY DEF Init
  <2>4. doubled \in BOOLEAN /\ unsynced \in BOOLEAN
    BY DEF Init
  <2> QED
    BY <2>2, <2>3, <2>4 DEF CountsOK
<1> QED
  BY <1>1, <1>2, <1>3 DEF TypeInv

LEMMA TypesOK ==
  ASSUME BaseInv, TypeInv
  PROVE  TypeOK
<1>1. /\ sent \in Nat /\ sent <= MaxEvents /\ MaxEvents \in Nat /\ rows \in [Subs -> Row]
      /\ remote \in [Subs -> Entity] /\ over \in [Subs -> Nat] /\ job \in [Handlers -> Job]
      /\ made \in Seq(Subs) /\ touched \in Seq(Subs) /\ plan \in Plans
  BY BillingAssumption DEF BaseInv, Typed, TypeInv, CountsOK
<1>2. ASSUME NEW n \in Nat, n <= sent PROVE n \in {0} \cup Periods
  BY <1>1, <1>2 DEF Periods
<1>3. rows \in [Subs -> [status : Statuses \cup {"NONE"}, cancelAtEnd : BOOLEAN, end : {0} \cup Periods]]
  BY <1>1, <1>2 DEF Row, TypeInv, EndsOK
<1>4. remote \in [Subs -> [status : Statuses \cup {"NONE"}, end : {0} \cup Periods]]
  BY <1>1, <1>2 DEF Entity, TypeInv, EndsOK
<1>5. over \in [Subs -> {0} \cup Periods]
  BY <1>1, <1>2 DEF TypeInv, EndsOK
<1>6. payments \subseteq Subs \X Periods
  BY <1>1 DEF Periods, TypeInv, EndsOK
<1>7. Rowed = {s \in Subs : rows[s] # NoRow}
  BY DEF Rowed, BaseInv, MadeOK, NoRow
<1>8. \A q \in {made, touched} :
        /\ q \in Seq(Subs)
        /\ {q[i] : i \in DOMAIN q} = {s \in Subs : rows[s] # NoRow}
        /\ Len(q) = Cardinality({s \in Subs : rows[s] # NoRow})
  BY <1>1, <1>7, ListsLength DEF TypeInv, ListsOK
<1>9. seen \cup {e.id : e \in events} \subseteq 1 .. sent
  <2>1. seen \subseteq 1 .. sent
    BY DEF BaseInv, Typed
  <2>2. ASSUME NEW e \in events PROVE e.id \in 1 .. sent
    <3>1. e.id \in Nat /\ 1 <= e.id /\ e.id <= sent
      BY DEF BaseInv, Typed, EventsOK, Event
    <3> QED
      BY <1>1, <3>1
  <2> QED
    BY <2>1, <2>2
<1>10. \A h \in Handlers : job[h].todo \in Seq(Steps) /\ job[h].sub \in {0} \cup Subs
  BY <1>1 DEF Job
<1>11. leaving \cup signed \cup lost \cup disordered \subseteq Subs
  BY DEF BaseInv, Typed, TypeInv, CountsOK
<1>12. sent \in 0 .. MaxEvents
  BY <1>1
<1> QED
  BY <1>1, <1>3, <1>4, <1>5, <1>6, <1>8, <1>9, <1>10, <1>11, <1>12 DEF TypeOK, TypeInv, CountsOK, Plans

\* The rows are listed once each in the order of createdAt and in that of updatedAt, however
\* they are written; a row, a payment or a request names no period that Razorpay has not charged
\* and told of.
THEOREM BillingTypeCorrect ==
  Spec => []TypeOK
<1>1. BaseInv /\ TypeInv /\ [Next]_vars => BaseInv' /\ TypeInv'
  BY NextBase, NextLists, NextEnds, NextCounts DEF TypeInv
<1>2. BaseInv /\ TypeInv => TypeOK
  BY TypesOK
<1> QED
  BY <1>1, <1>2, InitBase, InitTypes, PTL DEF Spec

===============================================================================

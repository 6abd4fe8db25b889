------------------------------ MODULE Billing ------------------------------
(***************************************************************************)
(* The Pro subscriptions of one user: checkout, verification, cancellation *)
(* and Razorpay's webhooks against the rows of auth-service and user.plan. *)
(*                                                                         *)
(* A request is a list of steps, `job[h].todo', one for each query of the  *)
(* database or call of Razorpay that others can come between; an action is *)
(* the step at the head of one list.  Razorpay is external: it charges,    *)
(* pauses and cancels when it likes and tells of it by events, which it    *)
(* sends in any order and again until they are answered with 200.          *)
(***************************************************************************)
EXTENDS Naturals, Sequences, FiniteSets

CONSTANTS
  Handlers,     \* bound: requests in progress at a time
  MaxSubs,      \* bound: subscriptions ever made at Razorpay
  MaxEvents,    \* bound: events sent
  MaxCancels,   \* bound: requests to cancel
  MaxFailures   \* bound: failing queries and calls

ASSUME BillingAssumption == {MaxSubs, MaxEvents, MaxCancels, MaxFailures} \subseteq Nat

VARIABLES
  plan,       \* user.plan
  rows,       \* BillingSubscription: rows[s] = [status, cancelAtEnd, end]
  made,       \* the rows in order of createdAt
  touched,    \* the rows in order of updatedAt
  payments,   \* BillingPayment: <<subscription, period>>
  seen,       \* BillingWebhookEvent.eventId
  job,        \* requests in progress
  remote,     \* Razorpay: remote[s] = [status, end], end the periods charged
  over,       \* over[s]: how many of these periods are over
  leaving,    \* subscriptions to be cancelled when the period is over
  signed,     \* paid subscriptions whose checkout has yet to call verify
  events,     \* events not answered with 200
  sent, cancels, failures, \* events, requests to cancel and failures so far
  \* History:
  lost,       \* subscriptions an event of which was answered and not applied
  disordered, \* those whose events came out of order or while a request was at work on them
  doubled,    \* two checkouts were at work, or one that did not know of a subscription resumed
  unsynced    \* a request failed before its sync, or wrote what it had read before a change

rowVars == <<rows, made, touched>>
tables == <<plan, rowVars, payments, seen>>
razorpay == <<remote, over, leaving, signed, events, sent>>
history == <<lost, disordered, doubled, unsynced>>
bounds == <<cancels, failures>>
vars == <<tables, job, razorpay, bounds, history>>

Fails == failures < MaxFailures /\ failures' = failures + 1 /\ UNCHANGED cancels

Subs == 1 .. MaxSubs
Periods == 1 .. MaxEvents
Dead == {"HALTED", "CANCELLED", "COMPLETED", "PAUSED"}
Good == {"AUTHENTICATED", "ACTIVE"}
Live == Good \cup {"PENDING"}
Statuses == {"CREATED", "PENDING"} \cup Good \cup Dead
Syncing == {"sync", "rest", "set"}
Steps == {"create", "insert", "fetch", "apply", "force", "grant", "record", "cancel", "close"}
           \cup Syncing

NoRow == [status |-> "NONE", cancelAtEnd |-> FALSE, end |-> 0]
NoRemote == [status |-> "NONE", end |-> 0]
\* A request: its steps, what it is, its subscription, what Razorpay said of that
\* (entity), its event; the plan its sync has read, then the one it is to write; and
\* whether rows or plan have changed since the sync began (history).
Idle == [todo |-> <<>>, kind |-> "none", sub |-> 0, entity |-> NoRemote, event |-> 0,
         plan |-> "FREE", stale |-> FALSE]

TypeOK ==
  /\ plan \in {"FREE", "PRO", "ENTERPRISE"}
  /\ rows \in [Subs -> [status : Statuses \cup {"NONE"}, cancelAtEnd : BOOLEAN,
                        end : {0} \cup Periods]]
  /\ \A q \in {made, touched} :
       /\ q \in Seq(Subs)
       /\ {q[i] : i \in DOMAIN q} = {s \in Subs : rows[s] # NoRow}
       /\ Len(q) = Cardinality({s \in Subs : rows[s] # NoRow})
  /\ payments \subseteq Subs \X Periods
  /\ \A h \in Handlers : job[h].todo \in Seq(Steps) /\ job[h].sub \in {0} \cup Subs
  /\ remote \in [Subs -> [status : Statuses \cup {"NONE"}, end : {0} \cup Periods]]
  /\ over \in [Subs -> {0} \cup Periods]
  /\ leaving \cup signed \cup lost \cup disordered \subseteq Subs
  /\ sent \in 0 .. MaxEvents /\ cancels \in 0 .. MaxCancels /\ failures \in 0 .. MaxFailures
  /\ seen \cup {e.id : e \in events} \subseteq 1 .. sent
  /\ doubled \in BOOLEAN /\ unsynced \in BOOLEAN

Init ==
  /\ plan = "FREE"
  /\ rows = [s \in Subs |-> NoRow] /\ made = <<>> /\ touched = <<>>
  /\ payments = {} /\ seen = {}
  /\ job = [h \in Handlers |-> Idle]
  /\ remote = [s \in Subs |-> NoRemote] /\ over = [s \in Subs |-> 0]
  /\ leaving = {} /\ signed = {} /\ events = {}
  /\ sent = 0 /\ cancels = 0 /\ failures = 0
  /\ lost = {} /\ disordered = {} /\ doubled = FALSE /\ unsynced = FALSE

----------------------------------------------------------------------------
(* Requests.                                                               *)

At(h, step) == job[h].todo # <<>> /\ job[h].todo[1] = step
Start(h, kind, s, todo) == [Idle EXCEPT !.kind = kind, !.sub = s, !.todo = todo]
Next1(h) == IF Len(job[h].todo) = 1 THEN Idle ELSE [job[h] EXCEPT !.todo = Tail(@)]
Busy(s) == \E h \in Handlers : job[h].sub = s

\* Request h goes on as j.
Goes(h, j) == job' = [job EXCEPT ![h] = j]

\* It does, and has changed rows or plan: a sync of another request that has read them
\* and is still to write goes on with what it has read.
Changes(h, j) ==
  job' = [g \in Handlers |->
            IF g = h THEN j ELSE IF At(g, "rest") \/ At(g, "set") THEN [job[g] EXCEPT !.stale = TRUE]
            ELSE job[g]]

\* At its last step the event of a webhook is answered with 200.
Answer(h) ==
  events' = IF Len(job[h].todo) = 1 THEN {e \in events : e.id # job[h].event} ELSE events

\* The last subscription in the order q that has one of the statuses, or 0.
LastIn(q, statuses) ==
  LET at == {i \in DOMAIN q : rows[q[i]].status \in statuses}
  IN IF at = {} THEN 0 ELSE q[CHOOSE i \in at : \A j \in at : j <= i]

\* The row of s is updated, and its updatedAt with it.
MovedLast(q, s) ==
  [i \in DOMAIN q |-> IF i = Len(q) THEN s ELSE IF \E j \in 1 .. i : q[j] = s THEN q[i + 1] ELSE q[i]]
PutRow(s, row) ==
  /\ rows' = [rows EXCEPT ![s] = row]
  /\ touched' = MovedLast(touched, s)

----------------------------------------------------------------------------
(* POST /billing/subscribe, and the dialog that follows.                   *)

\* ENTERPRISE and a subscription in force are refused; one that awaits its first
\* payment is shown again, which changes nothing; otherwise one is made.
\* Mutant of Subscribed: a subscription that has not been charged does not count.
Uncharged == {"CREATED", "ACTIVE", "PENDING"}
Subscribed == {"CREATED", "AUTHENTICATED", "ACTIVE", "PENDING"}
CheckingOut == \E h \in Handlers : job[h].kind = "checkout"
ReceiveCheckout(h) ==
  LET s == LastIn(made, Subscribed) IN
  /\ job[h] = Idle /\ plan # "ENTERPRISE"
  /\ s = 0 /\ \E r \in Subs : remote[r] = NoRemote
  /\ Goes(h, Start(h, "checkout", 0, <<"create", "insert">>))
  /\ doubled' = (doubled \/ CheckingOut \/ \E r \in Subs :
                   rows[r].status = "PAUSED" /\ remote[r].status \in Live)
  /\ UNCHANGED <<tables, remote, over, leaving, signed, events, sent, bounds,
                 lost, disordered, unsynced>>

\* createRazorpaySubscription.
Create(h) ==
  LET unused == {s \in Subs : remote[s] = NoRemote}
      s == CHOOSE s \in unused : \A r \in unused : s <= r
  IN /\ At(h, "create") /\ unused # {}
     /\ remote' = [remote EXCEPT ![s].status = "CREATED"]
     /\ Goes(h, [Next1(h) EXCEPT !.sub = s])
     /\ UNCHANGED <<tables, over, leaving, signed, events, sent, bounds, history>>

Insert(h) ==
  LET s == job[h].sub IN
  /\ At(h, "insert")
  /\ rows' = [rows EXCEPT ![s].status = "CREATED"]
  /\ made' = Append(made, s) /\ touched' = Append(touched, s)
  /\ Goes(h, Idle)
  /\ UNCHANGED <<plan, payments, seen, remote, over, leaving, signed, events, sent, bounds,
                 history>>

----------------------------------------------------------------------------
(* POST /billing/verify, by the dialog of a payment.                       *)

ReceiveVerify(h, s) ==
  /\ job[h] = Idle /\ s \in signed
  /\ signed' = signed \ {s}
  /\ Goes(h, Start(h, "verify", s, <<"fetch", "apply", "sync", "force", "grant", "record", "sync">>))
  /\ disordered' = IF Busy(s) THEN disordered \cup {s} ELSE disordered
  /\ UNCHANGED <<tables, remote, over, leaving, events, sent, bounds,
                 lost, doubled, unsynced>>

\* What Razorpay says, or "authenticated" if it cannot be asked.
\* Row and plan are not forced for a subscription that is dead or in arrears.
Fetch(h) ==
  LET s == job[h].sub
      Told(e) == [Next1(h) EXCEPT !.entity = e,
                    !.todo = IF e.status \in Good \cup {"CREATED"} THEN @
                             ELSE <<"apply", "sync", "record", "sync">>]
  IN /\ At(h, "fetch")
     /\ \/ Goes(h, Told(remote[s])) /\ UNCHANGED <<bounds, disordered>>
        \/ /\ Fails
           /\ Goes(h, Told([NoRemote EXCEPT !.status = "AUTHENTICATED"]))
           /\ disordered' = disordered \cup {s}
     /\ UNCHANGED <<tables, razorpay, lost, doubled, unsynced>>

ForceStatus(h) ==
  LET s == job[h].sub
      status == job[h].entity.status
  IN /\ At(h, "force")
     /\ PutRow(s, [rows[s] EXCEPT !.status = IF status = "CREATED" THEN "AUTHENTICATED" ELSE status])
     /\ Changes(h, Next1(h))
     /\ UNCHANGED <<plan, made, payments, seen, razorpay, bounds, history>>

Grant(h) ==
  /\ At(h, "grant")
  /\ plan' = "PRO"
  /\ Changes(h, Next1(h))
  /\ UNCHANGED <<rowVars, payments, seen, razorpay, bounds, history>>

\* recordBillingPayment, an upsert: of the first payment, or the one charged.
PaidPeriod(h) == IF job[h].kind = "verify" THEN 1 ELSE job[h].entity.end
Record(h) ==
  /\ At(h, "record")
  /\ payments' = payments \cup {<<job[h].sub, PaidPeriod(h)>>}
  /\ Goes(h, Next1(h))
  /\ UNCHANGED <<plan, rowVars, seen, razorpay, bounds, history>>

----------------------------------------------------------------------------
(* POST /billing/cancel.                                                   *)

Cancellable == Good \cup {"PENDING", "PAUSED"}
ReceiveCancel(h) ==
  LET s == LastIn(made, Cancellable) IN
  /\ job[h] = Idle /\ s # 0
  /\ cancels < MaxCancels /\ cancels' = cancels + 1
  /\ Goes(h, Start(h, "cancel", s, <<"cancel", "close", "sync">>))
  /\ disordered' = IF Busy(s) THEN disordered \cup {s} ELSE disordered
  /\ UNCHANGED <<tables, razorpay, failures, lost, doubled, unsynced>>

\* Razorpay is asked to cancel when the period is over.
Cancel(h) ==
  LET s == job[h].sub IN
  /\ At(h, "cancel") /\ remote[s].status \in Cancellable
  /\ leaving' = leaving \cup {s}
  /\ Goes(h, [Next1(h) EXCEPT !.entity = remote[s]])
  /\ UNCHANGED <<tables, remote, over, signed, events, sent, bounds, history>>

Close(h) ==
  LET e == job[h].entity IN
  /\ At(h, "close")
  /\ PutRow(job[h].sub, [status |-> e.status, cancelAtEnd |-> TRUE, end |-> e.end])
  /\ Changes(h, Next1(h))
  /\ UNCHANGED <<plan, made, payments, seen, razorpay, bounds, history>>

----------------------------------------------------------------------------
(* POST /billing/webhooks/razorpay.                                        *)

\* The insertion of the event's id tells whether it was seen before, or fails, which
\* is taken for the same; a subscription without a row is none of ours.
Accepted(e) == e.id \notin seen
ReceiveEvent(h, e) ==
  /\ job[h] = Idle
  /\ \A g \in Handlers : job[g].event # e.id
  /\ Accepted(e) /\ seen' = seen \cup {e.id}
  /\ IF rows[e.sub] = NoRow
       THEN /\ events' = events \ {e}
            /\ lost' = lost \cup {e.sub}
            /\ UNCHANGED <<job, disordered>>
       ELSE /\ Goes(h, [Start(h, e.type, e.sub,
                        CASE e.type = "charged" -> <<"apply", "sync", "record", "sync">>
                          [] e.type \in {"cancelled", "completed", "paused"} -> <<"apply", "sync">>
                          [] OTHER -> <<"apply", "sync", "sync">>)
                      EXCEPT !.entity = e.entity, !.event = e.id])
            /\ disordered' = IF Busy(e.sub) \/ \E f \in events : f.sub = e.sub /\ f.id < e.id
                             THEN disordered \cup {e.sub} ELSE disordered
            /\ UNCHANGED <<events, lost>>
  /\ UNCHANGED <<plan, rowVars, payments, remote, over, leaving, signed, sent, bounds,
                 doubled, unsynced>>

Duplicate(e) ==
  /\ ~Accepted(e)
  /\ \A g \in Handlers : job[g].event # e.id
  /\ events' = events \ {e}
  /\ UNCHANGED <<tables, job, remote, over, leaving, signed, sent, bounds, history>>

DedupeFails(e) ==
  /\ Accepted(e)
  /\ Fails
  /\ events' = events \ {e}
  /\ lost' = lost \cup {e.sub}
  /\ UNCHANGED <<tables, job, remote, over, leaving, signed, sent,
                 disordered, doubled, unsynced>>

\* applySubscriptionEntity up to its sync, or what the webhook does in its place.
\* Mutant of Applied: the webhook of a pause takes the status from the entity's charge.
Unpaused(kind, row, e) == [row EXCEPT !.end = e.end]
Applied(kind, row, e) ==
  CASE kind = "paused" -> [row EXCEPT !.status = "PAUSED"]
    [] kind = "cancelled" -> [status |-> e.status, cancelAtEnd |-> TRUE, end |-> e.end]
    [] OTHER -> [row EXCEPT !.status = e.status, !.end = e.end]
Apply(h) ==
  LET s == job[h].sub IN
  /\ At(h, "apply")
  /\ PutRow(s, Applied(job[h].kind, rows[s], job[h].entity))
  /\ Changes(h, Next1(h))
  /\ UNCHANGED <<plan, made, payments, seen, razorpay, bounds, history>>

----------------------------------------------------------------------------
(* syncUserPlanFromBilling.  Two reads and a write: the plan and the good  *)
(* rows; the other rows.                                                   *)

Synced(h) ==
  /\ Goes(h, Next1(h))
  /\ Answer(h)
  /\ unsynced' = job[h].stale
  /\ UNCHANGED plan
WillSet(h, p) ==
  /\ Goes(h, [job[h] EXCEPT !.todo[1] = "set", !.plan = p])
  /\ UNCHANGED <<plan, events, unsynced>>

Manual(p) == p = "ENTERPRISE"
SyncRead(h) ==
  /\ At(h, "sync")
  /\ \/ /\ Manual(plan) \/ (LastIn(touched, Good) # 0 /\ plan = "PRO")
        /\ Goes(h, [Next1(h) EXCEPT !.stale = FALSE]) /\ Answer(h)
        /\ unsynced' = FALSE
     \/ /\ ~Manual(plan) /\ ~(LastIn(touched, Good) # 0 /\ plan = "PRO")
        /\ Goes(h, [job[h] EXCEPT !.plan = IF LastIn(touched, Good) # 0 THEN "PRO" ELSE plan,
                     !.todo[1] = IF LastIn(touched, Good) # 0 THEN "set" ELSE "rest",
                     !.stale = FALSE])
        /\ UNCHANGED <<events, unsynced>>
  /\ UNCHANGED <<tables, remote, over, leaving, signed, sent, bounds,
                 lost, disordered, doubled>>

\* PRO stays while a charge is retried, and after a cancellation until the period is over.
LastDead == LastIn(touched, Dead)
\* Mutant of PaidUp: whatever ended the subscription.
PaidOnce(s) == s # 0 /\ rows[s].end > over[s]
PaidUp(s) ==
  s # 0 /\ rows[s].status = "CANCELLED" /\ rows[s].cancelAtEnd /\ rows[s].end > over[s]
RestRead(h) ==
  LET p == IF PaidUp(LastDead) THEN "PRO" ELSE "FREE" IN
  /\ At(h, "rest")
  /\ IF LastIn(touched, {"PENDING"}) # 0 \/ job[h].plan = p THEN Synced(h) ELSE WillSet(h, p)
  /\ UNCHANGED <<rowVars, payments, seen, remote, over, leaving, signed, sent, bounds,
                 lost, disordered, doubled>>

SetPlan(h) ==
  /\ At(h, "set")
  /\ plan' = job[h].plan
  /\ Changes(h, Next1(h)) /\ Answer(h)
  /\ unsynced' = job[h].stale
  /\ UNCHANGED <<rowVars, payments, seen, remote, over, leaving, signed, sent, bounds,
                 lost, disordered, doubled>>

\* A query fails, or auth-service restarts: the request is over.
RequestFails(h) ==
  /\ job[h] # Idle
  /\ Fails
  /\ Goes(h, Idle)
  /\ lost' = IF job[h].event = 0 THEN lost ELSE lost \cup {job[h].sub}
  /\ unsynced' = (unsynced \/ \E i \in DOMAIN job[h].todo : job[h].todo[i] \in Syncing)
  /\ UNCHANGED <<tables, razorpay, disordered, doubled>>

\* ENTERPRISE is given by hand, here while nothing is at work.
MakeEnterprise ==
  /\ plan # "ENTERPRISE" /\ \A h \in Handlers : job[h] = Idle
  /\ plan' = "ENTERPRISE"
  /\ UNCHANGED <<rowVars, payments, seen, job, razorpay, bounds, history>>

----------------------------------------------------------------------------
(* Razorpay.                                                               *)

\* Subscription s is now r, and an event says so.
Tell(s, type, r) ==
  /\ sent < MaxEvents /\ sent' = sent + 1
  /\ remote' = [remote EXCEPT ![s] = r]
  /\ events' = events \cup {[id |-> sent + 1, sub |-> s, type |-> type, entity |-> r]}
  /\ UNCHANGED <<tables, job, bounds, lost, disordered, unsynced>>

With(s, status) == [remote[s] EXCEPT !.status = status]

Pay(s) ==
  /\ rows[s] # NoRow /\ remote[s].status = "CREATED"
  /\ Tell(s, "authenticated", With(s, "AUTHENTICATED"))
  /\ signed' = signed \cup {s}
  /\ UNCHANGED <<over, leaving, doubled>>

Charge(s) ==
  /\ remote[s].status \in Good \cup {"PENDING"}
  /\ over[s] = remote[s].end /\ s \notin leaving
  /\ Tell(s, "charged", [status |-> "ACTIVE", end |-> remote[s].end + 1])
  /\ UNCHANGED <<over, leaving, signed, doubled>>

ChargeFails(s) ==
  /\ remote[s].status = "ACTIVE" /\ over[s] = remote[s].end /\ s \notin leaving
  /\ Tell(s, "pending", With(s, "PENDING"))
  /\ UNCHANGED <<over, leaving, signed, doubled>>

Halt(s) ==
  /\ remote[s].status = "PENDING"
  /\ Tell(s, "halted", With(s, "HALTED"))
  /\ UNCHANGED <<over, leaving, signed, doubled>>

Pause(s) ==
  /\ remote[s].status = "ACTIVE"
  /\ Tell(s, "paused", With(s, "PAUSED"))
  /\ UNCHANGED <<over, leaving, signed, doubled>>

Resume(s) ==
  /\ remote[s].status = "PAUSED"
  /\ Tell(s, "resumed", With(s, "ACTIVE"))
  /\ doubled' = (doubled \/ CheckingOut \/ \E r \in Subs \ {s} :
                   rows[r] # NoRow /\ remote[r].status \in Live \cup {"CREATED"})
  /\ UNCHANGED <<over, leaving, signed>>

\* From the dashboard, or because the period is over and it was asked to.
CancelNow(s) ==
  /\ remote[s].status \in Cancellable \cup {"CREATED"}
  /\ s \in leaving => over[s] = remote[s].end
  /\ Tell(s, "cancelled", With(s, "CANCELLED"))
  /\ UNCHANGED <<over, leaving, signed, doubled>>

Complete(s) ==
  /\ remote[s].status = "ACTIVE" /\ over[s] = remote[s].end
  /\ Tell(s, "completed", With(s, "COMPLETED"))
  /\ UNCHANGED <<over, leaving, signed, doubled>>

PeriodEnds(s) ==
  /\ over[s] < remote[s].end
  /\ over' = [over EXCEPT ![s] = remote[s].end]
  /\ UNCHANGED <<tables, job, remote, leaving, signed, events, sent, bounds, history>>

----------------------------------------------------------------------------
Step(h) ==
  \/ Create(h) \/ Insert(h) \/ Fetch(h) \/ ForceStatus(h) \/ Grant(h) \/ Record(h)
  \/ Cancel(h) \/ Close(h) \/ Apply(h) \/ SyncRead(h) \/ RestRead(h) \/ SetPlan(h)
  \/ RequestFails(h)
Deliver == \E e \in events : Duplicate(e) \/ DedupeFails(e) \/ \E h \in Handlers : ReceiveEvent(h, e)
Razorpay(s) ==
  \/ Pay(s) \/ Charge(s) \/ ChargeFails(s) \/ Halt(s) \/ Pause(s) \/ Resume(s)
  \/ CancelNow(s) \/ Complete(s) \/ PeriodEnds(s)

Next ==
  \/ \E h \in Handlers :
       \/ ReceiveCheckout(h) \/ ReceiveCancel(h) \/ Step(h)
       \/ \E s \in Subs : ReceiveVerify(h, s)
  \/ Deliver
  \/ \E s \in Subs : Razorpay(s)
  \/ MakeEnterprise

Spec == Init /\ [][Next]_vars

----------------------------------------------------------------------------
(* Properties.                                                             *)

AtRest == \A h \in Handlers : job[h] = Idle

\* When every event has been answered, a subscription's row says what Razorpay says and
\* every charge is recorded: unless an event was answered and not applied, or, for the
\* status, events and requests overlapped or were out of order.
RowsFollowRazorpay ==
  AtRest /\ events = {} =>
    \A s \in Subs \ lost : rows[s] # NoRow =>
      /\ s \notin disordered => rows[s].status = remote[s].status
      /\ \A n \in 1 .. remote[s].end : <<s, n>> \in payments

\* When no request is at work, the plan is the one the rows stand for: whatever the order
\* of syncs, unless the last one wrote what it had read before another's change, or a
\* request failed before its sync.
PlanFollowsRows ==
  AtRest /\ ~unsynced /\ plan # "ENTERPRISE" =>
    \/ LastIn(touched, Good) # 0 /\ plan = "PRO"
    \/ /\ LastIn(touched, Good) = 0
       /\ \/ LastIn(touched, {"PENDING"}) # 0
          \/ plan = "PRO" /\ LastIn(touched, Dead) # 0
               /\ rows[LastIn(touched, Dead)].status = "CANCELLED"
          \/ plan = "FREE" /\ ~PaidUp(LastIn(touched, Dead))

\* The user pays for one subscription at a time, unless two checkouts were at work at
\* once, or one began while another subscription was paused and that has been resumed:
\* paused rows do not keep a checkout from beginning, and a resumption is told later.
OneLiveSubscription ==
  ~doubled => \A s, r \in Subs : {remote[s].status, remote[r].status} \subseteq Live => s = r
=============================================================================

---------------------------- MODULE BillingPage ----------------------------
(***************************************************************************)
(* The billing page: it shows the plan of the user, sells Pro through the  *)
(* checkout dialog of Razorpay, whose script it loads first, and cancels   *)
(* Pro.  What the requests do to the rows is in Billing; here auth-service *)
(* is one record, which changes elsewhere too: webhooks, other tabs.       *)
(***************************************************************************)
EXTENDS Naturals, FiniteSets

CONSTANTS
  Loads,       \* bound: loads of the page at a time
  MaxOrders,   \* bound: clicks on "Upgrade to Pro" and "Cancel Pro"
  MaxSlips,    \* bound: requests that fail or whose answer is lost, scripts that do not load
  MaxElsewhere \* bound: changes that are not this page's

ASSUME BillingPageAssumption ==
  IsFiniteSet(Loads) /\ {MaxOrders, MaxSlips, MaxElsewhere} \subseteq Nat

VARIABLES
  owned,       \* auth-service: whether User.plan is PRO, and cancelAtPeriodEnd
  userPro,     \* user.plan of the tab is PRO
  planShown,   \* currentPlan and subscription.cancelAtPeriodEnd
  planLoading, \* loading
  load,        \* load[l]: a load in flight
  pay,         \* handleSubscribe or handleCancel, and where it is
  tag,         \* the script of Razorpay: "none", "fetching", "ready", "failed"
  orders, slips, elsewhere,
  signedOut,   \* refreshUser has failed: the tab shows the login page
  misled       \* history: an answer was lost or overtaken, or the plan has changed elsewhere

counts == <<orders, slips, elsewhere>>
bills == <<owned, userPro, planShown, planLoading, load, pay, tag, counts, signedOut, misled>>

Unpaid == [pro |-> FALSE, leaving |-> FALSE]
\* A load: what it has read, what it falls back to, whether a handler waits for it, and
\* whether one that began later has begun, or has ended (history).
NotLoading == [at |-> "idle", saw |-> Unpaid, userPro |-> FALSE, older |-> FALSE, late |-> FALSE,
               mine |-> FALSE]
\* A handler: where it is and what it asks for; the plan it was answered; user.plan of
\* the render it was clicked in.
NotPaying == [at |-> "idle", what |-> "none", pro |-> FALSE, userPro |-> FALSE]
Loading == {l \in Loads : load[l] # NotLoading}
paying == pay.at \notin {"idle", "confirm"}

Plan == [pro : BOOLEAN, leaving : BOOLEAN]
LoadRecord == [at : {"idle", "sent", "read"}, saw : Plan, userPro : BOOLEAN,
               older : BOOLEAN, late : BOOLEAN, mine : BOOLEAN]
PayRecord ==
  [at : {"idle", "confirm", "ask", "told", "refresh", "reload", "load", "script", "checkout"},
   what : {"none", "subscribe", "verify", "cancel"}, pro : BOOLEAN, userPro : BOOLEAN]
BillsTypeOK ==
  /\ {owned, planShown} \subseteq Plan
  /\ {userPro, planLoading, signedOut, misled} \subseteq BOOLEAN
  /\ load \in [Loads -> LoadRecord] /\ pay \in PayRecord
  /\ tag \in {"none", "fetching", "ready", "failed"}
  /\ {orders, slips, elsewhere} \subseteq Nat

BillsInit(mounted) ==
  /\ owned \in (IF mounted THEN [pro : BOOLEAN, leaving : {FALSE}] ELSE {Unpaid})
  /\ userPro = owned.pro
  /\ planShown = Unpaid /\ planLoading = mounted
  /\ \E l \in Loads : load = [x \in Loads |->
       IF mounted /\ x = l THEN [NotLoading EXCEPT !.at = "sent", !.userPro = userPro] ELSE NotLoading]
  /\ pay = NotPaying /\ tag = "none"
  /\ orders = 0 /\ slips = 0 /\ elsewhere = 0
  /\ signedOut = FALSE /\ misled = FALSE

Slips == slips < MaxSlips /\ slips' = slips + 1 /\ UNCHANGED <<orders, elsewhere>>
PayAt(at) == pay.at = at

----------------------------------------------------------------------------
(* load: two requests at once.                                             *)

\* Load l begins, in a render where user.plan is PRO or not.
Begun(l, pro) ==
  [x \in Loads |->
     CASE x = l -> [NotLoading EXCEPT !.at = "sent", !.userPro = pro]
       [] x \in Loading \ {l} -> [load[x] EXCEPT !.older = TRUE]
       [] OTHER -> load[x]]

\* getMySubscription; a failure is caught, and user.plan shown.
ReadPlan(l) ==
  /\ load[l].at = "sent"
  /\ \/ load' = [load EXCEPT ![l].at = "read", ![l].saw = owned] /\ UNCHANGED <<counts, misled>>
     \/ /\ Slips
        /\ load' = [load EXCEPT ![l].at = "read", ![l].saw = [planShown EXCEPT !.pro = load[l].userPro]]
        /\ misled' = TRUE
  /\ UNCHANGED <<owned, userPro, planShown, planLoading, pay, tag, signedOut>>

\* The load is over, and with it the handler that waits for it.
LoadOver(l) ==
  /\ planLoading' = FALSE
  /\ load' = [x \in Loads |->
                IF x = l THEN NotLoading
                ELSE [load[x] EXCEPT !.late = @ \/ (load[x].older /\ ~load[l].older)]]
  /\ pay' = IF load[l].mine THEN NotPaying ELSE pay
  /\ UNCHANGED <<owned, userPro, tag, signedOut>>
ShowPlan(l) ==
  /\ load[l].at = "read"
  /\ planShown' = load[l].saw
  /\ misled' = (misled \/ load[l].late)
  /\ LoadOver(l) /\ UNCHANGED counts

\* getBillingPlans fails: a toast.
LoadFails(l) ==
  /\ l \in Loading
  /\ Slips
  /\ misled' = TRUE
  /\ LoadOver(l) /\ UNCHANGED planShown

----------------------------------------------------------------------------
(* The buttons and their confirmation.                                     *)

Click(what) ==
  /\ PayAt("idle") /\ orders < MaxOrders
  /\ pay' = [NotPaying EXCEPT !.at = "confirm", !.what = what, !.userPro = userPro]
  /\ orders' = orders + 1
  /\ UNCHANGED <<owned, userPro, planShown, planLoading, load, tag, slips, elsewhere, signedOut, misled>>
OffersPro == ~planShown.pro /\ ~paying /\ ~planLoading
OffersCancel == planShown.pro /\ ~planShown.leaving /\ ~paying /\ ~planLoading
Upgrade == OffersPro /\ Click("subscribe")
CancelPro == OffersCancel /\ Click("cancel")

OnlyHandler == UNCHANGED <<owned, userPro, planShown, planLoading, load, tag, signedOut>>
Confirm ==
  /\ PayAt("confirm")
  /\ pay' \in {NotPaying, [pay EXCEPT !.at = "ask"]}
  /\ OnlyHandler /\ UNCHANGED <<counts, misled>>

----------------------------------------------------------------------------
(* The requests.                                                           *)

\* auth-service opens a subscription, which changes no plan, verifies a payment or cancels.
AskBilling ==
  /\ PayAt("ask")
  /\ owned' = CASE pay.what = "subscribe" -> owned
                [] pay.what = "verify" -> [pro |-> TRUE, leaving |-> FALSE]
                [] pay.what = "cancel" -> [owned EXCEPT !.leaving = TRUE]
  /\ pay' = [pay EXCEPT !.at = "told", !.pro = owned'.pro]
  /\ UNCHANGED <<userPro, planShown, planLoading, load, tag, counts, signedOut, misled>>

\* The page is told; a checkout goes on to the dialog, the others show the plan.
PayTold ==
  /\ PayAt("told")
  /\ IF pay.what = "subscribe"
       THEN pay' = [pay EXCEPT !.at = "script"] /\ UNCHANGED planShown
       ELSE pay' = [pay EXCEPT !.at = "refresh"] /\ planShown' = [planShown EXCEPT !.pro = pay.pro]
  /\ UNCHANGED <<owned, userPro, planLoading, load, tag, counts, signedOut, misled>>

\* It fails, or its answer does not come within 12 s: a toast.
NotTold ==
  /\ pay.at \in {"ask", "told"}
  /\ Slips
  /\ pay' = NotPaying /\ misled' = TRUE
  /\ OnlyHandler

\* refreshUser, which makes load anew if the plan has changed.
RefreshUser ==
  /\ PayAt("refresh")
  /\ pay' = [pay EXCEPT !.at = "reload"]
  /\ userPro' = owned.pro
  /\ IF userPro' = userPro THEN UNCHANGED <<load, planLoading>>
     ELSE \E l \in Loads \ Loading : load' = Begun(l, userPro') /\ planLoading' = TRUE
  /\ UNCHANGED <<owned, planShown, tag, counts, signedOut, misled>>

\* The user is null then, and the page gone.
RefreshFails ==
  /\ PayAt("refresh")
  /\ Slips
  /\ signedOut' = TRUE
  /\ pay' = NotPaying /\ load' = [l \in Loads |-> NotLoading]
  /\ UNCHANGED <<owned, userPro, planShown, planLoading, tag, misled>>

\* The handler loads too, with load of the render it was clicked in.
LoadAnew(l) ==
  /\ PayAt("reload") /\ l \notin Loading
  /\ load' = [Begun(l, pay.userPro) EXCEPT ![l].mine = TRUE]
  /\ pay' = [pay EXCEPT !.at = "load"]
  /\ planLoading' = TRUE
  /\ UNCHANGED <<owned, userPro, planShown, tag, counts, signedOut, misled>>

----------------------------------------------------------------------------
(* razorpay-checkout.                                                      *)

\* loadRazorpayScript: the script is there, is on its way, or is sought.  A tag that has
\* failed is found in the document, and waited for.
FetchScript ==
  /\ PayAt("script") /\ tag = "none"
  /\ tag' = "fetching"
  /\ UNCHANGED <<owned, userPro, planShown, planLoading, load, pay, counts, signedOut, misled>>
ScriptArrives ==
  /\ tag = "fetching"
  /\ tag' = "ready"
  /\ UNCHANGED <<owned, userPro, planShown, planLoading, load, pay, counts, signedOut, misled>>
ScriptFails ==
  /\ tag = "fetching"
  /\ Slips
  /\ tag' = "failed" /\ pay' = NotPaying
  /\ UNCHANGED <<owned, userPro, planShown, planLoading, load, signedOut, misled>>
OpenCheckout ==
  /\ PayAt("script") /\ tag = "ready"
  /\ pay' = [pay EXCEPT !.at = "checkout"]
  /\ OnlyHandler /\ UNCHANGED <<counts, misled>>

\* ondismiss, or handler: the payment is made and is to be verified.
Checkout ==
  /\ PayAt("checkout")
  /\ pay' \in {NotPaying, [pay EXCEPT !.what = "verify", !.at = "ask"]}
  /\ OnlyHandler /\ UNCHANGED <<counts, misled>>

\* A webhook, another tab.
PlanChanges ==
  /\ elsewhere < MaxElsewhere /\ elsewhere' = elsewhere + 1
  /\ owned' \in {[pro |-> TRUE, leaving |-> FALSE], Unpaid} \ {owned}
  /\ misled' = TRUE
  /\ UNCHANGED <<userPro, planShown, planLoading, load, pay, tag, orders, slips, signedOut>>

----------------------------------------------------------------------------
PayRequest == AskBilling \/ PayTold \/ NotTold \/ RefreshUser \/ RefreshFails
Script == FetchScript \/ ScriptArrives \/ ScriptFails \/ OpenCheckout
BillingStep ==
  \/ Upgrade \/ CancelPro \/ Confirm \/ PayRequest \/ Script \/ Checkout \/ PlanChanges
  \/ \E l \in Loads : ReadPlan(l) \/ ShowPlan(l) \/ LoadFails(l) \/ LoadAnew(l)
\* Answers come or are given up, and the browser ends the fetching of a script.
BillingGoes == AskBilling \/ PayTold \/ RefreshUser \/ ScriptArrives \/ FetchScript \/ OpenCheckout
          \/ \E l \in Loads : ReadPlan(l) \/ ShowPlan(l) \/ LoadAnew(l)
=============================================================================

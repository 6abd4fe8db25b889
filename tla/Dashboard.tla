----------------------------- MODULE Dashboard ------------------------------
(***************************************************************************)
(* The tabs of a creator and of a viewer: the studio and the stream-keys   *)
(* page on the same keys, the panels of the studio, the billing page, and  *)
(* the pages a viewer browses with.                                        *)
(***************************************************************************)
EXTENDS KeysPage, StudioPage, StudioPanels, BillingPage, BrowsePages

CONSTANT Scenes  \* the sets of pages that are open together

ASSUME DashboardAssumption ==
  Scenes \subseteq SUBSET {"studio", "keys", "panels", "billing", "explore", "library", "profile", "watch"}

VARIABLE scene
vars == <<scene, table, keysPage, studioPage, panels, bills, browse>>

ViewerPages == {"explore", "library", "profile", "watch"}
keyPages == <<keysPage, studioPage>>
others == <<scene, panels, bills, browse>>

TypeOK ==
  /\ scene \in Scenes
  /\ TableTypeOK /\ KeysTypeOK /\ StudioTypeOK /\ PanelsTypeOK /\ BillsTypeOK /\ BrowseTypeOK

Init ==
  /\ scene \in Scenes
  /\ TableInit
  /\ "studio" \in scene => streams = 1
  /\ scene \cap {"studio", "keys"} = {} => keyOf = <<>>
  /\ \E c \in Calls : call = [x \in Calls |->
       IF x = c /\ "keys" \in scene
         THEN [Idle EXCEPT !.by = "keys", !.op = "list", !.at = "find"] ELSE Idle]
  /\ KeysInit("keys" \in scene)
  /\ StudioInit
  /\ PanelsInit("panels" \in scene)
  /\ BillsInit("billing" \in scene)
  /\ BrowseInit(IF scene \cap ViewerPages = {} THEN {"none"} ELSE scene \cap ViewerPages)

\* auth-service and OBS.
Server ==
  /\ scene \cap {"studio", "keys"} # {}
  /\ \/ \E c \in Calls : ServerStep(c) \/ Fail(c)
     \/ GoLive \/ GoOffline \/ NewStream
  /\ UNCHANGED <<keyPages, others>>
Keys ==
  /\ "keys" \in scene
  /\ Entitled \/ \E c \in Calls : KeysPageStep(c)
  /\ UNCHANGED <<studioPage, others>>
Studio ==
  /\ "studio" \in scene
  /\ \E c \in Calls : StudioStep(c)
  /\ UNCHANGED <<keysPage, others>>
InPanels ==
  /\ "panels" \in scene
  /\ \E t \in Tasks : PanelStep(t)
  /\ UNCHANGED <<scene, table, keyPages, bills, browse>>
Paying ==
  /\ "billing" \in scene /\ ~signedOut
  /\ BillingStep
  /\ UNCHANGED <<scene, table, keyPages, panels, browse>>
Browsing ==
  /\ open # "none"
  /\ ListingChanges \/ FollowElsewhere \/ Type \/ \E a \in Asks : BrowseStep(a)
  /\ UNCHANGED <<scene, table, keyPages, panels, bills>>

Next == Server \/ Keys \/ Studio \/ InPanels \/ Paying \/ Browsing
Spec == Init /\ [][Next]_vars

\* Timers fire, and what is asked is answered or given up after 12 s.  Strong for the
\* studio's timer: the clicks of the page may take all of Calls over and over, the browser
\* knows no such bound.
Fairness ==
  /\ \A c \in Calls :
       /\ WF_vars(ServerStep(c) /\ UNCHANGED <<keyPages, others>>)
       /\ WF_vars((StudioAnswered(c) \/ StudioRefused(c)) /\ UNCHANGED <<keysPage, others>>)
  /\ SF_vars("studio" \in scene /\ (\E c \in Calls : Poll(c)) /\ UNCHANGED <<keysPage, others>>)
  /\ \A a \in Asks :
       WF_vars((FindStreams(a) \/ ShowResults(a) \/ FindStream(a) \/ ShowStream(a))
                 /\ UNCHANGED <<scene, table, keyPages, panels, bills>>)
  /\ WF_vars((\E a \in Asks : LoadExplore(a) \/ Poll4s(a)) /\ UNCHANGED <<scene, table, keyPages, panels, bills>>)
  /\ WF_vars(~signedOut /\ BillingGoes /\ UNCHANGED <<scene, table, keyPages, panels, browse>>)
FairSpec == Spec /\ Fairness

----------------------------------------------------------------------------
(* Properties.                                                             *)

\* stream-key.controller: the keys that were made while the others were counted never
\* exceed the plan, whoever revokes, rotates, or lists a creator's first key meanwhile.
\* Uncounted are those of createStream, of a stream without keys that is rotated, and of
\* a request whose count was overtaken by another key.
KeysWithinPlan == Cardinality(active \ uncounted) <= MaxActiveKeys

\* revokeStreamKey ("user must have at least one valid key"): no revocation leaves a
\* creator without a key, unless others were revoked after it had counted.
LastKeyKept ==
  [][\A c \in Calls :
       At(c, "revoke", "update") /\ call'[c].at = "answered" /\ active # {} /\ active' = {}
         => call[c].late]_vars

\* The stream-keys page at rest lists every key that is not revoked, once: unless a reload
\* or a rotation overlapped another change, or the keys were changed elsewhere.
KeysAsShown ==
  "keys" \in scene /\ Mine = {} /\ ~crossed /\ ~unseen =>
    listed = SetToBag(active)

\* The invite and moderation panels at rest show what is in force, however their handlers
\* overlapped: unless the answer of a load came after that of a later one, or was lost.
PanelsAsShown ==
  "panels" \in scene => \A l \in Lists :
    HandlersOf(PanelOf(l)) = {} /\ PanelOf(l) \notin outdated => shown[l] = store[l]

\* The library at rest shows what was found for the query typed, and the profile whether
\* the viewer follows: unless an answer was lost or overtaken, or the row changed elsewhere.
BrowseAsShown ==
  InFlight = {} /\ ~excused =>
    /\ open = "library" => results.q = typed /\ ~searching
    /\ open = "profile" => button = follows /\ ~searching

\* The billing page at rest shows the plan the user has, also after a payment or a
\* cancellation and while loads overlap: unless an answer was lost or overtaken, or the plan
\* has changed elsewhere.
PlanAsShown ==
  "billing" \in scene /\ pay = NotPaying /\ Loading = {} /\ ~misled /\ ~signedOut =>
    planShown = owned

ShownIsStored == PlanAsShown /\ KeysAsShown /\ PanelsAsShown /\ BrowseAsShown

\* The pages that poll catch up, whatever was lost, overtaken or changed elsewhere: in the
\* end the studio, open by itself, shows the stream and its keys, unless it has thrown,
\* and Explore what the query finds.
StudioCatchesUp ==
  <>[](scene = {"studio"} =>
         thrown \/ view = [loaded |-> TRUE, live |-> 1 \in live, ended |-> 1 \in ended,
                 keys |-> active \cap Of(1)])
ExploreCatchesUp ==
  <>[](open = "explore" => results = [q |-> typed, saw |-> listing] /\ ~failed)

\* A checkout ends, or waits for the user in its dialog, whatever fails: but for a second
\* one after the script of Razorpay could not be loaded, which waits for the failed tag.
CheckoutEnds ==
  []<>("billing" \in scene => ~paying \/ PayAt("checkout") \/ signedOut \/ (PayAt("script") /\ tag = "failed"))

\* The watch page shows whether the stream is live and whether the viewer follows in the
\* end, although the answer of a poll may undo what a click on "Follow" has shown.
WatchCatchesUp ==
  <>[](open = "watch" => results.saw = listing /\ button = follows /\ ~failed)
PollsCatchUp == WatchCatchesUp /\ StudioCatchesUp /\ ExploreCatchesUp /\ CheckoutEnds
=============================================================================

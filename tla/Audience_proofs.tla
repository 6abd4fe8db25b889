--------------------------- MODULE Audience_proofs ---------------------------
(***************************************************************************)
(* What holds of Audience for every set of pages and users, every number   *)
(* of requests at a time and every maxUses: the invite, the presence map,  *)
(* the views and the peak.                                                 *)
(***************************************************************************)
EXTENDS Audience, FiniteSetTheorems, TLAPS

USE AudienceAssumption

Pcs == Beats \cup {"idle", "leave", "redeem", "grant"}
Request == [pc : Pcs, user : Users \cup {Owner}, peak : Nat, now : Nat]

\* The types the other parts rest on.
ReqOK ==
  /\ req \in [Requests -> Request]
  /\ \A r \in Requests : req[r].pc # "idle" => req[r].user \in Users
Typed ==
  /\ ReqOK
  /\ page \in [Pages -> {"open", "closed"}]
  /\ present \subseteq Users /\ access \subseteq Users
  /\ {views, peak, visits, reached} \subseteq Nat
  /\ invite \in [made : BOOLEAN, revoked : BOOLEAN, expired : BOOLEAN, uses : Nat]

\* Without a contest one code is redeemed at a time; whoever is about to be
\* granted access has none yet, and a use is left.
Entering(r) == req[r].pc \in {"redeem", "grant"}
InviteOK ==
  /\ Cardinality(access) <= invite.uses
  /\ ~contested =>
       /\ invite.uses <= MaxUses /\ invite.uses = Cardinality(access)
       /\ \A q, r \in Requests : Entering(q) /\ Entering(r) => q = r
       /\ \A r \in Requests : req[r].pc = "grant" =>
            req[r].user \notin access /\ invite.uses < MaxUses
  /\ invite.revoked =>
       /\ access \subseteq admitted
       /\ \A r \in Requests : req[r].pc = "grant" => req[r].user \in admitted

\* A user who is in the map, or on the way into it, and has no page open has a
\* leave on its way, or is a ghost.
Leaving(u) == \E r \in Requests : req[r].pc = "leave" /\ req[r].user = u
PresentOK ==
  \A u \in Users : u \in present \/ Beating(u) => Watching(u) \/ Leaving(u) \/ u \in ghosts

\* Every view, made or on its way, and every viewer who is yet to be counted
\* has a visit of its own.
Coming(u) == \E r \in Requests : req[r].pc \in {"read", "beat"} /\ req[r].user = u
Awaits(u) == u \notin Fresh /\ (Watching(u) \/ Coming(u))
ToCount == {u \in Users \ {Owner} : Awaits(u)}
Counting == {r \in Requests : req[r].pc = "view"}
VisitOK == ~astray => views + Cardinality(Counting) + Cardinality(ToCount) <= visits

\* Without a race one heartbeat is at work at a time, and it knows the peak.
Noted == {"view", "peak"}
PeakOK ==
  ~raced =>
    /\ \A q, r \in Requests : req[q].pc \in Beats /\ req[r].pc \in Beats => q = r
    /\ (\A r \in Requests : req[r].pc \notin Noted) => peak = reached
    /\ \A r \in Requests : req[r].pc \in Noted \cup {"beat"} => req[r].peak = peak
    /\ \A r \in Requests : req[r].pc \in Noted =>
         reached = IF req[r].now > peak THEN req[r].now ELSE peak

\* The inductive invariant.
AudienceInv == Typed /\ InviteOK /\ PresentOK /\ VisitOK /\ PeakOK

----------------------------------------------------------------------------
(* Requests.                                                               *)

\* Only request r changes, and this is what it becomes.
Becomes(r, pc, u, pk, now) ==
  /\ \A q \in Requests : q # r => req'[q] = req[q]
  /\ req'[r].pc = pc /\ req'[r].user = u /\ req'[r].peak = pk /\ req'[r].now = now

LEMMA PutRequest ==
  ASSUME ReqOK, NEW r \in Requests, NEW x \in Request, x.pc # "idle" => x.user \in Users,
         req' = [req EXCEPT ![r] = x]
  PROVE  ReqOK' /\ Becomes(r, x.pc, x.user, x.peak, x.now)
  BY DEF ReqOK, Becomes

LEMMA StartRequest ==
  ASSUME ReqOK, NEW r \in Requests, NEW pc \in Pcs, NEW u \in Users, Start(r, pc, u)
  PROVE  ReqOK' /\ Becomes(r, pc, u, 0, 0) /\ req[r].pc = "idle"
<1>1. PICK x : x = [Idle EXCEPT !.pc = pc, !.user = u]
  OBVIOUS
<1>2. Idle \in Request /\ Idle.peak = 0 /\ Idle.now = 0 /\ Idle.pc = "idle"
  BY DEF Idle, Request, Pcs
<1>3. x \in Request /\ x.pc = pc /\ x.user = u /\ x.peak = 0 /\ x.now = 0
  BY <1>1, <1>2 DEF Request
<1>4. req' = [req EXCEPT ![r] = x] /\ req[r] = Idle
  BY <1>1 DEF Start
<1>5. QED
  BY <1>2, <1>3, <1>4, PutRequest

LEMMA MoveRequest ==
  ASSUME ReqOK, NEW r \in Requests, req[r].pc # "idle", NEW pc \in Pcs, To(r, pc)
  PROVE  ReqOK' /\ Becomes(r, pc, req[r].user, req[r].peak, req[r].now)
<1>1. PICK x : x = [req[r] EXCEPT !.pc = pc]
  OBVIOUS
<1>2. /\ x \in Request /\ x.pc = pc
      /\ x.user = req[r].user /\ x.peak = req[r].peak /\ x.now = req[r].now
  BY <1>1 DEF ReqOK, Request
<1>3. req' = [req EXCEPT ![r] = x]
  BY <1>1 DEF To
<1>4. x.pc # "idle" => x.user \in Users
  BY <1>2 DEF ReqOK
<1>5. QED
  BY <1>2, <1>3, <1>4, PutRequest

LEMMA EndRequest ==
  ASSUME ReqOK, NEW r \in Requests, Done(r)
  PROVE  ReqOK' /\ Becomes(r, "idle", Owner, 0, 0)
<1>1. Idle \in Request
  BY DEF Idle, Request, Pcs
<1>2. QED
  BY <1>1, PutRequest DEF Done, Idle

----------------------------------------------------------------------------
(* Frames: what keeps each part when an action is about something else.    *)

LEMMA FiniteUsers ==
  ASSUME NEW S, S \subseteq Users
  PROVE  IsFiniteSet(S) /\ Cardinality(S) \in Nat
<1>1. IsFiniteSet(S)
  BY FS_Subset
<1>2. QED
  BY <1>1, FS_CardinalityType

LEMMA FiniteRequests ==
  ASSUME NEW S, S \subseteq Requests
  PROVE  IsFiniteSet(S) /\ Cardinality(S) \in Nat
<1>1. IsFiniteSet(S)
  BY FS_Subset
<1>2. QED
  BY <1>1, FS_CardinalityType

LEMMA OneMore ==
  ASSUME NEW S, IsFiniteSet(S), NEW x, NEW T, T \subseteq S \cup {x}
  PROVE  Cardinality(T) \in Nat /\ Cardinality(T) <= Cardinality(S) + 1
<1>1. Cardinality(S) \in Nat
  BY FS_CardinalityType
<1>2. IsFiniteSet(S \cup {x})
  BY FS_AddElement
<1>3. Cardinality(S \cup {x}) = IF x \in S THEN Cardinality(S) ELSE Cardinality(S) + 1
  BY FS_AddElement
<1>4. IsFiniteSet(T) /\ Cardinality(T) <= Cardinality(S \cup {x})
  BY <1>2, FS_Subset
<1>5. Cardinality(T) \in Nat
  BY <1>4, FS_CardinalityType
<1>6. QED
  BY <1>1, <1>3, <1>4, <1>5

LEMMA InviteFrame ==
  ASSUME AudienceInv, UNCHANGED <<invite, access, admitted, contested>>,
         \A q \in Requests : req'[q].pc \in {"redeem", "grant"} =>
           req'[q].pc = req[q].pc /\ req'[q].user = req[q].user
  PROVE  InviteOK'
<1>1. InviteOK
  BY DEF AudienceInv
<1>2. \A q \in Requests : Entering(q)' => Entering(q)
  BY DEF Entering
<1>3. QED
  BY <1>1, <1>2 DEF InviteOK

LEMMA PresentFrame ==
  ASSUME AudienceInv, page' = page, ghosts' = ghosts, present' \subseteq present,
         \A q \in Requests :
           /\ req'[q].pc \in Beats => req[q].pc \in Beats /\ req'[q].user = req[q].user
           /\ req[q].pc = "leave" => req'[q] = req[q]
  PROVE  PresentOK'
<1>1. PresentOK
  BY DEF AudienceInv
<1>2. \A u \in Users : (Beating(u)' => Beating(u)) /\ (Watching(u)' <=> Watching(u))
  BY DEF Beating, Watching
<1>3. \A u \in Users : Leaving(u) => Leaving(u)'
  BY DEF Leaving
<1>4. QED
  BY <1>1, <1>2, <1>3 DEF PresentOK

\* Nobody is added to those who are to be counted, and no view to those made.
LEMMA VisitFrame ==
  ASSUME AudienceInv, astray => astray', views' = views, visits' = visits,
         \A u \in Users : Awaits(u)' => Awaits(u),
         \A q \in Requests : req'[q].pc = "view" => req[q].pc = "view"
  PROVE  VisitOK'
<1>1. ToCount' \subseteq ToCount /\ Counting' \subseteq Counting
  BY DEF ToCount, Counting
<1>2. ToCount \subseteq Users /\ Counting \subseteq Requests
  BY DEF ToCount, Counting
<1>3. /\ IsFiniteSet(ToCount) /\ Cardinality(ToCount) \in Nat
      /\ IsFiniteSet(Counting) /\ Cardinality(Counting) \in Nat
  BY <1>2, FiniteUsers, FiniteRequests
<1>4. /\ Cardinality(ToCount') \in Nat /\ Cardinality(ToCount') <= Cardinality(ToCount)
      /\ Cardinality(Counting') \in Nat /\ Cardinality(Counting') <= Cardinality(Counting)
  BY <1>1, <1>3, FS_Subset, FS_CardinalityType
<1>5. views \in Nat /\ visits \in Nat /\ VisitOK
  BY DEF AudienceInv, Typed
<1>6. QED
  BY <1>3, <1>4, <1>5 DEF VisitOK

\* The same when the pages, the map and who is coming stay as they are.
LEMMA VisitStill ==
  ASSUME AudienceInv, astray => astray', UNCHANGED <<views, visits, page>>, Fresh' = Fresh,
         \A q \in Requests :
           /\ req'[q].pc \in {"read", "beat"} =>
                req[q].pc \in {"read", "beat"} /\ req'[q].user = req[q].user
           /\ req'[q].pc = "view" => req[q].pc = "view"
  PROVE  VisitOK'
<1>1. \A u \in Users : Awaits(u)' => Awaits(u)
  BY DEF Awaits, Watching, Coming
<1>2. QED
  BY <1>1, VisitFrame

LEMMA PeakFrame ==
  ASSUME AudienceInv, UNCHANGED <<peak, reached, raced>>,
         \A q \in Requests : req[q].pc \in Beats \/ req'[q].pc \in Beats => req'[q] = req[q]
  PROVE  PeakOK'
<1>1. PeakOK
  BY DEF AudienceInv
<1>2. \A q \in Requests : (req'[q].pc \in Beats <=> req[q].pc \in Beats)
                          /\ (req'[q].pc \in Beats => req'[q] = req[q])
  OBVIOUS
<1>3. Noted \subseteq Beats /\ "beat" \in Beats
  BY DEF Noted, Beats
<1>4. \A q \in Requests : /\ req'[q].pc \in Noted <=> req[q].pc \in Noted
                          /\ req'[q].pc \in Noted \cup {"beat"} => req'[q] = req[q]
  BY <1>2, <1>3
<1>5. CASE raced
  BY <1>5 DEF PeakOK
<1>6. CASE ~raced
  BY <1>1, <1>2, <1>4, <1>6 DEF PeakOK
<1>7. QED
  BY <1>5, <1>6

----------------------------------------------------------------------------
(* The watch page.                                                         *)

LEMMA InitAudience == Init => AudienceInv
<1> SUFFICES ASSUME Init PROVE AudienceInv
  OBVIOUS
<1>1. \A r \in Requests : req[r] = Idle
  BY DEF Init
<1>2. Typed
  <2>1. Idle \in Request
    BY DEF Idle, Request, Pcs
  <2>2. ReqOK
    BY <2>1 DEF Init, ReqOK, Idle
  <2>3. QED
    BY <2>2 DEF Init, Typed
<1>3. InviteOK
  <2>1. Cardinality(access) = 0
    BY FS_EmptySet DEF Init
  <2>2. QED
    BY <1>1, <2>1 DEF Init, InviteOK, Entering, Idle
<1>4. PresentOK
  BY <1>1 DEF Init, PresentOK, Beating, Idle, Beats
<1>5. VisitOK
  <2>1. ToCount = {} /\ Counting = {}
    BY <1>1 DEF Init, ToCount, Counting, Awaits, Watching, Coming, Idle
  <2>2. QED
    BY <2>1, FS_EmptySet DEF Init, VisitOK
<1>6. PeakOK
  BY <1>1 DEF Init, PeakOK, Idle, Beats, Noted
<1>7. QED
  BY <1>2, <1>3, <1>4, <1>5, <1>6 DEF AudienceInv

LEMMA OpenStep ==
  ASSUME AudienceInv, NEW p \in Pages, Open(p)
  PROVE  AudienceInv'
<1> DEFINE v == UserOf[p]
<1>1. /\ page[p] = "closed" /\ page' = [page EXCEPT ![p] = "open"]
      /\ visits' = IF Watching(v) \/ v = Owner THEN visits ELSE visits + 1
      /\ UNCHANGED <<present, stale, views, peak, invite, access, req, reached, ghosts, astray,
                     raced, contested, admitted>>
  BY DEF Open, presence, stream
<1>2. Typed /\ v \in Users
  BY DEF AudienceInv
<1>3. Typed'
  BY <1>1, <1>2 DEF Typed, ReqOK
<1>4. \A u \in Users : Watching(u)' <=> Watching(u) \/ u = v
  BY <1>1, <1>2 DEF Watching, Typed
<1>5. InviteOK' /\ PeakOK'
  BY <1>1, InviteFrame, PeakFrame
<1>6. PresentOK'
  BY <1>1, <1>4 DEF AudienceInv, PresentOK, Beating, Leaving
<1>7. VisitOK'
  <2>1. Counting' = Counting /\ Fresh' = Fresh /\ \A u \in Users : Coming(u)' <=> Coming(u)
    BY <1>1 DEF Counting, Fresh, Coming
  <2>2. CASE Watching(v)
    <3>1. \A u \in Users : Awaits(u)' => Awaits(u)
      BY <1>4, <2>1, <2>2 DEF Awaits
    <3>2. QED
      BY <1>1, <2>2, <3>1, VisitFrame
  <2>3. CASE ~Watching(v)
    <3>1. ToCount' \subseteq ToCount \cup ({v} \ {Owner})
      BY <1>4, <2>1 DEF Awaits, ToCount
    <3>2. ToCount \subseteq Users /\ Counting \subseteq Requests
      BY DEF ToCount, Counting
    <3>3. /\ IsFiniteSet(ToCount) /\ Cardinality(ToCount) \in Nat
          /\ Cardinality(Counting) \in Nat
      BY <3>2, FiniteUsers, FiniteRequests
    <3>4. views \in Nat /\ visits \in Nat /\ VisitOK
      BY <1>2 DEF AudienceInv, Typed
    <3>5. CASE v = Owner
      <4>1. ToCount' \subseteq ToCount
        BY <3>1, <3>5
      <4>2. Cardinality(ToCount') \in Nat /\ Cardinality(ToCount') <= Cardinality(ToCount)
        BY <3>3, <4>1, FS_Subset, FS_CardinalityType
      <4>3. QED
        BY <1>1, <2>1, <3>3, <3>4, <3>5, <4>2 DEF VisitOK
    <3>6. CASE v # Owner
      <4>1. ToCount' \subseteq ToCount \cup {v}
        BY <3>1
      <4>2. Cardinality(ToCount') \in Nat /\ Cardinality(ToCount') <= Cardinality(ToCount) + 1
        BY <3>3, <4>1, OneMore
      <4>3. QED
        BY <1>1, <2>1, <2>3, <3>3, <3>4, <3>6, <4>2 DEF VisitOK
    <3>7. QED
      BY <3>5, <3>6
  <2>4. QED
    BY <2>2, <2>3
<1>8. QED
  BY <1>3, <1>5, <1>6, <1>7 DEF AudienceInv

LEMMA PingStep ==
  ASSUME AudienceInv, NEW r \in Requests, NEW p \in Pages, Ping(r, p)
  PROVE  AudienceInv'
<1>1. PICK v : v = UserOf[p]
  OBVIOUS
<1>2. /\ page[p] = "open" /\ Start(r, "read", v)
      /\ raced' = (raced \/ \E q \in Requests : req[q].pc \in Beats)
      /\ UNCHANGED <<page, present, stale, views, peak, invite, access, visits, reached, ghosts,
                     astray, contested, admitted>>
  BY <1>1 DEF Ping, presence, stream
<1>3. Typed /\ v \in Users /\ ReqOK
  BY <1>1 DEF AudienceInv, Typed
<1>4. ReqOK' /\ Becomes(r, "read", v, 0, 0) /\ req[r].pc = "idle"
  BY <1>2, <1>3, StartRequest DEF Pcs, Beats
<1>5. Typed'
  BY <1>2, <1>3, <1>4 DEF Typed
<1>6. InviteOK'
  BY <1>2, <1>4, InviteFrame DEF Becomes
<1>7. Watching(v)
  BY <1>1, <1>2 DEF Watching
<1>8. PresentOK'
  <2>1. \A u \in Users : /\ Beating(u)' => Beating(u) \/ u = v
                         /\ Watching(u)' <=> Watching(u)
                         /\ Leaving(u) => Leaving(u)'
    BY <1>2, <1>4 DEF Becomes, Beating, Watching, Leaving
  <2>2. QED
    BY <1>2, <1>7, <2>1 DEF AudienceInv, PresentOK
<1>9. VisitOK'
  <2>1. Fresh' = Fresh /\ \A u \in Users : /\ Watching(u)' <=> Watching(u)
                                           /\ Coming(u)' => Coming(u) \/ u = v
    BY <1>2, <1>4 DEF Fresh, Becomes, Watching, Coming
  <2>2. \A u \in Users : Awaits(u)' => Awaits(u)
    BY <1>7, <2>1 DEF Awaits
  <2>3. QED
    BY <1>2, <1>4, <2>2, VisitFrame DEF Becomes
<1>10. PeakOK'
  <2>1. CASE raced'
    BY <2>1 DEF PeakOK
  <2>2. CASE ~raced'
    <3>1. ~raced /\ \A q \in Requests : req[q].pc \notin Beats
      BY <1>2, <2>2
    <3>2. \A q \in Requests : req'[q].pc \in Beats => q = r
      BY <1>4, <3>1 DEF Becomes
    <3>3. peak = reached
      BY <3>1 DEF AudienceInv, PeakOK, Noted, Beats
    <3>4. \A q \in Requests : req'[q].pc \notin Noted \cup {"beat"}
      BY <1>4, <3>2 DEF Becomes, Noted, Beats
    <3>5. QED
      BY <1>2, <3>2, <3>3, <3>4 DEF PeakOK
  <2>3. QED
    BY <2>1, <2>2
<1>11. QED
  BY <1>5, <1>6, <1>8, <1>9, <1>10 DEF AudienceInv

LEMMA CloseStep ==
  ASSUME AudienceInv, NEW p \in Pages, Close(p)
  PROVE  AudienceInv'
<1>1. PICK v : v = UserOf[p]
  OBVIOUS
<1>2. /\ page' = [page EXCEPT ![p] = "closed"]
      /\ \/ (\E r \in Requests : Start(r, "leave", v)) /\ ghosts' = ghosts
         \/ ghosts' = ghosts \cup {v} /\ req' = req
      /\ UNCHANGED <<present, stale, views, peak, invite, access, visits, reached, astray, raced,
                     contested, admitted>>
  BY <1>1 DEF Close, presence, stream
<1>3. Typed /\ ReqOK /\ v \in Users
  BY <1>1 DEF AudienceInv, Typed
<1>4. /\ ReqOK'
      /\ \A q \in Requests : req'[q] = req[q] \/ (req'[q].pc = "leave" /\ req[q].pc = "idle")
      /\ Leaving(v)' \/ v \in ghosts'
      /\ ghosts \subseteq ghosts'
  <2>1. CASE req' = req /\ ghosts' = ghosts \cup {v}
    BY <1>3, <2>1 DEF ReqOK
  <2>2. ASSUME NEW r \in Requests, Start(r, "leave", v), ghosts' = ghosts
        PROVE  /\ ReqOK'
               /\ \A q \in Requests : req'[q] = req[q] \/ (req'[q].pc = "leave" /\ req[q].pc = "idle")
               /\ Leaving(v)'
    BY <1>3, <2>2, StartRequest DEF Becomes, Leaving, Pcs
  <2>3. QED
    BY <1>2, <2>1, <2>2
<1>5. Typed'
  BY <1>2, <1>3, <1>4 DEF Typed
<1>6. \A u \in Users : /\ Watching(u)' => Watching(u)
                       /\ Watching(u) => Watching(u)' \/ u = v
  BY <1>1, <1>2, <1>3 DEF Watching, Typed
<1>7. \A u \in Users : /\ Beating(u)' => Beating(u)
                       /\ Coming(u)' => Coming(u)
                       /\ Leaving(u) => Leaving(u)'
  BY <1>4 DEF Beating, Coming, Leaving, Beats
<1>8. InviteOK'
  BY <1>2, <1>4, InviteFrame
<1>9. PresentOK'
  BY <1>2, <1>4, <1>6, <1>7 DEF AudienceInv, PresentOK
<1>10. VisitOK'
  <2>1. Fresh' = Fresh
    BY <1>2 DEF Fresh
  <2>2. \A u \in Users : Awaits(u)' => Awaits(u)
    BY <1>6, <1>7, <2>1 DEF Awaits
  <2>3. QED
    BY <1>2, <1>4, <2>2, VisitFrame
<1>11. PeakOK'
  BY <1>2, <1>4, PeakFrame DEF Beats
<1>12. QED
  BY <1>5, <1>8, <1>9, <1>10, <1>11 DEF AudienceInv

----------------------------------------------------------------------------
(* viewerPresence.                                                         *)

LEMMA AgeStep ==
  ASSUME AudienceInv, NEW u \in Users, Age(u)
  PROVE  AudienceInv'
<1>1. /\ stale' = stale \cup {u} /\ astray' = (astray \/ Watching(u) \/ Beating(u))
      /\ UNCHANGED <<page, present, views, peak, invite, access, req, visits, reached, ghosts,
                     raced, contested, admitted>>
  BY DEF Age, stream
<1>2. Typed'
  BY <1>1 DEF AudienceInv, Typed, ReqOK
<1>3. InviteOK' /\ PresentOK' /\ PeakOK'
  BY <1>1, InviteFrame, PresentFrame, PeakFrame
<1>4. VisitOK'
  <2>1. CASE astray'
    BY <2>1 DEF VisitOK
  <2>2. CASE ~astray'
    <3>1. ~Watching(u) /\ ~Coming(u) /\ ~astray
      BY <1>1, <2>2 DEF Coming, Beating, Beats
    <3>2. \A w \in Users : w # u => (w \in Fresh' <=> w \in Fresh)
      BY <1>1 DEF Fresh
    <3>3. \A w \in Users : Awaits(w)' => Awaits(w)
      BY <1>1, <3>1, <3>2 DEF Awaits, Watching, Coming
    <3>4. QED
      BY <1>1, <3>1, <3>3, VisitFrame
  <2>3. QED
    BY <2>1, <2>2
<1>5. QED
  BY <1>2, <1>3, <1>4 DEF AudienceInv

LEMMA LookStep ==
  ASSUME AudienceInv, Look
  PROVE  AudienceInv'
<1>1. /\ present' = Fresh /\ stale' = {}
      /\ UNCHANGED <<page, views, peak, invite, access, req, visits, reached, ghosts, astray,
                     raced, contested, admitted>>
  BY DEF Look, Prune, stream, history
<1>2. Fresh' = Fresh /\ Fresh \subseteq present
  BY <1>1 DEF Fresh
<1>3. Typed'
  BY <1>1, <1>2 DEF AudienceInv, Typed, ReqOK
<1>4. InviteOK' /\ PresentOK' /\ PeakOK' /\ VisitOK'
  BY <1>1, <1>2, InviteFrame, PresentFrame, PeakFrame, VisitStill
<1>5. QED
  BY <1>3, <1>4 DEF AudienceInv

\* The two chained updates of a request in its course.
LEMMA NoteRequest ==
  ASSUME ReqOK, NEW r \in Requests, req[r].pc # "idle", NEW pc \in Pcs, NEW n \in Nat,
         req' = [req EXCEPT ![r].now = n, ![r].pc = pc]
  PROVE  ReqOK' /\ Becomes(r, pc, req[r].user, req[r].peak, n)
<1>1. PICK y : y = [req[r] EXCEPT !.now = n]
  OBVIOUS
<1>2. PICK x : x = [y EXCEPT !.pc = pc]
  OBVIOUS
<1>3. y \in Request /\ y.user = req[r].user /\ y.peak = req[r].peak /\ y.now = n
  BY <1>1 DEF ReqOK, Request
<1>4. /\ x \in Request /\ x.pc = pc
      /\ x.user = req[r].user /\ x.peak = req[r].peak /\ x.now = n
  BY <1>2, <1>3 DEF Request
<1>5. PICK f : f = [req EXCEPT ![r] = y]
  OBVIOUS
<1>6. f \in [Requests -> Request] /\ f[r] = y /\ \A q \in Requests : q # r => f[q] = req[q]
  BY <1>3, <1>5 DEF ReqOK
<1>7. req' = [f EXCEPT ![r] = x]
  BY <1>1, <1>2, <1>5, <1>6
<1>8. req' = [req EXCEPT ![r] = x]
  BY <1>5, <1>6, <1>7 DEF ReqOK
<1>9. x.pc # "idle" => x.user \in Users
  BY <1>4 DEF ReqOK
<1>10. QED
  BY <1>4, <1>8, <1>9, PutRequest

LEMMA ReadRequest ==
  ASSUME ReqOK, NEW r \in Requests, req[r].pc # "idle", NEW pc \in Pcs, NEW n \in Nat,
         req' = [req EXCEPT ![r].pc = pc, ![r].peak = n]
  PROVE  ReqOK' /\ Becomes(r, pc, req[r].user, n, req[r].now)
<1>1. PICK y : y = [req[r] EXCEPT !.pc = pc]
  OBVIOUS
<1>2. PICK x : x = [y EXCEPT !.peak = n]
  OBVIOUS
<1>3. y \in Request /\ y.user = req[r].user /\ y.now = req[r].now /\ y.pc = pc
  BY <1>1 DEF ReqOK, Request
<1>4. /\ x \in Request /\ x.pc = pc
      /\ x.user = req[r].user /\ x.peak = n /\ x.now = req[r].now
  BY <1>2, <1>3 DEF Request
<1>5. PICK f : f = [req EXCEPT ![r] = y]
  OBVIOUS
<1>6. f \in [Requests -> Request] /\ f[r] = y /\ \A q \in Requests : q # r => f[q] = req[q]
  BY <1>3, <1>5 DEF ReqOK
<1>7. req' = [f EXCEPT ![r] = x]
  BY <1>1, <1>2, <1>5, <1>6
<1>8. req' = [req EXCEPT ![r] = x]
  BY <1>5, <1>6, <1>7 DEF ReqOK
<1>9. x.pc # "idle" => x.user \in Users
  BY <1>4 DEF ReqOK
<1>10. QED
  BY <1>4, <1>8, <1>9, PutRequest

LEMMA BeatStep ==
  ASSUME AudienceInv, NEW r \in Requests, Beat(r)
  PROVE  AudienceInv'
<1>1. PICK u : u = req[r].user
  OBVIOUS
<1>2. PICK n : n = Cardinality(Fresh \cup {u})
  OBVIOUS
<1>3. PICK pc : pc = IF u # Owner /\ IsNewSession(u) THEN "view" ELSE "peak"
  OBVIOUS
<1>4. PICK kept : kept = (~mapped \/ Fresh # {})
  OBVIOUS
<1>5. /\ req[r].pc = "beat"
      /\ present' = IF kept THEN Fresh \cup {u} ELSE {}
      /\ stale' = {}
      /\ req' = [req EXCEPT ![r].now = n, ![r].pc = pc]
      /\ reached' = IF n > reached THEN n ELSE reached
      /\ astray' = (astray \/ ~kept)
      /\ UNCHANGED <<page, views, peak, invite, access, visits, ghosts, raced, contested, admitted>>
  BY <1>1, <1>2, <1>3, <1>4 DEF Beat, stream
<1>6. Typed /\ ReqOK /\ u \in Users
  BY <1>1, <1>5 DEF AudienceInv, Typed, ReqOK
<1>7. Fresh \subseteq Users /\ n \in Nat
  <2>1. Fresh \subseteq Users
    BY <1>6 DEF Typed, Fresh
  <2>2. QED
    BY <1>2, <1>6, <2>1, FiniteUsers
<1>8. ReqOK' /\ Becomes(r, pc, u, req[r].peak, n)
  BY <1>1, <1>3, <1>5, <1>6, <1>7, NoteRequest DEF Pcs, Beats
<1>9. Typed'
  BY <1>5, <1>6, <1>7, <1>8 DEF Typed
<1>10. InviteOK'
  <2>1. pc \notin {"redeem", "grant"}
    BY <1>3
  <2>2. \A q \in Requests : req'[q].pc \in {"redeem", "grant"} =>
          req'[q].pc = req[q].pc /\ req'[q].user = req[q].user
    BY <1>8, <2>1 DEF Becomes
  <2>3. QED
    BY <1>5, <2>2, InviteFrame
<1>11. /\ Beating(u)
       /\ \A w \in Users : /\ Beating(w)' => Beating(w)
                           /\ Leaving(w) => Leaving(w)'
                           /\ Coming(w)' => Coming(w)
                           /\ Watching(w)' <=> Watching(w)
  BY <1>1, <1>3, <1>5, <1>8 DEF Beating, Leaving, Coming, Watching, Becomes, Beats
<1>12. PresentOK'
  <2>1. \A w \in present' : w \in present \/ w = u
    BY <1>5 DEF Fresh
  <2>2. QED
    BY <1>5, <1>11, <2>1 DEF AudienceInv, PresentOK
<1>13. VisitOK'
  <2>1. CASE astray'
    BY <2>1 DEF VisitOK
  <2>2. CASE ~astray'
    <3>1. ~astray /\ Fresh' = Fresh \cup {u}
      BY <1>5, <2>2 DEF Fresh
    <3>2. \A w \in Users : Awaits(w)' => Awaits(w) /\ w # u
      BY <1>11, <3>1 DEF Awaits
    <3>3. CASE pc = "peak"
      <4>1. \A q \in Requests : req'[q].pc = "view" => req[q].pc = "view"
        BY <1>8, <3>3 DEF Becomes
      <4>2. QED
        BY <1>5, <3>1, <3>2, <4>1, VisitFrame
    <3>4. CASE pc = "view"
      <4>1. u \in ToCount
        <5>1. u # Owner /\ u \notin Fresh
          BY <1>3, <3>4 DEF IsNewSession
        <5>2. Coming(u)
          BY <1>1, <1>5 DEF Coming
        <5>3. QED
          BY <1>6, <5>1, <5>2 DEF ToCount, Awaits
      <4>2. ToCount' \subseteq ToCount \ {u} /\ Counting' \subseteq Counting \cup {r}
        BY <1>8, <3>2 DEF ToCount, Counting, Becomes
      <4>3. ToCount \subseteq Users /\ Counting \subseteq Requests
        BY DEF ToCount, Counting
      <4>4. /\ IsFiniteSet(ToCount) /\ Cardinality(ToCount) \in Nat
            /\ IsFiniteSet(Counting) /\ Cardinality(Counting) \in Nat
        BY <4>3, FiniteUsers, FiniteRequests
      <4>5. Cardinality(Counting') \in Nat /\ Cardinality(Counting') <= Cardinality(Counting) + 1
        BY <4>2, <4>4, OneMore
      <4>6. IsFiniteSet(ToCount \ {u}) /\ Cardinality(ToCount \ {u}) = Cardinality(ToCount) - 1
        BY <4>1, <4>4, FS_RemoveElement
      <4>7. Cardinality(ToCount') \in Nat /\ Cardinality(ToCount') <= Cardinality(ToCount \ {u})
        BY <4>2, <4>6, FS_Subset, FS_CardinalityType
      <4>8. views \in Nat /\ visits \in Nat /\ VisitOK
        BY <1>6 DEF AudienceInv, Typed
      <4>9. QED
        BY <1>5, <3>1, <4>4, <4>5, <4>6, <4>7, <4>8 DEF VisitOK
    <3>5. QED
      BY <1>3, <3>3, <3>4
  <2>3. QED
    BY <2>1, <2>2
<1>14. PeakOK'
  <2>1. CASE raced
    BY <1>5, <2>1 DEF PeakOK
  <2>2. CASE ~raced
    <3>1. \A q \in Requests : req[q].pc \in Beats => q = r
      BY <1>5, <2>2 DEF AudienceInv, PeakOK, Beats
    <3>2. peak = reached /\ req[r].peak = peak
      BY <1>5, <2>2, <3>1 DEF AudienceInv, PeakOK, Noted, Beats
    <3>3. \A q \in Requests : req'[q].pc \in Beats => q = r
      BY <1>8, <3>1 DEF Becomes
    <3>4. req'[r].pc \in Noted /\ req'[r].peak = peak /\ req'[r].now = n
      BY <1>3, <1>8, <3>2 DEF Becomes, Noted
    <3>5. \A q \in Requests : req'[q].pc \in Noted \cup {"beat"} => q = r
      BY <3>3 DEF Noted, Beats
    <3>6. QED
      BY <1>5, <3>2, <3>3, <3>4, <3>5 DEF PeakOK
  <2>3. QED
    BY <2>1, <2>2
<1>15. QED
  BY <1>9, <1>10, <1>12, <1>13, <1>14 DEF AudienceInv

LEMMA LeaveStep ==
  ASSUME AudienceInv, NEW r \in Requests, Leave(r)
  PROVE  AudienceInv'
<1>1. PICK u : u = req[r].user
  OBVIOUS
<1>2. /\ req[r].pc = "leave" /\ Done(r)
      /\ present' = present \ {u} /\ stale' = stale \cap (present \ {u})
      /\ ghosts' = IF Beating(u) THEN ghosts \cup {u} ELSE ghosts \ {u}
      /\ astray' = (astray \/ Watching(u) \/ Beating(u))
      /\ UNCHANGED <<page, views, peak, invite, access, visits, reached, raced, contested, admitted>>
  BY <1>1 DEF Leave, Remaining, stream
<1>3. Typed /\ ReqOK /\ u \in Users
  BY <1>1, <1>2 DEF AudienceInv, Typed, ReqOK
<1>4. ReqOK' /\ Becomes(r, "idle", Owner, 0, 0)
  BY <1>2, <1>3, EndRequest
<1>5. Typed'
  BY <1>2, <1>3, <1>4 DEF Typed
<1>6. InviteOK'
  BY <1>2, <1>4, InviteFrame DEF Becomes
<1>7. PeakOK'
  BY <1>2, <1>4, PeakFrame DEF Becomes, Beats
<1>8. \A w \in Users : /\ Beating(w)' => Beating(w)
                       /\ Leaving(w) /\ w # u => Leaving(w)'
                       /\ Coming(w)' => Coming(w)
                       /\ Coming(w) => Beating(w)
                       /\ Watching(w)' <=> Watching(w)
  BY <1>1, <1>2, <1>4 DEF Beating, Leaving, Coming, Watching, Becomes, Beats
<1>9. PresentOK'
  <2> SUFFICES ASSUME NEW w \in Users, w \in present' \/ Beating(w)'
        PROVE  Watching(w)' \/ Leaving(w)' \/ w \in ghosts'
    BY DEF PresentOK
  <2>1. CASE w = u
    BY <1>2, <1>8, <2>1
  <2>2. CASE w # u
    <3>1. w \in present \/ Beating(w)
      BY <1>2, <1>8
    <3>2. Watching(w) \/ Leaving(w) \/ w \in ghosts
      BY <3>1 DEF AudienceInv, PresentOK
    <3>3. QED
      BY <1>2, <1>8, <2>2, <3>2
  <2>3. QED
    BY <2>1, <2>2
<1>10. VisitOK'
  <2>1. CASE astray'
    BY <2>1 DEF VisitOK
  <2>2. CASE ~astray'
    <3>1. ~astray /\ ~Watching(u) /\ ~Coming(u)
      BY <1>2, <1>3, <1>8, <2>2
    <3>2. \A w \in Users : w # u => (w \in Fresh' <=> w \in Fresh)
      BY <1>2 DEF Fresh
    <3>3. \A w \in Users : Awaits(w)' => Awaits(w)
      BY <1>8, <3>1, <3>2 DEF Awaits
    <3>4. \A q \in Requests : req'[q].pc = "view" => req[q].pc = "view"
      BY <1>4 DEF Becomes
    <3>5. QED
      BY <1>2, <3>1, <3>3, <3>4, VisitFrame
  <2>3. QED
    BY <2>1, <2>2
<1>11. QED
  BY <1>5, <1>6, <1>7, <1>9, <1>10 DEF AudienceInv

----------------------------------------------------------------------------
(* streamHeartbeat.                                                        *)

LEMMA ReadStep ==
  ASSUME AudienceInv, NEW r \in Requests, Read(r)
  PROVE  AudienceInv'
<1>1. /\ req[r].pc = "read"
      /\ UNCHANGED <<page, present, stale, views, peak, invite, access, visits, reached, ghosts,
                     astray, raced, contested, admitted>>
  BY DEF Read, presence, stream, history
<1>2. Typed /\ ReqOK /\ peak \in Nat
  BY DEF AudienceInv, Typed
<1>3. CASE Done(r)
  <2>1. ReqOK' /\ Becomes(r, "idle", Owner, 0, 0)
    BY <1>2, <1>3, EndRequest
  <2>2. Typed'
    BY <1>1, <1>2, <2>1 DEF Typed
  <2>3. InviteOK'
    BY <1>1, <2>1, InviteFrame DEF Becomes
  <2>4. PresentOK'
    BY <1>1, <2>1, PresentFrame DEF Becomes, Beats
  <2>5. VisitOK'
    <3>1. Fresh' = Fresh
      BY <1>1 DEF Fresh
    <3>2. QED
      BY <1>1, <2>1, <3>1, VisitStill DEF Becomes
  <2>6. PeakOK'
    <3>1. CASE raced
      BY <1>1, <3>1 DEF PeakOK
    <3>2. CASE ~raced
      <4>1. \A q \in Requests : req[q].pc \in Beats => q = r
        BY <1>1, <3>2 DEF AudienceInv, PeakOK, Beats
      <4>2. peak = reached
        BY <1>1, <3>2, <4>1 DEF AudienceInv, PeakOK, Noted, Beats
      <4>3. \A q \in Requests : req'[q].pc \notin Beats
        BY <2>1, <4>1 DEF Becomes, Beats
      <4>4. QED
        BY <1>1, <4>2, <4>3 DEF PeakOK, Noted, Beats
    <3>3. QED
      BY <3>1, <3>2
  <2>7. QED
    BY <2>2, <2>3, <2>4, <2>5, <2>6 DEF AudienceInv
<1>4. CASE req' = [req EXCEPT ![r].pc = "beat", ![r].peak = peak]
  <2>1. PICK pk : pk = peak
    OBVIOUS
  <2>2. ReqOK' /\ Becomes(r, "beat", req[r].user, pk, req[r].now)
    BY <1>1, <1>2, <1>4, <2>1, ReadRequest DEF Pcs, Beats
  <2>3. Typed'
    BY <1>1, <1>2, <2>2 DEF Typed
  <2>4. InviteOK'
    BY <1>1, <2>2, InviteFrame DEF Becomes
  <2>5. PresentOK'
    BY <1>1, <2>2, PresentFrame DEF Becomes, Beats
  <2>6. VisitOK'
    <3>1. Fresh' = Fresh
      BY <1>1 DEF Fresh
    <3>2. QED
      BY <1>1, <2>2, <3>1, VisitStill DEF Becomes
  <2>7. PeakOK'
    <3>1. CASE raced
      BY <1>1, <3>1 DEF PeakOK
    <3>2. CASE ~raced
      <4>1. \A q \in Requests : req[q].pc \in Beats => q = r
        BY <1>1, <3>2 DEF AudienceInv, PeakOK, Beats
      <4>2. peak = reached
        BY <1>1, <3>2, <4>1 DEF AudienceInv, PeakOK, Noted, Beats
      <4>3. \A q \in Requests : req'[q].pc \in Beats => q = r
        BY <2>2, <4>1 DEF Becomes
      <4>4. req'[r].pc = "beat" /\ req'[r].peak = peak
        BY <2>1, <2>2 DEF Becomes
      <4>5. \A q \in Requests : req'[q].pc \notin Noted
        BY <4>3, <4>4 DEF Noted, Beats
      <4>6. \A q \in Requests : req'[q].pc = "beat" => q = r
        BY <4>3 DEF Beats
      <4>7. QED
        BY <1>1, <4>2, <4>3, <4>4, <4>5, <4>6 DEF PeakOK
    <3>3. QED
      BY <3>1, <3>2
  <2>8. QED
    BY <2>3, <2>4, <2>5, <2>6, <2>7 DEF AudienceInv
<1>5. QED
  BY <1>3, <1>4 DEF Read

LEMMA ViewStep ==
  ASSUME AudienceInv, NEW r \in Requests, View(r)
  PROVE  AudienceInv'
<1>1. /\ req[r].pc = "view" /\ To(r, "peak")
      /\ views' = views + 1 \/ views' = views
      /\ UNCHANGED <<page, present, stale, peak, invite, access, visits, reached, ghosts, astray,
                     raced, contested, admitted>>
  BY DEF View, history
<1>2. Typed /\ ReqOK
  BY DEF AudienceInv, Typed
<1>3. ReqOK' /\ Becomes(r, "peak", req[r].user, req[r].peak, req[r].now)
  BY <1>1, <1>2, MoveRequest DEF Pcs, Beats
<1>4. Typed'
  BY <1>1, <1>2, <1>3 DEF Typed
<1>5. InviteOK'
  BY <1>1, <1>3, InviteFrame DEF Becomes
<1>6. PresentOK'
  BY <1>1, <1>3, PresentFrame DEF Becomes, Beats
<1>7. VisitOK'
  <2>1. Fresh' = Fresh
    BY <1>1 DEF Fresh
  <2>2. ToCount' \subseteq ToCount
    BY <1>1, <1>3, <2>1 DEF ToCount, Awaits, Watching, Coming, Becomes
  <2>3. r \in Counting /\ Counting' \subseteq Counting \ {r}
    BY <1>1, <1>3 DEF Counting, Becomes
  <2>4. ToCount \subseteq Users /\ Counting \subseteq Requests
    BY DEF ToCount, Counting
  <2>5. /\ IsFiniteSet(ToCount) /\ Cardinality(ToCount) \in Nat
        /\ IsFiniteSet(Counting) /\ Cardinality(Counting) \in Nat
    BY <2>4, FiniteUsers, FiniteRequests
  <2>6. Cardinality(ToCount') \in Nat /\ Cardinality(ToCount') <= Cardinality(ToCount)
    BY <2>2, <2>5, FS_Subset, FS_CardinalityType
  <2>7. IsFiniteSet(Counting \ {r}) /\ Cardinality(Counting \ {r}) = Cardinality(Counting) - 1
    BY <2>3, <2>5, FS_RemoveElement
  <2>8. Cardinality(Counting') \in Nat /\ Cardinality(Counting') <= Cardinality(Counting \ {r})
    BY <2>3, <2>7, FS_Subset, FS_CardinalityType
  <2>9. views \in Nat /\ visits \in Nat /\ VisitOK
    BY <1>2 DEF AudienceInv, Typed
  <2>10. QED
    BY <1>1, <2>5, <2>6, <2>7, <2>8, <2>9 DEF VisitOK
<1>8. PeakOK'
  <2>1. \A q \in Requests : /\ req'[q].pc \in Beats <=> req[q].pc \in Beats
                            /\ req'[q].pc \in Noted <=> req[q].pc \in Noted
                            /\ req'[q].pc = "beat" <=> req[q].pc = "beat"
                            /\ req'[q].peak = req[q].peak /\ req'[q].now = req[q].now
    BY <1>1, <1>3 DEF Becomes, Beats, Noted
  <2>2. QED
    BY <1>1, <2>1 DEF AudienceInv, PeakOK
<1>9. QED
  BY <1>4, <1>5, <1>6, <1>7, <1>8 DEF AudienceInv

LEMMA PeakStep ==
  ASSUME AudienceInv, NEW r \in Requests, Peak(r)
  PROVE  AudienceInv'
<1>1. /\ req[r].pc = "peak" /\ Done(r)
      /\ \/ peak' = (IF req[r].now > req[r].peak THEN req[r].now ELSE peak) /\ raced' = raced
         \/ raced' = TRUE /\ peak' = peak
      /\ UNCHANGED <<page, present, stale, views, invite, access, visits, reached, ghosts, astray,
                     contested, admitted>>
  BY DEF Peak, IsPeak, presence
<1>2. Typed /\ ReqOK
  BY DEF AudienceInv, Typed
<1>3. ReqOK' /\ Becomes(r, "idle", Owner, 0, 0)
  BY <1>1, <1>2, EndRequest
<1>4. Typed'
  <2>1. req[r].now \in Nat
    BY <1>2 DEF ReqOK, Request
  <2>2. QED
    BY <1>1, <1>2, <1>3, <2>1 DEF Typed
<1>5. InviteOK'
  BY <1>1, <1>3, InviteFrame DEF Becomes
<1>6. PresentOK'
  BY <1>1, <1>3, PresentFrame DEF Becomes, Beats
<1>7. VisitOK'
  <2>1. Fresh' = Fresh
    BY <1>1 DEF Fresh
  <2>2. QED
    BY <1>1, <1>3, <2>1, VisitStill DEF Becomes
<1>8. PeakOK'
  <2>1. CASE raced'
    BY <2>1 DEF PeakOK
  <2>2. CASE ~raced'
    <3>1. /\ ~raced
          /\ peak' = IF req[r].now > req[r].peak THEN req[r].now ELSE peak
      BY <1>1, <2>2
    <3>2. /\ \A q \in Requests : req[q].pc \in Beats => q = r
          /\ req[r].peak = peak
          /\ reached = IF req[r].now > peak THEN req[r].now ELSE peak
      BY <1>1, <3>1 DEF AudienceInv, PeakOK, Beats, Noted
    <3>3. peak' = reached
      BY <3>1, <3>2
    <3>4. \A q \in Requests : req'[q].pc \notin Beats
      BY <1>3, <3>2 DEF Becomes, Beats
    <3>5. QED
      BY <1>1, <3>3, <3>4 DEF PeakOK, Noted, Beats
  <2>3. QED
    BY <2>1, <2>2
<1>9. QED
  BY <1>4, <1>5, <1>6, <1>7, <1>8 DEF AudienceInv

\* A step that leaves all of this alone.
LEMMA StillStep ==
  ASSUME AudienceInv,
         UNCHANGED <<page, present, stale, views, peak, access, invite, req, visits, reached,
                     ghosts, astray, raced, contested, admitted>>
  PROVE  AudienceInv'
<1>1. Typed'
  BY DEF AudienceInv, Typed, ReqOK
<1>2. Fresh' = Fresh
  BY DEF Fresh
<1>3. InviteOK' /\ PresentOK' /\ VisitOK' /\ PeakOK'
  BY <1>2, InviteFrame, PresentFrame, VisitStill, PeakFrame
<1>4. QED
  BY <1>1, <1>3 DEF AudienceInv

----------------------------------------------------------------------------
(* The invite.                                                             *)

\* The invite is created, expires or is revoked.
LEMMA InviteOnly ==
  ASSUME AudienceInv,
         UNCHANGED <<page, present, stale, views, peak, access, req, visits, reached, ghosts,
                     astray, raced, contested>>,
         invite' \in [made : BOOLEAN, revoked : BOOLEAN, expired : BOOLEAN, uses : Nat],
         invite'.uses = invite.uses,
         \/ invite'.revoked = invite.revoked /\ admitted' = admitted
         \/ /\ access \subseteq admitted'
            /\ \A r \in Requests : req[r].pc = "grant" => req[r].user \in admitted'
  PROVE  AudienceInv'
<1>1. Typed'
  BY DEF AudienceInv, Typed, ReqOK
<1>2. Fresh' = Fresh
  BY DEF Fresh
<1>3. PresentOK' /\ VisitOK' /\ PeakOK'
  BY <1>2, PresentFrame, VisitStill, PeakFrame
<1>4. InviteOK'
  <2>1. InviteOK /\ \A q \in Requests : Entering(q)' <=> Entering(q)
    BY DEF AudienceInv, Entering
  <2>2. Cardinality(access') = Cardinality(access)
    OBVIOUS
  <2>3. Cardinality(access') <= invite'.uses
    BY <2>1, <2>2 DEF InviteOK
  <2>4. ASSUME ~contested'
        PROVE  /\ invite'.uses <= MaxUses /\ invite'.uses = Cardinality(access')
               /\ \A q, r \in Requests : Entering(q)' /\ Entering(r)' => q = r
               /\ \A r \in Requests : req'[r].pc = "grant" =>
                    req'[r].user \notin access' /\ invite'.uses < MaxUses
    BY <2>1, <2>2, <2>4 DEF InviteOK
  <2>5. ASSUME invite'.revoked
        PROVE  /\ access' \subseteq admitted'
               /\ \A r \in Requests : req'[r].pc = "grant" => req'[r].user \in admitted'
    BY <2>1, <2>5 DEF InviteOK
  <2>6. QED
    BY <2>3, <2>4, <2>5 DEF InviteOK
<1>5. QED
  BY <1>1, <1>3, <1>4 DEF AudienceInv

LEMMA CreateStep ==
  ASSUME AudienceInv, CreateInvite
  PROVE  AudienceInv'
<1>1. /\ invite' = [invite EXCEPT !.made = TRUE]
      /\ invite \in [made : BOOLEAN, revoked : BOOLEAN, expired : BOOLEAN, uses : Nat]
      /\ UNCHANGED <<page, present, stale, views, peak, access, req, visits, reached, ghosts,
                     astray, raced, contested, admitted>>
  BY DEF CreateInvite, presence, stream, history, AudienceInv, Typed
<1>2. /\ invite' \in [made : BOOLEAN, revoked : BOOLEAN, expired : BOOLEAN, uses : Nat]
      /\ invite'.uses = invite.uses /\ invite'.revoked = invite.revoked
  BY <1>1
<1>3. QED
  BY <1>1, <1>2, InviteOnly

LEMMA ExpireStep ==
  ASSUME AudienceInv, ExpireInvite
  PROVE  AudienceInv'
<1>1. /\ invite' = [invite EXCEPT !.expired = TRUE]
      /\ invite \in [made : BOOLEAN, revoked : BOOLEAN, expired : BOOLEAN, uses : Nat]
      /\ UNCHANGED <<page, present, stale, views, peak, access, req, visits, reached, ghosts,
                     astray, raced, contested, admitted>>
  BY DEF ExpireInvite, presence, stream, history, AudienceInv, Typed
<1>2. /\ invite' \in [made : BOOLEAN, revoked : BOOLEAN, expired : BOOLEAN, uses : Nat]
      /\ invite'.uses = invite.uses /\ invite'.revoked = invite.revoked
  BY <1>1
<1>3. QED
  BY <1>1, <1>2, InviteOnly

LEMMA RevokeStep ==
  ASSUME AudienceInv, RevokeInvite
  PROVE  AudienceInv'
<1>1. /\ invite' = [invite EXCEPT !.revoked = TRUE]
      /\ invite \in [made : BOOLEAN, revoked : BOOLEAN, expired : BOOLEAN, uses : Nat]
      /\ admitted' = access \cup {req[r].user : r \in {q \in Requests : req[q].pc = "grant"}}
      /\ UNCHANGED <<page, present, stale, views, peak, access, req, visits, reached, ghosts,
                     astray, raced, contested>>
  BY DEF RevokeInvite, presence, stream, AudienceInv, Typed
<1>2. /\ invite' \in [made : BOOLEAN, revoked : BOOLEAN, expired : BOOLEAN, uses : Nat]
      /\ invite'.uses = invite.uses
  BY <1>1
<1>3. /\ access \subseteq admitted'
      /\ \A r \in Requests : req[r].pc = "grant" => req[r].user \in admitted'
  BY <1>1
<1>4. QED
  BY <1>1, <1>2, <1>3, InviteOnly

LEMMA RedeemStep ==
  ASSUME AudienceInv, NEW r \in Requests, NEW u \in Users, Redeem(r, u)
  PROVE  AudienceInv'
<1>1. /\ Start(r, "redeem", u)
      /\ contested' = (contested \/ \E q \in Requests : req[q].pc \in {"redeem", "grant"})
      /\ UNCHANGED <<page, present, stale, views, peak, invite, access, visits, reached, ghosts,
                     astray, raced, admitted>>
  BY DEF Redeem, presence, stream
<1>2. Typed /\ ReqOK
  BY DEF AudienceInv, Typed
<1>3. ReqOK' /\ Becomes(r, "redeem", u, 0, 0) /\ req[r].pc = "idle"
  BY <1>1, <1>2, StartRequest DEF Pcs
<1>4. Typed'
  BY <1>1, <1>2, <1>3 DEF Typed
<1>5. PresentOK'
  BY <1>1, <1>3, PresentFrame DEF Becomes, Beats
<1>6. VisitOK'
  <2>1. Fresh' = Fresh
    BY <1>1 DEF Fresh
  <2>2. QED
    BY <1>1, <1>3, <2>1, VisitStill DEF Becomes
<1>7. PeakOK'
  BY <1>1, <1>3, PeakFrame DEF Becomes, Beats
<1>8. InviteOK'
  <2>1. InviteOK
    BY DEF AudienceInv
  <2>2. \A q \in Requests : /\ req'[q].pc = "grant" <=> req[q].pc = "grant"
                            /\ req[q].pc = "grant" => req'[q].user = req[q].user
    BY <1>3 DEF Becomes
  <2>3. Cardinality(access') <= invite'.uses
    BY <1>1, <2>1 DEF InviteOK
  <2>4. ASSUME ~contested'
        PROVE  /\ invite'.uses <= MaxUses /\ invite'.uses = Cardinality(access')
               /\ \A q, s \in Requests : Entering(q)' /\ Entering(s)' => q = s
               /\ \A q \in Requests : req'[q].pc = "grant" =>
                    req'[q].user \notin access' /\ invite'.uses < MaxUses
    <3>1. ~contested /\ \A q \in Requests : ~ Entering(q)
      BY <1>1, <2>4 DEF Entering
    <3>2. invite'.uses <= MaxUses /\ invite'.uses = Cardinality(access')
      BY <1>1, <2>1, <3>1 DEF InviteOK
    <3>3. \A q \in Requests : Entering(q)' => q = r
      BY <1>3, <3>1 DEF Becomes, Entering
    <3>4. \A q \in Requests : req'[q].pc # "grant"
      BY <2>2, <3>1 DEF Entering
    <3>5. QED
      BY <3>2, <3>3, <3>4
  <2>5. ASSUME invite'.revoked
        PROVE  /\ access' \subseteq admitted'
               /\ \A q \in Requests : req'[q].pc = "grant" => req'[q].user \in admitted'
    BY <1>1, <2>1, <2>2, <2>5 DEF InviteOK
  <2>6. QED
    BY <2>3, <2>4, <2>5 DEF InviteOK
<1>9. QED
  BY <1>4, <1>5, <1>6, <1>7, <1>8 DEF AudienceInv

LEMMA CheckStep ==
  ASSUME AudienceInv, NEW r \in Requests, CheckInvite(r)
  PROVE  AudienceInv'
<1>1. /\ req[r].pc = "redeem"
      /\ UNCHANGED <<page, present, stale, views, peak, invite, access, visits, reached, ghosts,
                     astray, raced, contested, admitted>>
  BY DEF CheckInvite, presence, stream, history
<1>2. Typed /\ ReqOK
  BY DEF AudienceInv, Typed
<1>3. CASE Done(r)
  <2>1. ReqOK' /\ Becomes(r, "idle", Owner, 0, 0)
    BY <1>2, <1>3, EndRequest
  <2>2. Typed'
    BY <1>1, <1>2, <2>1 DEF Typed
  <2>3. InviteOK'
    BY <1>1, <2>1, InviteFrame DEF Becomes
  <2>4. PresentOK'
    BY <1>1, <2>1, PresentFrame DEF Becomes, Beats
  <2>5. VisitOK'
    <3>1. Fresh' = Fresh
      BY <1>1 DEF Fresh
    <3>2. QED
      BY <1>1, <2>1, <3>1, VisitStill DEF Becomes
  <2>6. PeakOK'
    BY <1>1, <2>1, PeakFrame DEF Becomes, Beats
  <2>7. QED
    BY <2>2, <2>3, <2>4, <2>5, <2>6 DEF AudienceInv
<1>4. CASE InForce /\ req[r].user \notin access /\ To(r, "grant")
  <2>1. ReqOK' /\ Becomes(r, "grant", req[r].user, req[r].peak, req[r].now)
    BY <1>1, <1>2, <1>4, MoveRequest DEF Pcs
  <2>2. Typed'
    BY <1>1, <1>2, <2>1 DEF Typed
  <2>3. InviteOK'
    <3>1. InviteOK /\ ~invite.revoked /\ invite.uses < MaxUses
      BY <1>4 DEF AudienceInv, InForce
    <3>2. Cardinality(access') <= invite'.uses /\ ~invite'.revoked
      BY <1>1, <3>1 DEF InviteOK
    <3>3. ASSUME ~contested'
          PROVE  /\ invite'.uses <= MaxUses /\ invite'.uses = Cardinality(access')
                 /\ \A q, s \in Requests : Entering(q)' /\ Entering(s)' => q = s
                 /\ \A q \in Requests : req'[q].pc = "grant" =>
                      req'[q].user \notin access' /\ invite'.uses < MaxUses
      <4>1. \A q \in Requests : Entering(q)' => Entering(q)
        BY <1>1, <2>1 DEF Becomes, Entering
      <4>2. \A q, s \in Requests : Entering(q) /\ Entering(s) => q = s
        BY <1>1, <3>1, <3>3 DEF InviteOK
      <4>3. \A q \in Requests : req'[q].pc = "grant" => q = r
        <5>1. Entering(r)
          BY <1>1 DEF Entering
        <5>2. \A q \in Requests : req'[q].pc = "grant" => Entering(q)'
          BY DEF Entering
        <5>3. QED
          BY <4>1, <4>2, <5>1, <5>2
      <4>4. req'[r].user \notin access'
        BY <1>1, <1>4, <2>1 DEF Becomes
      <4>5. invite'.uses <= MaxUses /\ invite'.uses = Cardinality(access')
        BY <1>1, <3>1, <3>3 DEF InviteOK
      <4>6. invite'.uses < MaxUses
        BY <1>1, <3>1
      <4>7. QED
        BY <4>1, <4>2, <4>3, <4>4, <4>5, <4>6
    <3>4. QED
      BY <3>2, <3>3 DEF InviteOK
  <2>4. PresentOK'
    BY <1>1, <2>1, PresentFrame DEF Becomes, Beats
  <2>5. VisitOK'
    <3>1. Fresh' = Fresh
      BY <1>1 DEF Fresh
    <3>2. QED
      BY <1>1, <2>1, <3>1, VisitStill DEF Becomes
  <2>6. PeakOK'
    BY <1>1, <2>1, PeakFrame DEF Becomes, Beats
  <2>7. QED
    BY <2>2, <2>3, <2>4, <2>5, <2>6 DEF AudienceInv
<1>5. QED
  BY <1>3, <1>4 DEF CheckInvite

LEMMA GrantStep ==
  ASSUME AudienceInv, NEW r \in Requests, Grant(r)
  PROVE  AudienceInv'
<1>1. PICK u : u = req[r].user
  OBVIOUS
<1>2. /\ req[r].pc = "grant" /\ Done(r)
      /\ access' = access \cup {u} /\ invite' = [invite EXCEPT !.uses = @ + 1]
      /\ UNCHANGED <<page, present, stale, views, peak, visits, reached, ghosts, astray, raced,
                     contested, admitted>>
  BY <1>1 DEF Grant, presence, stream, history
<1>3. Typed /\ ReqOK /\ u \in Users
  BY <1>1, <1>2 DEF AudienceInv, Typed, ReqOK
<1>4. ReqOK' /\ Becomes(r, "idle", Owner, 0, 0)
  BY <1>2, <1>3, EndRequest
<1>5. /\ invite' \in [made : BOOLEAN, revoked : BOOLEAN, expired : BOOLEAN, uses : Nat]
      /\ invite'.uses = invite.uses + 1 /\ invite'.revoked = invite.revoked
      /\ invite.uses \in Nat
  BY <1>2, <1>3 DEF Typed
<1>6. Typed'
  BY <1>2, <1>3, <1>4, <1>5 DEF Typed
<1>7. PresentOK'
  BY <1>2, <1>4, PresentFrame DEF Becomes, Beats
<1>8. VisitOK'
  <2>1. Fresh' = Fresh
    BY <1>2 DEF Fresh
  <2>2. QED
    BY <1>2, <1>4, <2>1, VisitStill DEF Becomes
<1>9. PeakOK'
  BY <1>2, <1>4, PeakFrame DEF Becomes, Beats
<1>10. InviteOK'
  <2>1. InviteOK
    BY DEF AudienceInv
  <2>2. IsFiniteSet(access) /\ Cardinality(access) \in Nat
    BY <1>3, FiniteUsers DEF Typed
  <2>3. Cardinality(access') = IF u \in access THEN Cardinality(access) ELSE Cardinality(access) + 1
    BY <1>2, <2>2, FS_AddElement
  <2>4. Cardinality(access) <= invite.uses
    BY <2>1 DEF InviteOK
  <2>5. Cardinality(access') <= invite'.uses
    BY <1>5, <2>2, <2>3, <2>4
  <2>6. ASSUME ~contested'
        PROVE  /\ invite'.uses <= MaxUses /\ invite'.uses = Cardinality(access')
               /\ \A q, s \in Requests : Entering(q)' /\ Entering(s)' => q = s
               /\ \A q \in Requests : req'[q].pc = "grant" =>
                    req'[q].user \notin access' /\ invite'.uses < MaxUses
    <3>1. /\ invite.uses = Cardinality(access) /\ u \notin access /\ invite.uses < MaxUses
          /\ \A q, s \in Requests : Entering(q) /\ Entering(s) => q = s
      BY <1>1, <1>2, <2>1, <2>6 DEF InviteOK
    <3>2. invite'.uses <= MaxUses /\ invite'.uses = Cardinality(access')
      BY <1>5, <2>2, <2>3, <3>1
    <3>3. \A q \in Requests : ~ Entering(q)'
      BY <1>2, <1>4, <3>1 DEF Becomes, Entering
    <3>4. QED
      BY <3>2, <3>3 DEF Entering
  <2>7. ASSUME invite'.revoked
        PROVE  /\ access' \subseteq admitted'
               /\ \A q \in Requests : req'[q].pc = "grant" => req'[q].user \in admitted'
    <3>1. /\ access \subseteq admitted
          /\ \A q \in Requests : req[q].pc = "grant" => req[q].user \in admitted
      BY <1>5, <2>1, <2>7 DEF InviteOK
    <3>2. u \in admitted
      BY <1>1, <1>2, <3>1
    <3>3. QED
      BY <1>2, <1>4, <3>1, <3>2 DEF Becomes
  <2>8. QED
    BY <2>5, <2>6, <2>7 DEF InviteOK
<1>11. QED
  BY <1>6, <1>7, <1>8, <1>9, <1>10 DEF AudienceInv

----------------------------------------------------------------------------
(* The invariant, and what follows.                                        *)

LEMMA NextAudience == AudienceInv /\ [Next]_vars => AudienceInv'
<1> SUFFICES ASSUME AudienceInv, [Next]_vars PROVE AudienceInv'
  OBVIOUS
<1>1. CASE \E p \in Pages : Open(p) \/ Close(p) \/ \E r \in Requests : Ping(r, p)
  BY <1>1, OpenStep, CloseStep, PingStep
<1>2. CASE \E r \in Requests : Step(r) \/ \E u \in Users : Redeem(r, u)
  BY <1>2, ReadStep, BeatStep, ViewStep, PeakStep, LeaveStep, CheckStep, GrantStep, RedeemStep
     DEF Step
<1>3. CASE \E u \in Users : Age(u)
  BY <1>3, AgeStep
<1>4. CASE Look
  BY <1>4, LookStep
<1>5. CASE End
  BY <1>5, StillStep DEF End, presence, history
<1>6. CASE CreateInvite \/ RevokeInvite \/ ExpireInvite
  BY <1>6, CreateStep, RevokeStep, ExpireStep
<1>7. CASE UNCHANGED vars
  BY <1>7, StillStep DEF vars, presence, stream, history
<1>8. QED
  BY <1>1, <1>2, <1>3, <1>4, <1>5, <1>6, <1>7 DEF Next

\* AudienceInv holds for every number of pages, users and requests in progress.
THEOREM AudienceInvHolds == Spec => []AudienceInv
  BY InitAudience, NextAudience, PTL DEF Spec

\* redeemInviteCode and revokeInvite: access never outgrows the uses; if codes are redeemed
\* one by one, uses is the number of the admitted and at most maxUses; and whoever gets
\* access after the invite was revoked had passed its check before.
THEOREM InviteHoldsHolds == Spec => []InviteHolds
<1>1. AudienceInv => InviteHolds
  BY DEF AudienceInv, InviteOK, InviteHolds
<1>2. QED
  BY <1>1, AudienceInvHolds, PTL

\* streamHeartbeat, with viewerPresence.heartbeat and leave: whatever the order of heartbeats,
\* leaves and prunings, views made, views on their way and viewers not yet in the map never
\* outnumber the visits; and one heartbeat at a time leaves in peakViewers the most users found.
THEOREM CountsAgreeHolds == Spec => []CountsAgree
<1>1. AudienceInv => VisitsCountOnce
  <2> SUFFICES ASSUME AudienceInv, ~astray PROVE views <= visits
    BY DEF VisitsCountOnce
  <2>1. ToCount \subseteq Users /\ Counting \subseteq Requests
    BY DEF ToCount, Counting
  <2>2. Cardinality(ToCount) \in Nat /\ Cardinality(Counting) \in Nat
    BY <2>1, FiniteUsers, FiniteRequests
  <2>3. views \in Nat /\ visits \in Nat
    BY DEF AudienceInv, Typed
  <2>4. views + Cardinality(Counting) + Cardinality(ToCount) <= visits
    BY DEF AudienceInv, VisitOK
  <2>5. QED
    BY <2>2, <2>3, <2>4
<1>2. AudienceInv => PeakIsReached
  BY DEF AudienceInv, PeakOK, PeakIsReached, AtRest, Idle, Noted
<1>3. QED
  BY <1>1, <1>2, AudienceInvHolds, PTL DEF CountsAgree

\* viewerPresence: when nothing is at work, whoever getCurrentViewers counts has the page
\* open, or the leave of the last tab was lost or was overtaken by a heartbeat.
THEOREM PresentHolds == Spec => []PresentAreWatching
<1>1. AudienceInv => PresentAreWatching
  <2> SUFFICES ASSUME AudienceInv, AtRest, NEW u \in Fresh PROVE Watching(u) \/ u \in ghosts
    BY DEF PresentAreWatching
  <2>1. u \in Users /\ u \in present
    BY DEF AudienceInv, Typed, Fresh
  <2>2. ~ Leaving(u)
    BY DEF AtRest, Idle, Leaving
  <2>3. QED
    BY <2>1, <2>2 DEF AudienceInv, PresentOK
<1>2. QED
  BY <1>1, AudienceInvHolds, PTL

----------------------------------------------------------------------------
(* The types, with the numbers that bound each other: a view is counted    *)
(* for a heartbeat that was sent, a use of the invite for a code that was  *)
(* entered, and no peak is above the number of users.                      *)

MapOK ==
  /\ mapped \in BOOLEAN /\ stale \subseteq present /\ counted \subseteq present
  /\ present # {} => mapped
PeaksOK ==
  /\ peak <= Cardinality(Users)
  /\ \A r \in Requests : req[r].peak <= Cardinality(Users) /\ req[r].now <= Cardinality(Users)
BoundsOK ==
  /\ opens \in 0 .. MaxOpens /\ pings \in 0 .. MaxPings
  /\ redeems \in 0 .. MaxRedeems /\ mishaps \in 0 .. MaxMishaps
  /\ ended \in BOOLEAN

\* The heartbeats a view may still come of, and the codes a use may.
Viewing == {r \in Requests : req[r].pc \in {"read", "beat", "view"}}
Redeeming == {r \in Requests : Entering(r)}
ViewsOK == views + Cardinality(Viewing) <= pings
UsesOK == invite.uses + Cardinality(Redeeming) <= redeems

TypeInv == MapOK /\ PeaksOK /\ BoundsOK /\ ViewsOK /\ UsesOK

\* A counter and the requests that are to raise it, after one more request or one less.
LEMMA Balance ==
  ASSUME NEW S \in SUBSET Requests, NEW T \in SUBSET Requests, NEW x \in Requests,
         NEW a \in Nat, NEW b \in Nat, NEW m \in Nat, NEW n \in Nat,
         a + Cardinality(S) <= m,
         \/ T \subseteq S /\ b = a /\ n = m
         \/ T \subseteq S \cup {x} /\ b = a /\ n = m + 1
         \/ x \in S /\ T \subseteq S \ {x} /\ b <= a + 1 /\ n = m
  PROVE  b + Cardinality(T) <= n
<1>1. /\ IsFiniteSet(S) /\ Cardinality(S) \in Nat /\ Cardinality(T) \in Nat
  BY FiniteRequests
<1>2. CASE T \subseteq S /\ b = a /\ n = m
  <2>1. Cardinality(T) <= Cardinality(S)
    BY <1>1, <1>2, FS_Subset
  <2> QED
    BY <1>1, <1>2, <2>1
<1>3. CASE T \subseteq S \cup {x} /\ b = a /\ n = m + 1
  <2>1. Cardinality(T) <= Cardinality(S) + 1
    BY <1>1, <1>3, OneMore
  <2> QED
    BY <1>1, <1>3, <2>1
<1>4. CASE x \in S /\ T \subseteq S \ {x} /\ b <= a + 1 /\ n = m
  <2>1. IsFiniteSet(S \ {x}) /\ Cardinality(S \ {x}) = Cardinality(S) - 1
    BY <1>1, <1>4, FS_RemoveElement
  <2>2. Cardinality(T) <= Cardinality(S \ {x})
    BY <1>4, <2>1, FS_Subset
  <2> QED
    BY <1>1, <1>4, <2>1, <2>2
<1> QED
  BY <1>2, <1>3, <1>4

LEMMA ViewsFrame ==
  ASSUME AudienceInv, ViewsOK, BoundsOK, UNCHANGED <<views, pings>>,
         \A q \in Requests : req'[q].pc \in {"read", "beat", "view"}
                               => req[q].pc \in {"read", "beat", "view"}
  PROVE  ViewsOK'
<1>1. Viewing' \subseteq Viewing /\ Viewing \subseteq Requests
  BY DEF Viewing
<1>2. Cardinality(Viewing') <= Cardinality(Viewing)
  BY <1>1, FiniteRequests, FS_Subset
<1>3. Cardinality(Viewing) \in Nat /\ Cardinality(Viewing') \in Nat
  BY <1>1, FiniteRequests
<1>4. views \in Nat /\ pings \in Nat
  BY DEF AudienceInv, Typed, BoundsOK
<1> QED
  BY <1>2, <1>3, <1>4 DEF ViewsOK

LEMMA UsesFrame ==
  ASSUME AudienceInv, UsesOK, BoundsOK, invite'.uses = invite.uses, redeems' = redeems,
         \A q \in Requests : Entering(q)' => Entering(q)
  PROVE  UsesOK'
<1>1. Redeeming' \subseteq Redeeming /\ Redeeming \subseteq Requests
  BY DEF Redeeming
<1>2. Cardinality(Redeeming') <= Cardinality(Redeeming)
  BY <1>1, FiniteRequests, FS_Subset
<1>3. Cardinality(Redeeming) \in Nat /\ Cardinality(Redeeming') \in Nat
  BY <1>1, FiniteRequests
<1>4. invite.uses \in Nat /\ redeems \in Nat
  BY DEF AudienceInv, Typed, BoundsOK
<1> QED
  BY <1>2, <1>3, <1>4 DEF UsesOK

\* No request has found more than there are.
LEMMA PeaksFrame ==
  ASSUME PeaksOK, NEW r \in Requests, NEW pc, NEW u, NEW pk, NEW n, Becomes(r, pc, u, pk, n),
         pk <= Cardinality(Users), n <= Cardinality(Users), peak' <= Cardinality(Users)
  PROVE  PeaksOK'
BY DEF PeaksOK, Becomes

LEMMA ZeroFits == 0 <= Cardinality(Users)
<1>1. Cardinality(Users) \in Nat
  BY FiniteUsers
<1> QED
  BY <1>1

\* Steps that leave the requests as they are.
LEMMA TypesStill ==
  ASSUME AudienceInv, TypeInv, UNCHANGED <<req, views, peak, pings, redeems>>,
         invite'.uses = invite.uses, MapOK', BoundsOK'
  PROVE  TypeInv'
<1>1. PeaksOK'
  BY DEF TypeInv, PeaksOK
<1>2. \A q \in Requests : Entering(q)' => Entering(q)
  BY DEF Entering
<1> QED
  BY <1>1, <1>2, ViewsFrame, UsesFrame DEF TypeInv

LEMMA InitTypes == Init => TypeInv
<1> SUFFICES ASSUME Init PROVE TypeInv
  OBVIOUS
<1>1. \A r \in Requests : req[r] = Idle
  BY DEF Init
<1>2. Viewing = {} /\ Redeeming = {}
  BY <1>1 DEF Viewing, Redeeming, Entering, Idle
<1>3. MapOK
  BY DEF Init, MapOK
<1>6. BoundsOK
  <2>1. \A n \in Nat : 0 \in 0 .. n
    OBVIOUS
  <2>2. MaxOpens \in Nat /\ MaxPings \in Nat /\ MaxRedeems \in Nat /\ MaxMishaps \in Nat
    BY Zenon
  <2>3. opens = 0 /\ pings = 0 /\ redeems = 0 /\ mishaps = 0 /\ ended = FALSE
    BY DEF Init
  <2> QED
    BY <2>1, <2>2, <2>3 DEF BoundsOK
<1>4. PeaksOK
  BY <1>1, ZeroFits DEF Init, PeaksOK, Idle
<1>5. ViewsOK /\ UsesOK
  BY <1>2, FS_EmptySet DEF Init, ViewsOK, UsesOK
<1> QED
  BY <1>3, <1>4, <1>5, <1>6 DEF TypeInv

\* The watch page.
LEMMA PageTypes ==
  ASSUME AudienceInv, TypeInv, NEW p \in Pages,
         Open(p) \/ Close(p) \/ \E r \in Requests : Ping(r, p)
  PROVE  TypeInv'
<1> USE DEF TypeInv
<1>1. CASE Open(p)
  <2>1. MapOK' /\ BoundsOK' /\ UNCHANGED <<req, views, peak, pings, redeems>> /\ invite' = invite
    BY <1>1 DEF Open, presence, stream, MapOK, BoundsOK
  <2> QED
    BY <2>1, TypesStill
<1>2. CASE Close(p)
  <2>1. /\ MapOK' /\ BoundsOK' /\ UNCHANGED <<views, peak, pings, redeems>> /\ invite' = invite
        /\ req' = req \/ \E r \in Requests : Start(r, "leave", UserOf[p])
    BY <1>2 DEF Close, presence, stream, MapOK, BoundsOK
  <2>2. CASE req' = req
    BY <2>1, <2>2, TypesStill
  <2>3. ASSUME NEW r \in Requests, Start(r, "leave", UserOf[p]) PROVE TypeInv'
    <3>1. ReqOK /\ UserOf[p] \in Users
      BY DEF AudienceInv, Typed
    <3>2. Becomes(r, "leave", UserOf[p], 0, 0)
      BY <2>3, <3>1, StartRequest DEF Pcs
    <3>3. PeaksOK'
      BY <2>1, <3>2, ZeroFits, PeaksFrame DEF PeaksOK
    <3>4. ViewsOK' /\ UsesOK'
      BY <2>1, <3>2, ViewsFrame, UsesFrame DEF Becomes, Entering
    <3> QED
      BY <2>1, <3>3, <3>4
  <2> QED
    BY <2>1, <2>2, <2>3
<1>3. ASSUME NEW r \in Requests, Ping(r, p) PROVE TypeInv'
  <2>1. /\ Start(r, "read", UserOf[p]) /\ pings' = pings + 1
        /\ UNCHANGED <<views, peak, redeems>> /\ invite' = invite
        /\ MapOK' /\ BoundsOK'
    BY <1>3 DEF Ping, presence, stream, MapOK, BoundsOK
  <2>2. ReqOK /\ UserOf[p] \in Users
    BY DEF AudienceInv, Typed
  <2>3. Becomes(r, "read", UserOf[p], 0, 0)
    BY <2>1, <2>2, StartRequest DEF Pcs, Beats
  <2>4. PeaksOK'
    BY <2>1, <2>3, ZeroFits, PeaksFrame DEF PeaksOK
  <2>5. UsesOK'
    BY <2>1, <2>3, UsesFrame DEF Becomes, Entering
  <2>6. ViewsOK'
    <3>1. Viewing \in SUBSET Requests /\ Viewing' \in SUBSET Requests /\ Viewing' \subseteq Viewing \cup {r}
      BY <2>3 DEF Viewing, Becomes
    <3>2. views \in Nat /\ pings \in Nat /\ pings' \in Nat
      BY <2>1 DEF AudienceInv, Typed, BoundsOK
    <3> QED
      BY <2>1, <3>1, <3>2, Balance DEF ViewsOK
  <2> QED
    BY <2>1, <2>4, <2>5, <2>6
<1> QED
  BY <1>1, <1>2, <1>3

\* The heartbeat.
LEMMA BeatTypes ==
  ASSUME AudienceInv, TypeInv, NEW r \in Requests, Read(r) \/ Beat(r) \/ View(r) \/ Peak(r)
  PROVE  TypeInv'
<1> USE DEF TypeInv
<1>1. ReqOK /\ views \in Nat /\ pings \in Nat /\ peak \in Nat
  BY DEF AudienceInv, Typed, BoundsOK
<1>2. /\ req[r].peak \in Nat /\ req[r].now \in Nat
      /\ req[r].peak <= Cardinality(Users) /\ req[r].now <= Cardinality(Users)
  BY <1>1 DEF PeaksOK, ReqOK, Request
<1>3. CASE Read(r)
  <2>1. /\ req[r].pc = "read" /\ UNCHANGED <<views, peak, pings, redeems>> /\ invite' = invite
        /\ MapOK' /\ BoundsOK'
        /\ Done(r) \/ req' = [req EXCEPT ![r].pc = "beat", ![r].peak = peak]
    BY <1>3 DEF Read, presence, stream, bounds, MapOK, BoundsOK
  <2>2. \/ Becomes(r, "idle", Owner, 0, 0)
        \/ Becomes(r, "beat", req[r].user, peak, req[r].now)
    BY <1>1, <2>1, EndRequest, ReadRequest DEF Pcs, Beats
  <2>3. PeaksOK'
    BY <1>2, <2>1, <2>2, ZeroFits, PeaksFrame DEF PeaksOK
  <2>4. ViewsOK' /\ UsesOK'
    BY <2>1, <2>2, ViewsFrame, UsesFrame DEF Becomes, Entering
  <2> QED
    BY <2>1, <2>3, <2>4
<1>4. CASE Beat(r)
  <2> DEFINE u == req[r].user
             kept == ~mapped \/ Fresh # {}
  <2>1. PICK n : n = Cardinality(Fresh \cup {u})
    OBVIOUS
  <2>2. PICK pc : pc = IF u # Owner /\ IsNewSession(u) THEN "view" ELSE "peak"
    OBVIOUS
  <2>3. /\ req[r].pc = "beat" /\ UNCHANGED <<views, peak, pings, redeems>> /\ invite' = invite
        /\ req' = [req EXCEPT ![r].now = n, ![r].pc = pc]
        /\ mapped' = kept /\ present' = IF kept THEN Fresh \cup {u} ELSE {}
        /\ stale' = {} /\ counted' = counted \cap Fresh /\ BoundsOK'
    BY <1>4, <2>1, <2>2 DEF Beat, stream, bounds, BoundsOK
  <2>4. u \in Users /\ Fresh \subseteq Users
    BY <2>3 DEF AudienceInv, Typed, ReqOK, Fresh
  <2>5. n \in Nat /\ n <= Cardinality(Users)
    <3>1. Fresh \cup {u} \subseteq Users
      BY <2>4
    <3> QED
      BY <2>1, <3>1, FiniteUsers, FS_Subset
  <2>6. Becomes(r, pc, u, req[r].peak, n)
    BY <1>1, <2>2, <2>3, <2>5, NoteRequest DEF Pcs, Beats
  <2>7. MapOK'
    <3>1. CASE kept
      BY <2>3, <3>1 DEF MapOK
    <3>2. CASE ~kept
      BY <2>3, <3>2 DEF MapOK
    <3> QED
      BY <3>1, <3>2
  <2>8. PeaksOK'
    BY <1>2, <2>3, <2>5, <2>6, PeaksFrame DEF PeaksOK
  <2>9. ViewsOK' /\ UsesOK'
    <3>1. pc \in {"view", "peak"}
      BY <2>2
    <3>2. \A q \in Requests : q = r \/ req'[q] = req[q]
      BY <2>6 DEF Becomes
    <3>3. req'[r].pc \in {"view", "peak"} /\ req[r].pc = "beat"
      BY <2>3, <2>6, <3>1 DEF Becomes
    <3> HIDE DEF u, kept
    <3> QED
      BY <2>3, <3>2, <3>3, ViewsFrame, UsesFrame DEF Entering
  <2> QED
    BY <2>3, <2>7, <2>8, <2>9
<1>5. CASE View(r)
  <2>1. /\ req[r].pc = "view" /\ To(r, "peak") /\ UNCHANGED <<peak, pings, redeems>> /\ invite' = invite
        /\ views' \in {views, views + 1}
        /\ UNCHANGED <<mapped, present, stale, ended, opens>>
        /\ counted' = counted \/ counted' = counted \cup ({req[r].user} \cap present)
        /\ mishaps' = mishaps \/ (mishaps < MaxMishaps /\ mishaps' = mishaps + 1)
    BY <1>5 DEF View
  <2>2. MapOK' /\ BoundsOK'
    BY <2>1 DEF MapOK, BoundsOK
  <2>3. Becomes(r, "peak", req[r].user, req[r].peak, req[r].now)
    BY <1>1, <2>1, MoveRequest DEF Pcs, Beats
  <2>4. PeaksOK'
    BY <1>2, <2>1, <2>3, PeaksFrame DEF PeaksOK
  <2>5. UsesOK'
    BY <2>1, <2>3, UsesFrame DEF Becomes, Entering
  <2>6. ViewsOK'
    <3>1. /\ Viewing \in SUBSET Requests /\ Viewing' \in SUBSET Requests
          /\ r \in Viewing /\ Viewing' \subseteq Viewing \ {r}
      BY <2>1, <2>3 DEF Viewing, Becomes
    <3>2. views' \in Nat /\ views' <= views + 1
      BY <1>1, <2>1
    <3> QED
      BY <1>1, <2>1, <3>1, <3>2, Balance DEF ViewsOK
  <2> QED
    BY <2>2, <2>4, <2>5, <2>6
<1>6. CASE Peak(r)
  <2>1. /\ req[r].pc = "peak" /\ Done(r) /\ UNCHANGED <<views, pings, redeems>> /\ invite' = invite
        /\ peak' \in {peak, req[r].now}
        /\ MapOK' /\ BoundsOK'
    BY <1>6 DEF Peak, presence, MapOK, BoundsOK
  <2>2. Becomes(r, "idle", Owner, 0, 0)
    BY <1>1, <2>1, EndRequest
  <2>3. peak' <= Cardinality(Users)
    BY <1>2, <2>1 DEF PeaksOK
  <2>4. PeaksOK'
    BY <2>2, <2>3, ZeroFits, PeaksFrame
  <2>5. ViewsOK' /\ UsesOK'
    BY <2>1, <2>2, ViewsFrame, UsesFrame DEF Becomes, Entering
  <2> QED
    BY <2>1, <2>4, <2>5
<1> QED
  BY <1>3, <1>4, <1>5, <1>6

\* Leaving, and the invite.
LEMMA LeaveTypes ==
  ASSUME AudienceInv, TypeInv, NEW r \in Requests, Leave(r)
  PROVE  TypeInv'
<1> USE DEF TypeInv
<1>1. ReqOK
  BY DEF AudienceInv, Typed
<1>2. /\ req[r].pc = "leave" /\ Done(r)
      /\ UNCHANGED <<views, peak, pings, redeems>> /\ invite' = invite
      /\ MapOK' /\ BoundsOK'
  BY DEF Leave, Remaining, stream, bounds, MapOK, BoundsOK
<1>3. Becomes(r, "idle", Owner, 0, 0)
  BY <1>1, <1>2, EndRequest
<1>4. PeaksOK'
  BY <1>2, <1>3, ZeroFits, PeaksFrame DEF PeaksOK
<1>5. ViewsOK' /\ UsesOK'
  BY <1>2, <1>3, ViewsFrame, UsesFrame DEF Becomes, Entering
<1> QED
  BY <1>2, <1>4, <1>5

LEMMA RedeemTypes ==
  ASSUME AudienceInv, TypeInv, NEW r \in Requests,
         CheckInvite(r) \/ Grant(r) \/ \E u \in Users : Redeem(r, u)
  PROVE  TypeInv'
<1> USE DEF TypeInv
<1>1. /\ ReqOK /\ invite.uses \in Nat /\ redeems \in Nat
      /\ invite \in [made : BOOLEAN, revoked : BOOLEAN, expired : BOOLEAN, uses : Nat]
  BY DEF AudienceInv, Typed, BoundsOK
<1>2. req[r].peak <= Cardinality(Users) /\ req[r].now <= Cardinality(Users)
  BY DEF PeaksOK
<1>3. CASE CheckInvite(r)
  <2>1. /\ req[r].pc = "redeem" /\ UNCHANGED <<views, peak, pings, redeems>> /\ invite' = invite
        /\ MapOK' /\ BoundsOK'
        /\ To(r, "grant") \/ Done(r)
    BY <1>3 DEF CheckInvite, presence, stream, bounds, MapOK, BoundsOK
  <2>2. \/ Becomes(r, "idle", Owner, 0, 0)
        \/ Becomes(r, "grant", req[r].user, req[r].peak, req[r].now)
    BY <1>1, <2>1, EndRequest, MoveRequest DEF Pcs
  <2>3. PeaksOK'
    BY <1>2, <2>1, <2>2, ZeroFits, PeaksFrame DEF PeaksOK
  <2>4. ViewsOK' /\ UsesOK'
    BY <2>1, <2>2, ViewsFrame, UsesFrame DEF Becomes, Entering
  <2> QED
    BY <2>1, <2>3, <2>4
<1>4. CASE Grant(r)
  <2>1. /\ req[r].pc = "grant" /\ Done(r) /\ UNCHANGED <<views, peak, pings, redeems>>
        /\ invite'.uses = invite.uses + 1
        /\ MapOK' /\ BoundsOK'
    BY <1>1, <1>4 DEF Grant, presence, stream, bounds, MapOK, BoundsOK
  <2>2. Becomes(r, "idle", Owner, 0, 0)
    BY <1>1, <2>1, EndRequest
  <2>3. PeaksOK'
    BY <2>1, <2>2, ZeroFits, PeaksFrame DEF PeaksOK
  <2>4. ViewsOK'
    BY <2>1, <2>2, ViewsFrame DEF Becomes
  <2>5. UsesOK'
    <3>1. /\ Redeeming \in SUBSET Requests /\ Redeeming' \in SUBSET Requests
          /\ r \in Redeeming /\ Redeeming' \subseteq Redeeming \ {r}
      BY <2>1, <2>2 DEF Redeeming, Entering, Becomes
    <3> QED
      BY <1>1, <2>1, <3>1, Balance DEF UsesOK
  <2> QED
    BY <2>1, <2>3, <2>4, <2>5
<1>5. ASSUME NEW u \in Users, Redeem(r, u) PROVE TypeInv'
  <2>1. /\ Start(r, "redeem", u) /\ UNCHANGED <<views, peak, pings>> /\ invite' = invite
        /\ redeems' = redeems + 1 /\ MapOK' /\ BoundsOK'
    BY <1>5 DEF Redeem, presence, stream, MapOK, BoundsOK
  <2>2. Becomes(r, "redeem", u, 0, 0)
    BY <1>1, <2>1, StartRequest DEF Pcs
  <2>3. PeaksOK'
    BY <2>1, <2>2, ZeroFits, PeaksFrame DEF PeaksOK
  <2>4. ViewsOK'
    BY <2>1, <2>2, ViewsFrame DEF Becomes
  <2>5. UsesOK'
    <3>1. /\ Redeeming \in SUBSET Requests /\ Redeeming' \in SUBSET Requests
          /\ Redeeming' \subseteq Redeeming \cup {r}
      BY <2>2 DEF Redeeming, Entering, Becomes
    <3> QED
      BY <1>1, <2>1, <3>1, Balance DEF UsesOK
  <2> QED
    BY <2>1, <2>3, <2>4, <2>5
<1> QED
  BY <1>3, <1>4, <1>5

LEMMA NextTypes == AudienceInv /\ TypeInv /\ [Next]_vars => TypeInv'
<1> SUFFICES ASSUME AudienceInv, TypeInv, [Next]_vars PROVE TypeInv'
  OBVIOUS
<1>1. CASE \E p \in Pages : Open(p) \/ Close(p) \/ \E r \in Requests : Ping(r, p)
  BY <1>1, PageTypes
<1>2. CASE \E r \in Requests : Step(r) \/ \E u \in Users : Redeem(r, u)
  BY <1>2, BeatTypes, LeaveTypes, RedeemTypes DEF Step
<1>3. CASE \E u \in Users : Age(u)
  <2>1. MapOK' /\ BoundsOK' /\ UNCHANGED <<req, views, peak, pings, redeems>> /\ invite' = invite
    BY <1>3 DEF Age, Mishap, stream, TypeInv, MapOK, BoundsOK
  <2> QED
    BY <2>1, TypesStill
<1>4. CASE Look
  <2>1. MapOK' /\ BoundsOK' /\ UNCHANGED <<req, views, peak, pings, redeems>> /\ invite' = invite
    BY <1>4 DEF Look, Prune, Fresh, stream, bounds, TypeInv, MapOK, BoundsOK
  <2> QED
    BY <2>1, TypesStill
<1>5. CASE End \/ CreateInvite \/ RevokeInvite \/ ExpireInvite \/ UNCHANGED vars
  <2>1. MapOK' /\ BoundsOK' /\ UNCHANGED <<req, views, peak, pings, redeems>>
    BY <1>5 DEF End, CreateInvite, RevokeInvite, ExpireInvite, vars, presence, stream, bounds,
                TypeInv, MapOK, BoundsOK
  <2>2. invite'.uses = invite.uses
    BY <1>5 DEF End, CreateInvite, RevokeInvite, ExpireInvite, vars, AudienceInv, Typed
  <2> QED
    BY <2>1, <2>2, TypesStill
<1> QED
  BY <1>1, <1>2, <1>3, <1>4, <1>5 DEF Next

\* The presence map is there whenever somebody is in it; streamHeartbeat counts no more views
\* than heartbeats and no peak above the users there are, redeemInviteCode no more uses than
\* codes, for any number of each.
THEOREM AudienceTypeCorrect == Spec => []TypeOK
<1>1. AudienceInv /\ TypeInv => TypeOK
  <2> SUFFICES ASSUME AudienceInv, TypeInv PROVE TypeOK
    OBVIOUS
  <2>1. Cardinality(Viewing) \in Nat /\ Cardinality(Redeeming) \in Nat /\ Cardinality(Users) \in Nat
    BY FiniteRequests, FiniteUsers DEF Viewing, Redeeming
  <2>2. views \in 0 .. MaxPings
    BY <2>1 DEF AudienceInv, Typed, TypeInv, ViewsOK, BoundsOK
  <2>3. invite.uses \in 0 .. MaxRedeems
    BY <2>1 DEF AudienceInv, Typed, TypeInv, UsesOK, BoundsOK
  <2>4. invite \in [made : BOOLEAN, revoked : BOOLEAN, expired : BOOLEAN, uses : 0 .. MaxRedeems]
    BY <2>3 DEF AudienceInv, Typed
  <2>5. peak \in 0 .. Cardinality(Users)
    BY <2>1 DEF AudienceInv, Typed, TypeInv, PeaksOK
  <2>6. req \in [Requests -> [pc : Pcs, user : Users \cup {Owner},
                              peak : 0 .. Cardinality(Users), now : 0 .. Cardinality(Users)]]
    <3>1. ASSUME NEW r \in Requests
          PROVE  req[r] \in [pc : Pcs, user : Users \cup {Owner},
                             peak : 0 .. Cardinality(Users), now : 0 .. Cardinality(Users)]
      <4>1. req[r] \in Request /\ req[r].peak <= Cardinality(Users) /\ req[r].now <= Cardinality(Users)
        BY DEF AudienceInv, Typed, ReqOK, TypeInv, PeaksOK
      <4> QED
        BY <2>1, <4>1 DEF Request
    <3>2. req = [r \in Requests |-> req[r]]
      BY DEF AudienceInv, Typed, ReqOK
    <3> QED
      BY <3>1, <3>2
  <2> QED
    BY <2>2, <2>4, <2>5, <2>6 DEF TypeOK, Pcs, AudienceInv, Typed, TypeInv, MapOK, BoundsOK
<1>2. AudienceInv /\ TypeInv /\ [Next]_vars => AudienceInv' /\ TypeInv'
  BY NextAudience, NextTypes
<1> QED
  BY <1>1, <1>2, InitAudience, InitTypes, PTL DEF Spec
=============================================================================

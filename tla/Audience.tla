------------------------------ MODULE Audience ------------------------------
(***************************************************************************)
(* The audience of one stream: the presence map of auth-service that watch *)
(* pages keep alive by heartbeats, the views and the peak it writes to the *)
(* Stream row, and the invite that lets viewers into a private stream.     *)
(*                                                                         *)
(* The presence map is only touched synchronously; a request is split      *)
(* where it awaits the database.  A page is a browser tab on /watch.       *)
(***************************************************************************)
EXTENDS Naturals, FiniteSets

CONSTANTS
  Pages, Users,
  UserOf,      \* UserOf[p]: the user signed in on page p
  Owner,       \* the creator of the stream
  Private,     \* Stream.isPrivate
  MaxUses,     \* StreamInvite.maxUses
  Requests,    \* bound: requests in progress at a time
  MaxOpens,    \* bound: page loads
  MaxPings,    \* bound: heartbeats
  MaxRedeems,  \* bound: codes entered
  MaxMishaps   \* bound: late pages, lost leaves and failing updates

ASSUME AudienceAssumption ==
  /\ IsFiniteSet(Users) /\ IsFiniteSet(Requests)
  /\ UserOf \in [Pages -> Users]
  /\ Private \in BOOLEAN
  /\ {MaxUses, MaxOpens, MaxPings, MaxRedeems, MaxMishaps} \subseteq Nat

VARIABLES
  page,     \* page[p]: "open" or "closed"
  mapped,   \* presence.has(streamId)
  present,  \* the users in that map
  stale,    \* those whose lastSeen is more than STALE_MS ago
  counted,  \* those whose entry says counted
  ended,    \* Stream.endedAt
  views, peak, \* Stream.totalViews, Stream.peakViewers
  invite,   \* the StreamInvite row
  access,   \* users with a StreamAccess row
  req,      \* requests in progress
  opens, pings, redeems, mishaps, \* so far
  \* History:
  visits,   \* how often a viewer came to have a page open
  reached,  \* the most users a heartbeat has found in the map
  ghosts,   \* users with a heartbeat on its way when their last leave was taken, or none taken
  astray,   \* an entry was lost while its user was watching
  raced,    \* two heartbeats were at work at once, or the peak was not written
  contested,\* two redemptions were at work at once
  admitted  \* the users with access, or on their way to it, when the invite was revoked

presence == <<mapped, present, stale, counted>>
stream == <<ended, views, peak>>
bounds == <<opens, pings, redeems, mishaps>>
history == <<visits, reached, ghosts, astray, raced, contested, admitted>>
vars == <<page, presence, stream, invite, access, req, bounds, history>>

Beats == {"read", "beat", "view", "peak"}
Idle == [pc |-> "idle", user |-> Owner, peak |-> 0, now |-> 0]

TypeOK ==
  /\ page \in [Pages -> {"open", "closed"}]
  /\ mapped \in BOOLEAN /\ present \subseteq Users
  /\ stale \subseteq present /\ counted \subseteq present
  /\ present # {} => mapped
  /\ ended \in BOOLEAN /\ views \in 0 .. MaxPings /\ peak \in 0 .. Cardinality(Users)
  /\ invite \in [made : BOOLEAN, revoked : BOOLEAN, expired : BOOLEAN, uses : 0 .. MaxRedeems]
  /\ access \subseteq Users
  /\ req \in [Requests -> [pc : Beats \cup {"idle", "leave", "redeem", "grant"}, user : Users \cup {Owner},
                           peak : 0 .. Cardinality(Users), now : 0 .. Cardinality(Users)]]
  /\ opens \in 0 .. MaxOpens /\ pings \in 0 .. MaxPings
  /\ redeems \in 0 .. MaxRedeems /\ mishaps \in 0 .. MaxMishaps

Init ==
  /\ page = [p \in Pages |-> "closed"]
  /\ mapped = FALSE /\ present = {} /\ stale = {} /\ counted = {}
  /\ ended = FALSE /\ views = 0 /\ peak = 0
  /\ invite = [made |-> FALSE, revoked |-> FALSE, expired |-> FALSE, uses |-> 0]
  /\ access = {}
  /\ req = [r \in Requests |-> Idle]
  /\ opens = 0 /\ pings = 0 /\ redeems = 0 /\ mishaps = 0
  /\ visits = 0 /\ reached = 0 /\ ghosts = {} /\ astray = FALSE
  /\ raced = FALSE /\ contested = FALSE /\ admitted = Users

----------------------------------------------------------------------------
Watching(u) == \E p \in Pages : page[p] = "open" /\ UserOf[p] = u
Beating(u) == \E r \in Requests : req[r].pc \in Beats /\ req[r].user = u
Mishap == mishaps < MaxMishaps /\ mishaps' = mishaps + 1 /\ UNCHANGED <<opens, pings, redeems>>

Start(r, pc, u) == req[r] = Idle /\ req' = [req EXCEPT ![r] = [Idle EXCEPT !.pc = pc, !.user = u]]
To(r, pc) == req' = [req EXCEPT ![r].pc = pc]
Done(r) == req' = [req EXCEPT ![r] = Idle]

----------------------------------------------------------------------------
(* The watch page.                                                         *)

Open(p) ==
  /\ page[p] = "closed" /\ opens < MaxOpens
  /\ page' = [page EXCEPT ![p] = "open"]
  /\ opens' = opens + 1
  /\ visits' = IF Watching(UserOf[p]) \/ UserOf[p] = Owner THEN visits ELSE visits + 1
  /\ UNCHANGED <<presence, stream, invite, access, req, pings, redeems, mishaps,
                 reached, ghosts, astray, raced, contested, admitted>>

\* Every ten seconds.
Ping(r, p) ==
  /\ page[p] = "open" /\ pings < MaxPings
  /\ Start(r, "read", UserOf[p])
  /\ pings' = pings + 1
  /\ raced' = (raced \/ \E q \in Requests : req[q].pc \in Beats)
  /\ UNCHANGED <<page, presence, stream, invite, access, opens, redeems, mishaps,
                 visits, reached, ghosts, astray, contested, admitted>>

\* The page is left or hidden; its keepalive request may get lost.
Close(p) ==
  /\ page[p] = "open"
  /\ page' = [page EXCEPT ![p] = "closed"]
  /\ \/ /\ \E r \in Requests : Start(r, "leave", UserOf[p])
        /\ UNCHANGED <<mishaps, ghosts>>
     \/ /\ mishaps < MaxMishaps /\ mishaps' = mishaps + 1
        /\ ghosts' = ghosts \cup {UserOf[p]}
        /\ UNCHANGED req
  /\ UNCHANGED <<presence, stream, invite, access, opens, pings, redeems,
                 visits, reached, astray, raced, contested, admitted>>

----------------------------------------------------------------------------
(* viewerPresence.                                                         *)

\* A heartbeat is more than STALE_MS ago: its page is gone, throttled or offline.
Age(u) ==
  /\ u \in present \ stale
  /\ Mishap
  /\ stale' = stale \cup {u}
  /\ astray' = (astray \/ Watching(u) \/ Beating(u))
  /\ UNCHANGED <<page, mapped, present, counted, stream, invite, access, req,
                 visits, reached, ghosts, raced, contested, admitted>>

Fresh == present \ stale

\* pruneStream: a stream without a map gets an empty one; a map that is empty, be it
\* pruned so, is taken out.
Prune ==
  /\ mapped' = (~mapped \/ Fresh # {})
  /\ present' = Fresh
  /\ stale' = {}
  /\ counted' = counted \cap Fresh

\* getCurrentViewers: for the polling watch page, the lists and the studio.
Look ==
  /\ Prune
  /\ UNCHANGED <<page, stream, invite, access, req, bounds, history>>

\* heartbeat: it writes to the map pruneStream returns, which may have been taken out.
\* Mutant of IsNewSession: whoever has not been counted.
NotCounted(u) == u \notin counted \cap Fresh
IsNewSession(u) == u \notin Fresh
Beat(r) ==
  LET u == req[r].user
      now == Cardinality(Fresh \cup {u})
      kept == ~mapped \/ Fresh # {}
  IN /\ req[r].pc = "beat"
     /\ mapped' = kept
     /\ present' = IF kept THEN Fresh \cup {u} ELSE {}
     /\ stale' = {}
     /\ counted' = counted \cap Fresh
     /\ req' = [req EXCEPT ![r].now = now,
                  ![r].pc = IF u # Owner /\ IsNewSession(u) THEN "view" ELSE "peak"]
     /\ reached' = IF now > reached THEN now ELSE reached
     /\ astray' = (astray \/ ~kept)
     /\ UNCHANGED <<page, stream, invite, access, bounds, visits, ghosts, raced, contested, admitted>>

\* leave: of the user, whatever other pages the user has.
\* Mutant of Remaining: the entry stays until it is stale.
UntilStale(u) == present
Remaining(u) == present \ {u}
Leave(r) ==
  LET u == req[r].user IN
  /\ req[r].pc = "leave"
  /\ present' = Remaining(u)
  /\ stale' = stale \cap Remaining(u) /\ counted' = counted \cap Remaining(u)
  /\ mapped' = (mapped /\ Remaining(u) # {})
  /\ Done(r)
  /\ ghosts' = IF Beating(u) THEN ghosts \cup {u} ELSE ghosts \ {u}
  /\ astray' = (astray \/ Watching(u) \/ Beating(u))
  /\ UNCHANGED <<page, stream, invite, access, bounds, visits, reached, raced, contested, admitted>>

----------------------------------------------------------------------------
(* streamHeartbeat, around the above.                                      *)

\* canViewStream.  (Its query and the stream's are one step: access is never taken back.)
MayView(u) == u = Owner \/ ~Private \/ u \in access
Read(r) ==
  /\ req[r].pc = "read"
  /\ IF MayView(req[r].user) /\ ~ended
       THEN req' = [req EXCEPT ![r].pc = "beat", ![r].peak = peak]
       ELSE Done(r)
  /\ UNCHANGED <<page, presence, stream, invite, access, bounds, history>>

\* The view is counted, and marked if the user is in the map; a failure is ignored.
View(r) ==
  /\ req[r].pc = "view"
  /\ To(r, "peak")
  /\ \/ /\ views' = views + 1
        /\ counted' = counted \cup ({req[r].user} \cap present)
        /\ UNCHANGED mishaps
     \/ /\ mishaps < MaxMishaps /\ mishaps' = mishaps + 1
        /\ UNCHANGED <<views, counted>>
  /\ UNCHANGED <<page, mapped, present, stale, ended, peak, invite, access, opens, pings, redeems,
                 history>>

\* The peak is compared with what was read at first.
IsPeak(r) == req[r].now > req[r].peak
Peak(r) ==
  /\ req[r].pc = "peak"
  /\ Done(r)
  /\ \/ /\ peak' = IF IsPeak(r) THEN req[r].now ELSE peak
        /\ UNCHANGED <<mishaps, raced>>
     \/ /\ IsPeak(r) /\ mishaps < MaxMishaps /\ mishaps' = mishaps + 1
        /\ raced' = TRUE
        /\ UNCHANGED peak
  /\ UNCHANGED <<page, presence, ended, views, invite, access, opens, pings, redeems,
                 visits, reached, ghosts, astray, contested, admitted>>

End ==
  /\ ~ended /\ ended' = TRUE
  /\ UNCHANGED <<page, presence, views, peak, invite, access, req, bounds, history>>

----------------------------------------------------------------------------
(* The invite of the stream.                                               *)

CreateInvite ==
  /\ ~invite.made
  /\ invite' = [invite EXCEPT !.made = TRUE]
  /\ UNCHANGED <<page, presence, stream, access, req, bounds, history>>

RevokeInvite ==
  /\ invite.made /\ ~invite.revoked
  /\ invite' = [invite EXCEPT !.revoked = TRUE]
  /\ admitted' = access \cup {req[r].user : r \in {q \in Requests : req[q].pc = "grant"}}
  /\ UNCHANGED <<page, presence, stream, access, req, bounds,
                 visits, reached, ghosts, astray, raced, contested>>

ExpireInvite ==
  /\ invite.made /\ ~invite.expired
  /\ invite' = [invite EXCEPT !.expired = TRUE]
  /\ UNCHANGED <<page, presence, stream, access, req, bounds, history>>

\* The library page sends a code; the owner may, too.
Redeem(r, u) ==
  /\ invite.made /\ redeems < MaxRedeems
  /\ Start(r, "redeem", u)
  /\ redeems' = redeems + 1
  /\ contested' = (contested \/ \E q \in Requests : req[q].pc \in {"redeem", "grant"})
  /\ UNCHANGED <<page, presence, stream, invite, access, opens, pings, mishaps,
                 visits, reached, ghosts, astray, raced, admitted>>

\* redeemInviteCode up to its transaction: the invite must be in force; whoever has
\* access already does not use it.
\* Mutant of InForce: the uses are not looked at.
AnyNumber == ~invite.revoked /\ ~invite.expired
InForce == ~invite.revoked /\ ~invite.expired /\ invite.uses < MaxUses
CheckInvite(r) ==
  /\ req[r].pc = "redeem"
  /\ IF InForce /\ req[r].user \notin access THEN To(r, "grant") ELSE Done(r)
  /\ UNCHANGED <<page, presence, stream, invite, access, bounds, history>>

\* The transaction.
Grant(r) ==
  /\ req[r].pc = "grant"
  /\ access' = access \cup {req[r].user}
  /\ invite' = [invite EXCEPT !.uses = @ + 1]
  /\ Done(r)
  /\ UNCHANGED <<page, presence, stream, bounds, history>>

----------------------------------------------------------------------------
Step(r) ==
  \/ Read(r) \/ Beat(r) \/ View(r) \/ Peak(r) \/ Leave(r) \/ CheckInvite(r) \/ Grant(r)
Next ==
  \/ \E p \in Pages : Open(p) \/ Close(p) \/ \E r \in Requests : Ping(r, p)
  \/ \E r \in Requests : Step(r) \/ \E u \in Users : Redeem(r, u)
  \/ \E u \in Users : Age(u)
  \/ Look \/ End \/ CreateInvite \/ RevokeInvite \/ ExpireInvite

Spec == Init /\ [][Next]_vars

----------------------------------------------------------------------------
(* Properties.                                                             *)

AtRest == \A r \in Requests : req[r] = Idle

\* When no request is at work, whoever is counted as a current viewer has the stream open
\* in a tab: unless the leave of the last tab was lost or overtaken by a heartbeat, which
\* holds until the entry is stale.
PresentAreWatching == AtRest => \A u \in Fresh : Watching(u) \/ u \in ghosts

\* A visit is one view, whatever the number of tabs and the order in which their first
\* heartbeats are answered, if the user's entry is not lost meanwhile.
VisitsCountOnce == ~astray => views <= visits

\* The peak is the most users any heartbeat has found, if heartbeats came one by one.
PeakIsReached == AtRest /\ ~raced => peak = reached

\* The two numbers a stream keeps of its audience, views and peak.
CountsAgree == VisitsCountOnce /\ PeakIsReached

\* An invite admits no more than maxUses and counts everyone it admits, unless two codes
\* are redeemed at once; revoked, it admits nobody whose code was not checked before.
InviteHolds ==
  /\ Cardinality(access) <= invite.uses
  /\ ~contested => invite.uses <= MaxUses /\ invite.uses = Cardinality(access)
  /\ invite.revoked => access \subseteq admitted
=============================================================================

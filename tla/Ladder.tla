------------------------------- MODULE Ladder -------------------------------
(***************************************************************************)
(* One broadcast's quality ladder, through all services: chosen in the     *)
(* studio's wizard, checked against the plan by createStream, clamped to   *)
(* the plan of the moment by validateStreamKey, cached by rtmp-ingest,     *)
(* encoded and written by the transcoder and hls-packager, offered by the  *)
(* watch page and the studio, and played (HlsPlayer).                      *)
(*                                                                         *)
(* What changes the plan is in Billing, the life of stream keys and        *)
(* broadcasts in StreamSession, the clips of a rung in Playlist.           *)
(***************************************************************************)
EXTENDS HlsPlayer

CONSTANTS
  Top,          \* rungs are 1 .. Top: 360p, 480p, 720p, 1080p, 2k in the code
  FreeTop,      \* the highest rung of FREE, 720p in the code
  StudioTop,    \* the highest rung the studio offers when it was told of none, 1080p
  MaxKeys       \* bound: stream keys of the broadcast, the first of which comes with the stream

ASSUME LadderAssumption ==
  /\ {Top, FreeTop, StudioTop} \subseteq Nat /\ 2 <= FreeTop /\ FreeTop <= StudioTop /\ StudioTop <= Top
  /\ MaxKeys \in Nat \ {0}

VARIABLES
  plan,      \* User.plan
  offered,   \* entitlements.allowedQualities of the wizard, {} until they are there
  chosen,    \* selectedQualities of the wizard
  qualities, \* Stream.qualities, {} when the row was made without
  keys,      \* keys issued to the stream so far; key k is the k-th, 0 when there is no stream
  valid,     \* keys that are not revoked
  cache,     \* cache[k]: validationCache of rtmp-ingest
  onAir,     \* the broadcast: [key, rungs, plan]
  \* History:
  moved,     \* the plan has changed since the wizard read it, or since the stream was created
  refused    \* the wizard's last submit was refused

wizard == <<offered, chosen, refused>>
stream == <<qualities, keys, valid>>
ladderVars == <<plan, wizard, stream, cache, onAir, moved>>
vars == <<written, playerVars, ladderVars>>

Plans == {"FREE", "PRO"}
Keys == 1 .. MaxKeys
PlanMaxQuality(p) == IF p = "FREE" THEN FreeTop ELSE Top
Allowed(p) == 1 .. PlanMaxQuality(p)
\* The two highest rungs (slice(0, 2) of a list that is sorted from high to low).
TopTwo(rungs) == {q \in rungs : Cardinality({r \in rungs : r > q}) < 2}
Unknown == [rungs |-> {}, plan |-> "FREE"]
OffAir == [key |-> 0, rungs |-> {}, plan |-> "FREE"]

TypeOK ==
  /\ PlayerTypeOK
  /\ plan \in Plans
  /\ offered \subseteq 1 .. Top /\ chosen \subseteq 1 .. Top /\ qualities \subseteq 1 .. Top
  /\ keys \in 0 .. MaxKeys /\ valid \subseteq 1 .. keys
  /\ cache \in [Keys -> [rungs : SUBSET (1 .. Top), plan : Plans]]
  /\ onAir \in [key : 0 .. MaxKeys, rungs : SUBSET (1 .. Top), plan : Plans]
  /\ moved \in BOOLEAN /\ refused \in BOOLEAN

Init ==
  /\ PlayerInit
  /\ plan \in Plans
  /\ offered = {} /\ chosen = TopTwo(1 .. FreeTop) /\ refused = FALSE
  /\ qualities = {} /\ keys = 0 /\ valid = {}
  /\ cache = [k \in Keys |-> Unknown]
  /\ onAir = OffAir
  /\ moved = FALSE

----------------------------------------------------------------------------
\* A payment, a cancellation, ... : see Billing.
ChangePlan ==
  /\ Turn
  /\ plan' \in Plans \ {plan}
  /\ moved' = TRUE
  /\ UNCHANGED <<written, playerState, wizard, stream, cache, onAir>>

(* The wizard.                                                             *)

\* getEntitlements is answered, or fails.
Entitlements ==
  /\ keys = 0 /\ offered = {}
  /\ LET kept == chosen \cap Allowed(plan) IN
       \/ /\ offered' = Allowed(plan)
          /\ chosen' = IF kept # {} THEN kept ELSE TopTwo(Allowed(plan))
          /\ moved' = FALSE
       \/ offered' = 1 .. FreeTop /\ UNCHANGED <<chosen, moved>>
  /\ UNCHANGED <<written, playerVars, plan, stream, cache, onAir, refused>>

\* toggleQuality: a rung above the plan, and the last rung, stay as they are.
Offered == IF offered = {} THEN 1 .. FreeTop ELSE offered
Toggled(q) ==
  IF q \notin Offered \/ chosen = {q} THEN chosen
  ELSE IF q \in chosen THEN chosen \ {q} ELSE chosen \cup {q}

\* The buttons, which look unlocked until the entitlements are there.
Toggle(q) ==
  /\ keys = 0 /\ Toggled(q) # chosen
  /\ chosen' = Toggled(q)
  /\ UNCHANGED <<written, playerVars, plan, offered, refused, stream, cache, onAir,
                 moved>>

\* validate, of what is about the ladder; the button is disabled too.
Complete == chosen # {}

\* The stream is there, and its first key; the wizard is left.
Created(picked) ==
  /\ qualities' = picked /\ keys' = 1 /\ valid' = {1}
  /\ offered' = {} /\ chosen' = {} /\ refused' = FALSE
  /\ moved' = FALSE

\* parseStreamQualities of createStream refuses a rung above the plan.
Accepted == chosen \subseteq Allowed(plan)

\* handleSubmit and createStream.
Submit ==
  /\ keys = 0 /\ Complete
  /\ IF Accepted
       THEN Created(chosen)
       ELSE refused' = TRUE /\ UNCHANGED <<offered, chosen, stream, moved>>
  /\ UNCHANGED <<written, playerVars, plan, cache, onAir>>

(* Stream keys.                                                            *)

\* getStreamKeys of a user without keys makes a stream without qualities.
Bootstrap ==
  /\ keys = 0
  /\ Created({})
  /\ UNCHANGED <<written, playerVars, plan, cache, onAir>>

\* createStreamKey, for which FREE has no room, and the two ways to rotate.
NewKey ==
  /\ keys \in 1 .. MaxKeys - 1 /\ Turn
  /\ keys' = keys + 1
  /\ \/ plan # "FREE" /\ valid' = valid \cup {keys'}
     \/ valid' = {keys'}
  /\ UNCHANGED <<written, playerState, plan, wizard, qualities, cache, onAir, moved>>

\* revokeStreamKey.
RevokeKey(k) ==
  /\ k \in valid /\ Cardinality(valid) > 1 /\ Turn
  /\ valid' = valid \ {k}
  /\ UNCHANGED <<written, playerState, plan, wizard, qualities, keys, cache, onAir,
                 moved>>

(* The broadcast.                                                          *)

\* validateStreamKey: the ladder that is encoded.
\* Mutant of Clamped: it is cut to two rungs.
Shortened == TopTwo((IF qualities # {} THEN qualities ELSE Allowed(plan)) \cap Allowed(plan))
Clamped ==
  LET raw == IF qualities # {} THEN qualities ELSE Allowed(plan)
      safe == raw \cap Allowed(plan)
  IN IF safe # {} THEN safe ELSE TopTwo(Allowed(plan))

\* resolveProfiles of the transcoder: 720p and 480p if it is told of none.
Profiles(rungs) == IF rungs # {} THEN rungs ELSE TopTwo(1 .. FreeTop)

\* onPublish: the cache or auth-service; then the transcoder starts.
Publish(k) ==
  /\ onAir = OffAir
  /\ Turn
  /\ LET validated == IF cache[k] # Unknown THEN cache[k] ELSE [rungs |-> Clamped, plan |-> plan] IN
       /\ cache[k] # Unknown \/ k \in valid
       /\ cache' = [cache EXCEPT ![k] = validated]
       /\ onAir' = [key |-> k, rungs |-> Profiles(validated.rungs), plan |-> validated.plan]
  /\ UNCHANGED <<written, playerState, plan, wizard, stream, moved>>

\* OBS disconnects.
Disconnect ==
  /\ onAir # OffAir
  /\ onAir' = OffAir
  /\ UNCHANGED <<written, playerVars, plan, wizard, stream, cache, moved>>

\* 30 s after the validation (as long as it may matter).
CacheExpires(k) ==
  /\ cache[k] # Unknown /\ turns < MaxTurns
  /\ cache' = [cache EXCEPT ![k] = Unknown]
  /\ UNCHANGED <<written, playerVars, plan, wizard, stream, onAir, moved>>

\* The master playlist, which names every profile, is stored.
PackageMaster ==
  /\ onAir # OffAir
  /\ <<onAir.key, AutoRung>> \notin written
  /\ written' = written \cup {<<onAir.key, AutoRung>>}
  /\ UNCHANGED <<playerVars, ladderVars>>

\* FFmpeg encodes every profile; hls-packager has the first clip of one.
Package(q) ==
  /\ q \in onAir.rungs
  /\ <<onAir.key, q>> \notin written
  /\ written' = written \cup {<<onAir.key, q>>}
  /\ UNCHANGED <<playerVars, ladderVars>>

(* The pages.                                                              *)

\* The ladder as buildPlayback and the studio offer it, at the URLs of the newest key.
ViewerMenu == IF qualities # {} THEN qualities ELSE 1 .. FreeTop
StudioMenu == IF qualities # {} THEN qualities ELSE 1 .. StudioTop
Newest == CHOOSE k \in valid : \A l \in valid : l <= k
Answer == [key |-> Newest, live |-> onAir # OffAir, menu |-> IF studio THEN StudioMenu ELSE ViewerMenu]

Visit == keys > 0 /\ Mount(Answer) /\ UNCHANGED <<written, ladderVars>>
Poll == keys > 0 /\ Told(Answer) /\ UNCHANGED <<written, ladderVars>>

----------------------------------------------------------------------------
Next ==
  \/ ChangePlan \/ Entitlements \/ Submit \/ Bootstrap \/ NewKey \/ Disconnect \/ Visit \/ Poll
  \/ PackageMaster \/ \E q \in 1 .. Top : Toggle(q) \/ Package(q)
  \/ \E k \in Keys : RevokeKey(k) \/ Publish(k) \/ CacheExpires(k)
  \/ PlayerNext /\ UNCHANGED ladderVars

Spec == Init /\ [][Next]_vars /\ PlayerFairness

----------------------------------------------------------------------------
(* Properties.                                                             *)

\* What one part offers another accepts, unless the plan has changed since: createStream the
\* ladder of the wizard, and the transcoder encodes every rung that viewers are offered, also
\* for a stream that was created without a ladder.  What is encoded was allowed by the plan
\* when the key was validated, whatever it was when the ladder was chosen.
OfferedIsEncoded ==
  /\ onAir # OffAir => onAir.rungs # {} /\ onAir.rungs \subseteq Allowed(onAir.plan)
  /\ ~moved =>
       /\ ~refused
       /\ onAir # OffAir /\ open /\ ~studio => page.menu \subseteq onAir.rungs
=============================================================================

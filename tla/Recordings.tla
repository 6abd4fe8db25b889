----------------------------- MODULE Recordings -----------------------------
(***************************************************************************)
(* Deleting the recording of an ended broadcast: deleteMyVod, the clean-up *)
(* of its objects in the store, and what happens meanwhile: the encoder    *)
(* and hls-packager of the broadcast still upload its last clips, the      *)
(* creator uploads a thumbnail, another tab deletes as well, the store     *)
(* fails in part, auth-service restarts.                                   *)
(*                                                                         *)
(* The store is external: MinIO.  An object is a prefix and a number; a    *)
(* prefix is a stream key's tree live/<key>/ or Thumbs, the stream's       *)
(* thumbnails.                                                             *)
(***************************************************************************)
EXTENDS Naturals, FiniteSets

CONSTANTS
  BroadcastKeys, \* stream keys the broadcast was sent with
  Latest,        \* the newest of them, which finalizeStream took for Vod.playlistUrl
  Thumbs,        \* thumbnails/<streamId>/
  Calls,         \* bound: delete requests at a time
  MaxClips,      \* bound: clips of a key
  MaxThumbs,     \* bound: thumbnails
  MaxFaults      \* bound: failures of the store, and restarts

ASSUME RecordingsAssumption ==
  /\ Latest \in BroadcastKeys /\ Thumbs \notin BroadcastKeys /\ IsFiniteSet(BroadcastKeys)
  /\ {MaxClips, MaxThumbs, MaxFaults} \subseteq Nat

VARIABLES
  files,     \* what is in the store
  late,      \* clips of the broadcast that are not uploaded yet
  vod,       \* the Vod row exists
  thumbnail, \* Stream.thumbnailUrl: the number of a thumbnail, 0 for none
  sent,      \* a thumbnail that is uploaded and not yet in the row, 0 for none
  call,      \* call[c]: a delete request
  tab,       \* what each request's tab shows: the recording is listed
  faults,
  \* History:
  clips,     \* clips uploaded so far
  touched,   \* the store changed under a request, failed, or a restart cut one off
  failed     \* a request was cut off between the files and the row

store == <<files, late, clips>>
thumbs == <<thumbnail, sent>>
recordingsVars == <<store, vod, thumbs, call, tab, faults, touched, failed>>

Prefixes == BroadcastKeys \cup {Thumbs}
ClipsOf(keys) == keys \X (1 .. MaxClips)
Idle == [at |-> "idle", todo |-> {}, names |-> {}, removed |-> 0, errors |-> 0]

RecordingsTypeOK ==
  /\ files \subseteq Prefixes \X (1 .. MaxClips + MaxThumbs)
  /\ late \subseteq ClipsOf(BroadcastKeys) /\ clips \subseteq ClipsOf(BroadcastKeys)
  /\ thumbnail \in 0 .. MaxThumbs /\ sent \in 0 .. MaxThumbs
  /\ {vod, touched, failed} \subseteq BOOLEAN /\ tab \in [Calls -> BOOLEAN]
  /\ \A c \in Calls : call[c].todo \subseteq Prefixes /\ call[c].names \subseteq Prefixes \X (1 .. MaxClips + MaxThumbs)
  /\ faults \in 0 .. MaxFaults

\* The broadcast has just been ended; some of its clips may be on their way.
RecordingsInit ==
  /\ late \in SUBSET ClipsOf(BroadcastKeys)
  /\ clips = ClipsOf(BroadcastKeys) \ late
  /\ thumbnail \in {0, 1} \cap (0 .. MaxThumbs) /\ sent = 0
  /\ files = clips \cup {<<Thumbs, n>> : n \in {thumbnail} \ {0}}
  /\ vod = TRUE
  /\ call = [c \in Calls |-> Idle] /\ tab = [c \in Calls |-> TRUE]
  /\ faults = 0 /\ touched = FALSE /\ failed = FALSE

----------------------------------------------------------------------------
Busy == {c \in Calls : call[c] # Idle}
Fault == faults < MaxFaults /\ faults' = faults + 1

\* hls-packager puts a clip.
Upload(o) ==
  /\ o \in late
  /\ late' = late \ {o} /\ files' = files \cup {o} /\ clips' = clips \cup {o}
  /\ touched' = (touched \/ Busy # {} \/ ~vod)
  /\ UNCHANGED <<vod, thumbs, call, tab, faults, failed>>

\* uploadStreamThumbnailHandler: the object, then the row.
SendThumbnail ==
  /\ sent = 0
  /\ \E n \in 1 .. MaxThumbs :
       /\ n = thumbnail + 1
       /\ sent' = n /\ files' = files \cup {<<Thumbs, n>>}
  /\ touched' = (touched \/ Busy # {} \/ ~vod)
  /\ UNCHANGED <<late, clips, vod, thumbnail, call, tab, faults, failed>>

SaveThumbnail ==
  /\ sent # 0
  /\ thumbnail' = sent /\ sent' = 0
  /\ UNCHANGED <<store, vod, call, tab, faults, touched, failed>>

----------------------------------------------------------------------------
(* deleteMyVod.                                                            *)

\* The prefixes: of the playlist, of every key of the stream, of its thumbnails.
\* Mutant of Cleaned: only what playlistUrl names.
OnlyPlaylist == {Latest, Thumbs}
Cleaned == {Latest} \cup BroadcastKeys \cup {Thumbs}

\* The row is found, and the bucket is there or not.
Ask(c) ==
  /\ call[c] = Idle /\ tab[c] /\ vod
  /\ \/ call' = [call EXCEPT ![c] = [Idle EXCEPT !.at = "list", !.todo = Cleaned]] /\ UNCHANGED faults
     \/ Fault /\ call' = [call EXCEPT ![c] = [Idle EXCEPT !.at = "row", !.errors = 1]]
  /\ UNCHANGED <<store, vod, thumbs, tab, touched, failed>>

\* The row is gone: 404.
NotFound(c) ==
  /\ call[c] = Idle /\ tab[c] /\ ~vod
  /\ tab' = [tab EXCEPT ![c] = FALSE]
  /\ UNCHANGED <<store, vod, thumbs, call, faults, touched, failed>>

\* listObjectNames, or it throws.
List(c, p) ==
  LET r == call[c] IN
  /\ r.at = "list" /\ p \in r.todo
  /\ \/ /\ call' = [call EXCEPT ![c] = [r EXCEPT !.at = "remove", !.todo = @ \ {p},
                                                 !.names = {o \in files : o[1] = p}]]
        /\ UNCHANGED <<faults, touched>>
     \/ /\ Fault
        /\ call' = [call EXCEPT ![c] = [r EXCEPT !.todo = @ \ {p}, !.errors = 1]]
        /\ touched' = TRUE
  /\ UNCHANGED <<store, vod, thumbs, tab, failed>>

\* removeObjectNames: objects that cannot be removed are passed over.  (A name that another
\* request has removed counts as removed.)
Remove(c) ==
  LET r == call[c] IN
  /\ r.at = "remove"
  /\ \E kept \in SUBSET r.names :
       /\ IF kept = {} THEN UNCHANGED <<faults, touched>> ELSE Fault /\ touched' = TRUE
       /\ files' = files \ (r.names \ kept)
       /\ call' = [call EXCEPT ![c] = [r EXCEPT !.at = "list", !.names = {},
                                                !.removed = IF r.names = kept THEN @ ELSE 1]]
  /\ UNCHANGED <<late, clips, vod, thumbs, tab, failed>>

\* All prefixes are done.
NamesListed(c) ==
  /\ call[c].at = "list" /\ call[c].todo = {}
  /\ call' = [call EXCEPT ![c].at = "row"]
  /\ UNCHANGED <<store, vod, thumbs, tab, faults, touched, failed>>

\* The hard failure (502), which keeps the row.
\* Mutant of Hopeless: any error keeps it.
AnyError(r) == r.errors # 0
Hopeless(r) == r.errors # 0 /\ r.removed = 0
Refuse(c) ==
  /\ call[c].at = "row" /\ Hopeless(call[c])
  /\ call' = [call EXCEPT ![c] = Idle]
  /\ UNCHANGED <<store, vod, thumbs, tab, faults, touched, failed>>

\* The row is deleted, and the tab's list is; a row that is gone makes a 500.
Delete(c) ==
  /\ call[c].at = "row" /\ ~Hopeless(call[c])
  /\ vod' = FALSE
  /\ tab' = [tab EXCEPT ![c] = ~vod]
  /\ call' = [call EXCEPT ![c] = Idle]
  /\ UNCHANGED <<store, thumbs, faults, touched, failed>>

\* The database fails, or auth-service restarts.
CutOff(c) ==
  /\ call[c] # Idle
  /\ Fault /\ touched' = TRUE
  /\ call' = [call EXCEPT ![c] = Idle]
  /\ failed' = TRUE
  /\ UNCHANGED <<store, vod, thumbs, tab>>

----------------------------------------------------------------------------
Request(c) ==
  Ask(c) \/ NotFound(c) \/ Remove(c) \/ NamesListed(c) \/ Refuse(c) \/ Delete(c) \/ CutOff(c)
RecordingsNext ==
  \/ \E o \in late : Upload(o)
  \/ SendThumbnail \/ SaveThumbnail
  \/ \E c \in Calls : Request(c) \/ \E p \in Prefixes : List(c, p)

RecordingsSpec == RecordingsInit /\ [][RecordingsNext]_recordingsVars

----------------------------------------------------------------------------
(* Properties.                                                             *)

\* Once a recording is deleted, nothing is left of it under any key it was sent with: unless
\* the store failed or was written to meanwhile.
DeletedIsGone == ~vod /\ Busy = {} /\ ~touched => files = {}

\* A recording that is still listed when no request is under way has all its files, however
\* many deletes have failed: unless one was cut off between the files and the row.
ListedIsIntact == vod /\ Busy = {} /\ ~failed => clips \subseteq files
=============================================================================

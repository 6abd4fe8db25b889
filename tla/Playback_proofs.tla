--------------------------- MODULE Playback_proofs ---------------------------
(***************************************************************************)
(* Proofs about what there is to play, from the playlist to the library,   *)
(* for any number of sessions, segments, failures, crashes, keys, tabs and *)
(* events, and any ladder.                                                 *)
(*                                                                         *)
(* Playlist.  ListInv, SealInv: what is listed is in the bucket because    *)
(* every list on its way there has only names of it: the list hls-packager *)
(* has filtered, and the one a finalize pass has read.  Nothing is taken   *)
(* out of the bucket.  A sealed playlist stays final because what          *)
(* hls-packager has merged since is final too.  OrderInv: the events are   *)
(* in the order of their sessions, so a session that counts the segments   *)
(* when no event is left has its numbers to itself.  KnownInv: the         *)
(* playlist of FFmpeg has all clips of its session, so hls-packager lists  *)
(* again what a finalize pass had overwritten.  StitchInv: as long as      *)
(* nothing was lost the playlist only grows, and the first clip of a       *)
(* session asks for its discontinuity before it is listed.                 *)
(*                                                                         *)
(* Ladder.  A player has one instance of hls.js, which plays what is       *)
(* selected; what is encoded was allowed and is what viewers are offered.  *)
(*                                                                         *)
(* Recordings.  A deleted recording leaves nothing behind, and one that is *)
(* still listed has lost nothing.                                          *)
(*                                                                         *)
(* Each part ends with the types of its variables.                         *)
(***************************************************************************)
EXTENDS Playlist, Ladder, Recordings, FiniteSetTheorems, SequenceTheorems, WellFoundedInduction, TLAPS

----------------------------------------------------------------------------
(* The playlist.                                                           *)

\* A playlist whose segments may not be in the bucket, or in Segs.
Playlistlike(p) ==
  p = [segs |-> p.segs, disc |-> p.disc, end |-> p.end] /\ p.end \in BOOLEAN
InBucket(p) == p \in Playlists /\ p.segs \subseteq Present /\ p.disc \subseteq Present

\* Every event is of a session.
EventsOK == \E S : topic \in Seq(S) /\ \A e \in S : e.session \in Sessions

StoredOK == stored # None => InBucket(stored)
HeldOK == held = [s \in Sessions |-> held[s]] /\ \A s \in Sessions : InBucket(held[s])
PackagerOK ==
  /\ packager.pc # "idle" => topic # <<>>
  /\ packager.pc = "list" => Playlistlike(packager.list)
  /\ packager.pc = "put" => InBucket(packager.list)
ObjectsOK == objects \in [Segs -> Nat]

\* The inductive invariant of ListedExists, and that of SealedStaysFinal.
ListInv == EventsOK /\ StoredOK /\ HeldOK /\ PackagerOK /\ ObjectsOK
SealInv ==
  sealed => /\ stored # None /\ stored.end
            /\ packager.pc \in {"list", "put"} => packager.list.end

\* The events of topic, the names the bucket has for a player, and how far a worker is.
Events == [session : Sessions, seg : Nat, disc : BOOLEAN]
Listed == OrEmpty(stored).segs
Unstarted == {"off", "list", "seed"}
Past == {"done", "delayed", "over"}

\* Sessions come one after the other, and so do their segments and events.
Typed ==
  /\ phase \in [Sessions -> Phases]
  /\ start \in [Sessions -> Nat] /\ made \in [Sessions -> Nat] /\ seen \in [Sessions -> Nat]
  /\ topic \in Seq(Events)
  /\ objects \in [Segs -> Sessions \cup {0}]
SessionsOK ==
  /\ \A s \in Sessions : phase[s] \in Unstarted => made[s] = 0
  /\ \A s \in Sessions : phase[s] \in {"off", "list"} => start[s] = 0
  /\ \A s \in Sessions : seen[s] <= made[s]
  /\ \A s \in Sessions : made[s] # 0 => start[s] + made[s] <= MaxSegments
  /\ \A s, t \in Sessions : t < s /\ phase[s] # "off" => phase[t] \in Past
  /\ \A s \in Sessions : phase[s] \in {"finalize", "delayed"} => stored # None
EventOK(e) ==
  /\ start[e.session] <= e.seg /\ e.seg < start[e.session] + seen[e.session]
  /\ e.disc <=> start[e.session] > 0 /\ e.seg = start[e.session]
TopicOK ==
  /\ \A i \in 1 .. Len(topic) : EventOK(topic[i])
  /\ \A i, j \in 1 .. Len(topic) : i < j =>
       \/ topic[i].session < topic[j].session
       \/ topic[i].session = topic[j].session /\ topic[i].seg < topic[j].seg
ClipsOK ==
  /\ \A n \in Present : /\ start[objects[n]] <= n
                        /\ n < start[objects[n]] + seen[objects[n]]
  /\ \A n \in Present, i \in 1 .. Len(topic) : objects[n] <= topic[i].session
  /\ packager.pc # "idle" => objects[Event.seg] = Event.session

\* A session that counted the segments has its numbers to itself.
CountOK ==
  \A s \in Sessions \ blind : phase[s] \notin {"off", "list"} =>
    /\ \A i \in 1 .. Len(topic) : s <= topic[i].session
    /\ \A n \in Present : objects[n] < s => n < start[s]

OrderInv == Typed /\ SessionsOK /\ TopicOK /\ ClipsOK /\ CountOK

\* FFmpeg's playlist has all its segments, and so has the list hls-packager makes of it.
LocalOK ==
  /\ local = [s \in Sessions |-> local[s]] /\ \A s \in Sessions : Playlistlike(local[s])
  /\ \A s \in Sessions : phase[s] \in Unstarted => local[s] = Empty
  /\ \A s \in Sessions, n \in Nat :
       start[s] <= n /\ n < start[s] + made[s] => n \in local[s].segs
KnownOK ==
  /\ packager.pc = "download" =>
       /\ Playlistlike(packager.list)
       /\ \A n \in Present : objects[n] = Event.session => n \in packager.list.segs
  /\ packager.pc \in {"list", "put"} =>
       \A n \in Present : objects[n] = Event.session \/ objects[n] \notin unlisted =>
         n \in packager.list.segs
  /\ \A n \in Present : objects[n] \notin unlisted =>
       n \in Listed \/ (topic # <<>> /\ objects[n] = Event.session)

\* The invariant of AllListed, on top of ListInv and OrderInv.
KnownInv == LocalOK /\ KnownOK

\* As long as some discontinuity is still asked for, the playlist has only grown.
GrownOK ==
  unmarked # Sessions =>
    /\ \A s \in Sessions : \A n \in local[s].segs : n \in Listed \/ (n \in Nat /\ start[s] <= n)
    /\ packager.pc = "download" =>
         \A n \in packager.list.segs : n \in Listed \/ (n \in Nat /\ start[Event.session] <= n)
    /\ packager.pc \in {"list", "put"} => Listed \subseteq packager.list.segs

\* The boundary of s matters, and playlist p has it.
Marked(s) == s \notin unmarked /\ start[s] > 0 /\ \A t \in blind : t < s
Stitched(s, p) ==
  start[s] \in p.segs => start[s] \in p.disc \/ \A n \in p.segs : start[s] <= n
StitchOK ==
  \A s \in Sessions : Marked(s) =>
    /\ start[s] \in Present /\ objects[start[s]] = s =>
         /\ Stitched(s, OrEmpty(stored))
         /\ packager.pc \in {"list", "put"} => Stitched(s, packager.list)
    /\ seen[s] > 0 =>
         start[s] \in Listed \/ \E i \in 1 .. Len(topic) : topic[i].session = s /\ topic[i].disc

\* Nothing else has a discontinuity.
Starts == {start[s] : s \in {t \in Sessions : start[t] > 0}}
PlainOK ==
  crashes = 0 /\ blind \cup unmarked = {} =>
    /\ OrEmpty(stored).disc \subseteq Starts
    /\ \A s \in Sessions : local[s].disc \subseteq Starts
    /\ packager.pc \in {"download", "list", "put"} => packager.list.disc \subseteq Starts
    /\ \A i \in 1 .. Len(topic) : topic[i].disc => topic[i].seg \notin Listed

CrashesOK == crashes \in Nat

\* The invariant of ClipsAreStitched, on top of the others.
StitchInv == GrownOK /\ StitchOK /\ PlainOK

----------------------------------------------------------------------------

LEMMA EmptyInBucket == InBucket(Empty)
BY DEF InBucket, Empty, Playlists

LEMMA InitInv == PlaylistInit => ListInv /\ SealInv
<1> SUFFICES ASSUME PlaylistInit PROVE ListInv /\ SealInv
  OBVIOUS
<1>1. topic \in Seq({})
  BY DEF PlaylistInit
<1>2. EventsOK
  BY <1>1 DEF EventsOK
<1>3. HeldOK
  BY EmptyInBucket DEF PlaylistInit, HeldOK
<1>4. ObjectsOK
  BY DEF PlaylistInit, ObjectsOK
<1> QED
  BY <1>2, <1>3, <1>4 DEF PlaylistInit, ListInv, SealInv, StoredOK, PackagerOK, Free

\* A step that leaves the playlists and the bucket alone.
LEMMA NothingListed ==
  ASSUME ListInv, SealInv, UNCHANGED <<topic, packager, objects, stored, held, sealed>>
  PROVE  (ListInv /\ SealInv)'
BY DEF ListInv, SealInv, EventsOK, StoredOK, HeldOK, PackagerOK, ObjectsOK, InBucket, Present,
       Playlistlike

\* Taking the first event, or adding one, leaves events of sessions.
LEMMA TakenEvents ==
  ASSUME EventsOK, topic # <<>>, topic' = Tail(topic)
  PROVE  EventsOK'
<1>1. PICK S : topic \in Seq(S) /\ \A e \in S : e.session \in Sessions
  BY DEF EventsOK
<1>2. Tail(topic) \in Seq(S)
  BY <1>1
<1> QED
  BY <1>1, <1>2 DEF EventsOK

LEMMA AddedEvents ==
  ASSUME EventsOK, NEW e, e.session \in Sessions, topic' = Append(topic, e)
  PROVE  EventsOK' /\ topic' # <<>>
<1>1. PICK S : topic \in Seq(S) /\ \A d \in S : d.session \in Sessions
  BY DEF EventsOK
<1>2. topic \in Seq(S \cup {e})
  BY <1>1
<1>3. Append(topic, e) \in Seq(S \cup {e}) /\ Append(topic, e) # <<>>
  BY <1>2
<1> QED
  BY <1>1, <1>3 DEF EventsOK

LEMMA HeadEvent ==
  ASSUME EventsOK, topic # <<>>
  PROVE  Event.session \in Sessions
<1>1. PICK S : topic \in Seq(S) /\ \A d \in S : d.session \in Sessions
  BY DEF EventsOK
<1>2. Head(topic) \in S
  BY <1>1
<1> QED
  BY <1>1, <1>2 DEF Event

----------------------------------------------------------------------------
(* A step, action by action.                                               *)

\* The bucket only grows, and playlists of it stay playlists of it.
LEMMA BucketGrows ==
  ASSUME NEW p, InBucket(p), Present \subseteq Present'
  PROVE  InBucket(p)'
BY DEF InBucket

LEMMA AnnounceInv ==
  ASSUME ListInv, SealInv, NEW s \in Sessions, Announce(s)
  PROVE  (ListInv /\ SealInv)'
<1>1. UNCHANGED <<packager, objects, stored, held, sealed>>
  BY DEF Announce, OnlySession
<1>2. CASE topic' = Append(topic, SegmentReady(s))
  <2>1. SegmentReady(s).session \in Sessions
    BY DEF SegmentReady
  <2>2. EventsOK' /\ topic' # <<>>
    BY <1>2, <2>1, AddedEvents DEF ListInv
  <2> QED
    BY <1>1, <2>2 DEF ListInv, SealInv, StoredOK, HeldOK, PackagerOK, ObjectsOK, InBucket,
                      Present, Playlistlike
<1>3. CASE UNCHANGED topic
  BY <1>1, <1>3, NothingListed
<1> QED
  BY <1>2, <1>3 DEF Announce

LEMMA FinalizeGetInv ==
  ASSUME ListInv, SealInv, NEW s \in Sessions, FinalizeGet(s)
  PROVE  (ListInv /\ SealInv)'
<1>1. UNCHANGED <<topic, packager, objects, stored, sealed>>
  BY DEF FinalizeGet, OnlySession, history
<1>2. HeldOK'
  BY <1>1 DEF FinalizeGet, ListInv, HeldOK, StoredOK, InBucket, Present
<1> QED
  BY <1>1, <1>2 DEF ListInv, SealInv, EventsOK, StoredOK, PackagerOK, ObjectsOK, InBucket,
                    Present, Playlistlike

LEMMA FinalizePutInv ==
  ASSUME ListInv, SealInv, NEW s \in Sessions, FinalizePut(s)
  PROVE  (ListInv /\ SealInv)'
<1>1. UNCHANGED <<topic, packager, objects>> /\ Present' = Present
  BY DEF FinalizePut, OnlySession, Present
<1>2. HeldOK'
  BY <1>1, EmptyInBucket DEF FinalizePut, ListInv, HeldOK, InBucket
<1>3. InBucket(held[s])
  BY DEF ListInv, HeldOK
<1>4. CASE UNCHANGED <<stored, sealed>>
  BY <1>1, <1>2, <1>4 DEF ListInv, SealInv, EventsOK, StoredOK, PackagerOK, ObjectsOK, InBucket,
                          Playlistlike
<1>5. CASE /\ stored' = [held[s] EXCEPT !.end = TRUE]
           /\ sealed' = (sealed \/ (topic = <<>> /\ phase[s] = "delayed"))
  <2>1. InBucket(stored') /\ stored'.end
    BY <1>3, <1>5 DEF InBucket, Playlists
  <2>2. stored' # None
    BY <2>1, NoneIsNoPlaylist DEF InBucket
  <2>3. StoredOK'
    BY <1>1, <2>1 DEF StoredOK, InBucket
  <2>4. SealInv'
    BY <1>1, <1>5, <2>1, <2>2 DEF SealInv, ListInv, PackagerOK
  <2> QED
    BY <1>1, <1>2, <2>3, <2>4 DEF ListInv, EventsOK, PackagerOK, ObjectsOK, InBucket, Playlistlike
<1> QED
  BY <1>4, <1>5 DEF FinalizePut

LEMMA UploadInv ==
  ASSUME ListInv, SealInv, UploadSegment
  PROVE  (ListInv /\ SealInv)'
<1>1. UNCHANGED <<topic, stored, held, sealed>> /\ topic # <<>>
  BY DEF UploadSegment, OnlyPackager, workerVars
<1>2. Event.session \in Nat \ {0}
  BY <1>1, HeadEvent DEF ListInv, Sessions
<1>3. objects' \in [Segs -> Nat] /\ Present \subseteq Present'
  BY <1>2 DEF UploadSegment, ListInv, ObjectsOK, Present
<1>4. \A p : InBucket(p) => InBucket(p)'
  BY <1>3, BucketGrows
<1>5. packager' = [pc |-> "read", list |-> Empty]
  BY DEF UploadSegment, Works
<1>6. StoredOK' /\ HeldOK'
  BY <1>1, <1>4 DEF ListInv, StoredOK, HeldOK
<1> QED
  BY <1>1, <1>3, <1>5, <1>6 DEF ListInv, SealInv, EventsOK, PackagerOK, ObjectsOK

\* The event is over, and nothing was put.
LEMMA GiveUpInv ==
  ASSUME ListInv, SealInv, topic # <<>>, GiveUp, UNCHANGED objects
  PROVE  (ListInv /\ SealInv)'
<1>1. UNCHANGED <<stored, held, sealed, objects>>
  BY DEF GiveUp, OnlyPackager, workerVars
<1>2. packager' = Free /\ topic' = Tail(topic)
  BY DEF GiveUp, Finish
<1>3. EventsOK'
  BY <1>2, TakenEvents DEF ListInv
<1> QED
  BY <1>1, <1>2, <1>3 DEF ListInv, SealInv, StoredOK, HeldOK, PackagerOK, ObjectsOK, InBucket,
                          Present, Free

LEMMA DownloadInv ==
  ASSUME ListInv, SealInv, Download
  PROVE  (ListInv /\ SealInv)'
<1>1. UNCHANGED <<topic, stored, held, objects>> /\ topic # <<>>
  BY DEF Download, OnlyPackager, workerVars, ListInv, PackagerOK
<1>2. OrEmpty(stored).end \in BOOLEAN /\ Empty.end \in BOOLEAN
  BY DEF OrEmpty, Empty, ListInv, StoredOK, InBucket, Playlists
<1>3. \A old, disc : Playlistlike(Merge(old, packager.list, disc)) <=> old.end \in BOOLEAN
  BY DEF Playlistlike, Merge
<1>4. packager'.pc = "list" /\ Playlistlike(packager'.list)
  BY <1>2, <1>3 DEF Download, Works
<1>5. SealInv'
  <2>1. CASE /\ UNCHANGED sealed
             /\ packager' = [pc |-> "list",
                              list |-> Merge(OrEmpty(stored), packager.list, Event.disc)]
    <3>1. packager'.list.end = OrEmpty(stored).end
      BY <2>1 DEF Merge
    <3> QED
      BY <1>1, <2>1, <3>1 DEF SealInv, OrEmpty
  <2>2. CASE sealed' = FALSE
    BY <2>2 DEF SealInv
  <2> QED
    BY <2>1, <2>2 DEF Download, Works
<1>6. PackagerOK'
  BY <1>1, <1>4 DEF PackagerOK, Playlistlike
<1> QED
  BY <1>1, <1>5, <1>6 DEF ListInv, EventsOK, StoredOK, HeldOK, ObjectsOK, InBucket, Present

LEMMA ListInvStep ==
  ASSUME ListInv, SealInv, ListSegments
  PROVE  (ListInv /\ SealInv)'
<1>1. UNCHANGED <<topic, stored, held, objects, sealed>> /\ topic # <<>>
  BY DEF ListSegments, OnlyPackager, workerVars, ListInv, PackagerOK
<1>2. /\ Playlistlike(packager.list)
      /\ packager' = [pc |-> "put", list |-> Filtered(packager.list)]
      /\ packager.pc = "list"
  BY DEF ListSegments, Works, ListInv, PackagerOK
<1>3. Present \subseteq Segs
  BY DEF Present
<1>4. /\ Filtered(packager.list).segs = packager.list.segs \cap Present
      /\ Filtered(packager.list).disc = packager.list.disc \cap Present
      /\ Filtered(packager.list).end = packager.list.end
      /\ Filtered(packager.list) \in Playlists
  BY <1>2, <1>3 DEF Filtered, Playlistlike, Playlists
<1>5. InBucket(packager'.list)
  BY <1>2, <1>4 DEF InBucket
<1>6. PackagerOK' /\ SealInv'
  BY <1>1, <1>2, <1>4, <1>5 DEF PackagerOK, SealInv, InBucket, Present
<1> QED
  BY <1>1, <1>6 DEF ListInv, EventsOK, StoredOK, HeldOK, ObjectsOK, InBucket, Present

LEMMA PutInv ==
  ASSUME ListInv, SealInv, PutPlaylist
  PROVE  (ListInv /\ SealInv)'
<1>1. UNCHANGED <<held, objects, sealed>> /\ topic # <<>>
  BY DEF PutPlaylist, workerVars, ListInv, PackagerOK
<1>2. stored' = packager.list /\ InBucket(packager.list) /\ packager.pc = "put"
  BY DEF PutPlaylist, ListInv, PackagerOK
<1>3. packager' = Free /\ topic' \in {topic, Tail(topic)}
  BY DEF PutPlaylist, Finish, Redelivered
<1>4. EventsOK'
  BY <1>1, <1>3, TakenEvents DEF ListInv, EventsOK
<1>5. stored' # None
  BY <1>2, NoneIsNoPlaylist DEF InBucket
<1>6. SealInv'
  BY <1>1, <1>2, <1>3, <1>5 DEF SealInv, Free
<1> QED
  BY <1>1, <1>2, <1>3, <1>4, <1>6 DEF ListInv, StoredOK, HeldOK, ObjectsOK, PackagerOK, InBucket,
                                      Present, Free

LEMMA CrashInv ==
  ASSUME ListInv, SealInv, PackagerCrashes
  PROVE  (ListInv /\ SealInv)'
<1>1. packager' = Free /\ UNCHANGED <<topic, stored, held, objects, sealed>>
  BY DEF PackagerCrashes, Redelivered, workerVars, history
<1> QED
  BY <1>1 DEF ListInv, SealInv, EventsOK, StoredOK, HeldOK, ObjectsOK, PackagerOK, InBucket,
              Present, Free

LEMMA NextInv ==
  ASSUME ListInv, SealInv, [PlaylistNext]_playlistVars
  PROVE  (ListInv /\ SealInv)'
<1>1. ASSUME NEW s \in Sessions,
             Connect(s) \/ CountSegments(s) \/ Seed(s) \/ WriteSegment(s) \/ FfmpegEnds(s)
               \/ StopSession(s) \/ RemoveDir(s)
      PROVE  (ListInv /\ SealInv)'
  BY <1>1, NothingListed DEF Connect, CountSegments, Seed, WriteSegment, FfmpegEnds, StopSession,
       RemoveDir, OnlySession, history
<1>2. ASSUME NEW s \in Sessions, Announce(s) \/ FinalizeGet(s) \/ FinalizePut(s)
      PROVE  (ListInv /\ SealInv)'
  BY <1>2, AnnounceInv, FinalizeGetInv, FinalizePutInv
<1>3. CASE ReadLocal
  <2>1. /\ packager' = [pc |-> "download", list |-> local[Event.session]]
        /\ UNCHANGED <<topic, objects, stored, held, sealed>> /\ topic # <<>>
    BY <1>3 DEF ReadLocal, Works, OnlyPackager, workerVars, ListInv, PackagerOK
  <2> QED
    BY <2>1 DEF ListInv, SealInv, EventsOK, StoredOK, HeldOK, ObjectsOK, PackagerOK, InBucket,
                Present
<1>4. CASE FilesGone \/ PackagerFails
  BY <1>4, GiveUpInv DEF FilesGone, PackagerFails, ListInv, PackagerOK
<1>5. CASE UNCHANGED playlistVars
  BY <1>5, NothingListed DEF playlistVars, workerVars, history
<1> QED
  BY <1>1, <1>2, <1>3, <1>4, <1>5, UploadInv, DownloadInv, ListInvStep, PutInv, CrashInv
     DEF PlaylistNext, SessionStep, PackagerStep

----------------------------------------------------------------------------

\* The playlist never names a segment that is not in the bucket
\* (filterPlaylistToExistingSegs and finalizePlaylists).
THEOREM ListedExistsHolds == PlaylistSpec => []ListedExists
<1>1. ListInv => ListedExists
  BY DEF ListInv, StoredOK, InBucket, ListedExists
<1> QED
  BY <1>1, InitInv, NextInv, PTL DEF PlaylistSpec

\* Once a delayed finalize pass found no event left, the playlist keeps ENDLIST
\* (mergeHlsPlaylists), however late events and reconnects come.
THEOREM SealedStaysFinalHolds == PlaylistSpec => []SealedStaysFinal
<1>1. SealInv => SealedStaysFinal
  BY DEF SealInv, SealedStaysFinal
<1> QED
  BY <1>1, InitInv, NextInv, PTL DEF PlaylistSpec

----------------------------------------------------------------------------
(* Sessions, and the numbers of their segments.                            *)

\* A set of numbers has a least one.
LEMMA LeastNatural ==
  ASSUME NEW S \in SUBSET Nat, S # {}
  PROVE  \E n \in S : \A m \in S : n <= m
<1> DEFINE R == OpToRel(<, Nat)
<1>1. IsWellFoundedOn(R, Nat)
  BY NatLessThanWellFounded
<1>2. \A x, y \in Nat : x < y => <<x, y>> \in R
  BY DEF OpToRel
<1> HIDE DEF R
<1>3. PICK n \in S : \A m \in S : ~(<<m, n>> \in R)
  BY <1>1, WFMin
<1>4. ASSUME NEW m \in S PROVE n <= m
  <2>1. ~(m < n)
    BY <1>2, <1>3, Zenon
  <2> QED
    BY <2>1
<1> QED
  BY <1>4

\* getNextSegmentStartNumber finds a number after all there are.
LEMMA NextIsNew ==
  ASSUME Typed, SessionsOK, ClipsOK
  PROVE  NextNumber \in Segs /\ \A m \in Present : m < NextNumber
<1>1. MaxSegments \in Nat /\ MaxSessions \in Nat
  BY PlaylistAssumption
<1>2. ASSUME NEW m \in Present PROVE m < MaxSegments
  <2>1. objects[m] \in Sessions
    BY DEF Present, Typed
  <2>2. PICK a \in Nat, b \in Nat, c \in Nat :
          a = start[objects[m]] /\ b = seen[objects[m]] /\ c = made[objects[m]]
    BY <2>1 DEF Typed
  <2>3. m \in Nat /\ a <= m /\ m < a + b /\ b <= c /\ (c # 0 => a + c <= MaxSegments)
    BY <2>1, <2>2 DEF ClipsOK, SessionsOK, Present, Segs
  <2> QED
    BY <1>1, <2>2, <2>3
<1> DEFINE S == {n \in Nat : \A m \in Present : m < n}
<1>3. MaxSegments \in S /\ S \in SUBSET Nat
  BY <1>1, <1>2
<1>4. PICK n \in S : \A m \in S : n <= m
  BY <1>3, LeastNatural
<1>5. n \in Segs /\ \A m \in Present : m < n
  BY <1>1, <1>3, <1>4 DEF Segs
<1>6. n = 0 \/ n - 1 \in Present
  <2>1. SUFFICES ASSUME n # 0, n - 1 \notin Present PROVE FALSE
    OBVIOUS
  <2>2. n - 1 \in Nat
    BY <1>4, <2>1
  <2>3. \A m \in Present : m < n - 1
    BY <1>5, <2>1, <2>2 DEF Present, Segs
  <2> QED
    BY <1>4, <2>2, <2>3
<1> QED
  BY <1>5, <1>6 DEF NextNumber

\* Who has events or clips is past its start.
LEMMA Started ==
  ASSUME OrderInv, NEW s \in Sessions, seen[s] # 0
  PROVE  phase[s] \notin Unstarted
BY DEF OrderInv, Typed, SessionsOK

\* The head of topic is an event, and comes before the others.
LEMMA HeadIs ==
  ASSUME OrderInv, topic # <<>>
  PROVE  /\ Event = topic[1] /\ 1 \in 1 .. Len(topic) /\ Event \in Events
         /\ Event.seg \in Segs /\ Event.session \in Sessions
         /\ start[Event.session] <= Event.seg /\ seen[Event.session] # 0
         /\ \A i \in 1 .. Len(topic) : Event.session <= topic[i].session
<1>1. topic \in Seq(Events) /\ MaxSegments \in Nat
  BY PlaylistAssumption DEF OrderInv, Typed
<1>2. Event = topic[1] /\ 1 \in 1 .. Len(topic) /\ Event \in Events
  BY <1>1 DEF Event
<1>3. Event.session \in Sessions /\ Event.seg \in Nat /\ EventOK(Event)
  BY <1>2 DEF Events, OrderInv, TopicOK
<1>4. PICK a \in Nat, b \in Nat, c \in Nat :
        a = start[Event.session] /\ b = seen[Event.session] /\ c = made[Event.session]
  BY <1>3 DEF OrderInv, Typed
<1>5. /\ a <= Event.seg /\ Event.seg < a + b /\ b <= c /\ (c # 0 => a + c <= MaxSegments)
  BY <1>3, <1>4 DEF EventOK, OrderInv, SessionsOK
<1>6. Event.seg \in Segs /\ a <= Event.seg /\ b # 0
  BY <1>1, <1>3, <1>5 DEF Segs
<1>7. ASSUME NEW i \in 1 .. Len(topic) PROVE Event.session <= topic[i].session
  <2>1. topic[i] \in Events
    BY <1>1
  <2>2. topic[i].session \in Nat /\ Event.session \in Nat
    BY <1>3, <2>1 DEF Events, Sessions
  <2>3. i = 1 \/ 1 < i
    OBVIOUS
  <2> QED
    BY <1>2, <2>2, <2>3 DEF OrderInv, TopicOK
<1> QED
  BY <1>2, <1>3, <1>4, <1>6, <1>7

\* What is left when the head is taken.
LEMMA TailIs ==
  ASSUME OrderInv, topic # <<>>, topic' = Tail(topic)
  PROVE  /\ topic' \in Seq(Events)
         /\ \A i \in 1 .. Len(topic') : i + 1 \in 1 .. Len(topic) /\ topic'[i] = topic[i + 1]
         /\ \A i \in 1 .. Len(topic) : i = 1 \/ (i - 1 \in 1 .. Len(topic') /\ topic'[i - 1] = topic[i])
BY DEF OrderInv, Typed

LEMMA AddedIs ==
  ASSUME OrderInv, NEW e \in Events, topic' = Append(topic, e)
  PROVE  /\ topic' \in Seq(Events) /\ Len(topic') = Len(topic) + 1
         /\ Len(topic) \in Nat
         /\ \A i \in 1 .. Len(topic) : topic'[i] = topic[i]
         /\ topic'[Len(topic) + 1] = e
         /\ topic # <<>> => Event' = Event
BY DEF OrderInv, Typed, Event

LEMMA PresentIs ==
  ASSUME Typed
  PROVE  \A m \in Present : m \in Segs /\ m \in Nat /\ objects[m] \in Sessions
<1>1. \A m \in Present : m \in Segs /\ objects[m] \in Sessions
  BY DEF Typed, Present
<1> QED
  BY <1>1 DEF Segs

LEMMA OrderInit == PlaylistInit => OrderInv
<1> SUFFICES ASSUME PlaylistInit PROVE OrderInv
  OBVIOUS
<1>1. Present = {} /\ Len(topic) = 0 /\ topic \in Seq(Events)
  BY DEF PlaylistInit, Present
<1>2. Typed
  BY <1>1 DEF PlaylistInit, Typed, Phases
<1>3. SessionsOK
  BY DEF PlaylistInit, SessionsOK
<1>4. TopicOK /\ ClipsOK /\ CountOK
  BY <1>1 DEF PlaylistInit, TopicOK, ClipsOK, CountOK, Free
<1> QED
  BY <1>2, <1>3, <1>4 DEF OrderInv

\* A step that concerns neither sessions nor segments.
LEMMA OrderFrame ==
  ASSUME OrderInv, UNCHANGED <<phase, start, made, seen, topic, objects, blind>>,
         packager.pc = "idle" => packager'.pc = "idle",
         stored # None => stored' # None
  PROVE  OrderInv'
<1>1. Typed' /\ SessionsOK'
  BY DEF OrderInv, Typed, SessionsOK
<1>2. TopicOK'
  BY DEF OrderInv, TopicOK, EventOK
<1>3. ClipsOK' /\ CountOK'
  BY DEF OrderInv, ClipsOK, CountOK, Present, Event
<1> QED
  BY <1>1, <1>2, <1>3 DEF OrderInv

\* A session goes on to phase p.
LEMMA PhaseOrder ==
  ASSUME OrderInv, NEW s \in Sessions, NEW p \in Phases, Goes(s, p),
         UNCHANGED <<start, made, seen, topic, objects, blind, packager>>,
         p # "off",
         p = "list" => phase[s] = "off",
         p = "seed" => phase[s] \in Unstarted,
         phase[s] = "off" => p = "list" /\ \A t \in Sessions : t < s => phase[t] \in Past,
         phase[s] = "list" => FALSE,
         phase[s] \in Past => p \in Past,
         p \in {"finalize", "delayed"} => stored' # None,
         stored # None => stored' # None
  PROVE  OrderInv'
<1>1. /\ phase' \in [Sessions -> Phases]
      /\ \A t \in Sessions : phase'[t] = IF t = s THEN p ELSE phase[t]
  BY DEF Goes, OrderInv, Typed
<1>2. Typed'
  BY <1>1 DEF OrderInv, Typed
<1>3. SessionsOK'
  <2>1. \A t \in Sessions : phase'[t] \in Unstarted => made[t] = 0
    BY <1>1 DEF OrderInv, SessionsOK, Unstarted
  <2>2. \A t \in Sessions : phase'[t] \in {"off", "list"} => start[t] = 0
    BY <1>1 DEF OrderInv, SessionsOK
  <2>3. \A t, u \in Sessions : u < t /\ phase'[t] # "off" => phase'[u] \in Past
    BY <1>1 DEF OrderInv, SessionsOK
  <2>4. \A t \in Sessions : phase'[t] \in {"finalize", "delayed"} => stored' # None
    BY <1>1 DEF OrderInv, SessionsOK
  <2> QED
    BY <2>1, <2>2, <2>3, <2>4 DEF OrderInv, SessionsOK
<1>4. TopicOK'
  BY DEF OrderInv, TopicOK, EventOK
<1>5. ClipsOK'
  BY DEF OrderInv, ClipsOK, Present, Event
<1>6. CountOK'
  BY <1>1 DEF OrderInv, CountOK, Present
<1> QED
  BY <1>2, <1>3, <1>4, <1>5, <1>6 DEF OrderInv

LEMMA WorkerOrder ==
  ASSUME ListInv, OrderInv, NEW s \in Sessions,
         \/ Connect(s) \/ Seed(s) \/ FfmpegEnds(s) \/ StopSession(s)
         \/ FinalizeGet(s) \/ FinalizePut(s)
  PROVE  OrderInv'
<1> USE DEF OnlySession, history, Phases, Unstarted, Past
<1>1. phase[s] \in Phases
  BY DEF OrderInv, Typed
<1>2. CASE Connect(s)
  <2>1. ASSUME NEW t \in Sessions, t < s PROVE phase[t] \in Past
    <3>1. s \in Nat /\ t \in Nat /\ s - 1 \in Sessions /\ (t = s - 1 \/ t < s - 1) /\ s > 1
      BY <2>1, PlaylistAssumption DEF Sessions
    <3>2. phase[s - 1] \in Past
      BY <1>2, <3>1 DEF Connect
    <3> QED
      BY <3>1, <3>2 DEF OrderInv, SessionsOK
  <2> QED
    BY <1>2, <2>1, PhaseOrder DEF Connect
<1>3. CASE Seed(s)
  BY <1>3, PhaseOrder DEF Seed
<1>4. CASE FfmpegEnds(s) \/ StopSession(s)
  BY <1>4, PhaseOrder DEF FfmpegEnds, StopSession
<1>5. CASE FinalizeGet(s)
  BY <1>5, PhaseOrder DEF FinalizeGet, AfterPass
<1>6. CASE FinalizePut(s)
  <2>1. stored # None /\ stored' # None
    <3>1. [held[s] EXCEPT !.end = TRUE] \in Playlists
      BY DEF ListInv, HeldOK, InBucket, Playlists
    <3>2. stored # None
      BY <1>6 DEF FinalizePut, OrderInv, SessionsOK
    <3> QED
      BY <1>6, <3>1, <3>2, NoneIsNoPlaylist DEF FinalizePut
  <2> QED
    BY <1>6, <2>1, PhaseOrder DEF FinalizePut, AfterPass
<1> QED
  BY <1>2, <1>3, <1>4, <1>5, <1>6

\* The number a session gets is new, unless it is blind.
LEMMA CountOrder ==
  ASSUME OrderInv, NEW s \in Sessions, CountSegments(s)
  PROVE  OrderInv'
<1>1. /\ phase[s] = "list" /\ Goes(s, "seed") /\ made[s] = 0 /\ seen[s] = 0 /\ start[s] = 0
      /\ UNCHANGED <<made, seen, topic, objects, stored, packager>>
  <2>1. phase[s] = "list" /\ Goes(s, "seed") /\ UNCHANGED <<made, seen, topic, objects, stored, packager>>
    BY DEF CountSegments, OnlySession
  <2>2. made[s] \in Nat /\ seen[s] \in Nat
    BY DEF OrderInv, Typed
  <2> QED
    BY <2>1, <2>2 DEF OrderInv, SessionsOK, Unstarted
<1>2. PICK n \in Nat : /\ start' = [start EXCEPT ![s] = n]
                       /\ blind' \in {blind, blind \cup {s}}
                       /\ s \notin blind' => topic = <<>> /\ \A m \in Present : m < n
  <2>1. NextNumber \in Nat /\ \A m \in Present : m < NextNumber
    BY NextIsNew DEF OrderInv, Segs
  <2> QED
    BY <2>1 DEF CountSegments
<1>3. /\ \A t \in Sessions : phase'[t] = IF t = s THEN "seed" ELSE phase[t]
      /\ \A t \in Sessions : t # s => start'[t] = start[t]
      /\ Typed' /\ Present' = Present
  BY <1>1, <1>2 DEF Goes, OrderInv, Typed, Phases, Present
<1>4. SessionsOK'
  BY <1>1, <1>3 DEF OrderInv, SessionsOK, Unstarted, Past
<1>5. \A i \in 1 .. Len(topic) : topic[i] \in Events /\ topic[i].session # s
  <2>1. ASSUME NEW i \in 1 .. Len(topic) PROVE topic[i] \in Events
    BY DEF OrderInv, Typed
  <2>2. ASSUME NEW i \in 1 .. Len(topic) PROVE topic[i].session # s
    <3>1. topic[i].seg \in Nat /\ EventOK(topic[i])
      BY <2>1, <2>2 DEF OrderInv, TopicOK, Events
    <3>2. topic[i].session = s => 0 <= topic[i].seg /\ topic[i].seg < 0 + 0
      BY <1>1, <3>1 DEF EventOK
    <3> QED
      BY <3>1, <3>2
  <2> QED
    BY <2>1, <2>2
<1>6. TopicOK'
  BY <1>1, <1>3, <1>5 DEF OrderInv, TopicOK, EventOK, Events
<1>7. \A m \in Present : objects[m] \in Sessions /\ objects[m] # s
  <2>1. \A m \in Present : objects[m] \in Sessions /\ m \in Nat
    BY PresentIs DEF OrderInv
  <2>2. ASSUME NEW m \in Present, objects[m] = s PROVE FALSE
    BY <1>1, <2>1, <2>2 DEF OrderInv, Typed, ClipsOK
  <2> QED
    BY <2>1, <2>2
<1>8. ClipsOK'
  BY <1>1, <1>3, <1>7 DEF OrderInv, ClipsOK, Event
<1>9. CountOK'
  <2>1. ASSUME NEW t \in Sessions \ blind', t # s, phase'[t] \notin {"off", "list"}
        PROVE  /\ \A i \in 1 .. Len(topic) : t <= topic[i].session
               /\ \A m \in Present : objects[m] < t => m < start'[t]
    BY <1>2, <1>3, <2>1 DEF OrderInv, CountOK
  <2>2. ASSUME s \notin blind'
        PROVE  /\ \A i \in 1 .. Len(topic) : s <= topic[i].session
               /\ \A m \in Present : objects[m] < s => m < start'[s]
    BY <1>2, <2>2 DEF OrderInv, Typed
  <2> QED
    BY <1>1, <1>3, <2>1, <2>2 DEF CountOK
<1> QED
  BY <1>3, <1>4, <1>6, <1>8, <1>9 DEF OrderInv

LEMMA WriteOrder ==
  ASSUME OrderInv, NEW s \in Sessions, WriteSegment(s)
  PROVE  OrderInv'
<1>1. /\ phase[s] = "encode" /\ start[s] + made[s] < MaxSegments
      /\ made' = [made EXCEPT ![s] = @ + 1]
      /\ UNCHANGED <<phase, start, seen, topic, objects, blind, packager, stored>>
  BY DEF WriteSegment, OnlySession, history
<1>2. start[s] \in Nat /\ made[s] \in Nat /\ MaxSegments \in Nat /\ seen[s] \in Nat
  BY PlaylistAssumption DEF OrderInv, Typed
<1>3. \A t \in Sessions : made'[t] = IF t = s THEN made[s] + 1 ELSE made[t]
  BY <1>1 DEF OrderInv, Typed
<1>4. Typed'
  BY <1>1, <1>2 DEF OrderInv, Typed
<1>5. SessionsOK'
  <2>1. /\ phase[s] \notin Unstarted /\ seen[s] <= made[s] + 1
        /\ start[s] + (made[s] + 1) <= MaxSegments
    BY <1>1, <1>2 DEF OrderInv, SessionsOK, Unstarted
  <2> QED
    BY <1>1, <1>3, <2>1 DEF OrderInv, SessionsOK
<1>6. TopicOK' /\ ClipsOK' /\ CountOK'
  BY <1>1 DEF OrderInv, TopicOK, EventOK, ClipsOK, CountOK, Present, Event
<1> QED
  BY <1>4, <1>5, <1>6 DEF OrderInv

\* The session that is on air is the last one.
LEMMA OnAirIsLast ==
  ASSUME OrderInv, NEW s \in Sessions, phase[s] = "encode", NEW t \in Sessions, phase[t] # "off"
  PROVE  t <= s
<1>1. ~(s < t)
  BY DEF OrderInv, SessionsOK, Past
<1> QED
  BY <1>1, PlaylistAssumption DEF Sessions

LEMMA AnnounceOrder ==
  ASSUME ListInv, OrderInv, NEW s \in Sessions, Announce(s)
  PROVE  OrderInv'
<1>1. /\ phase[s] = "encode" /\ seen[s] < made[s] /\ seen' = [seen EXCEPT ![s] = @ + 1]
      /\ UNCHANGED <<phase, start, made, objects, blind, packager, stored>>
      /\ topic' = Append(topic, SegmentReady(s)) \/ UNCHANGED topic
  BY DEF Announce, Unannounced, OnlySession
<1>2. PICK a \in Nat, b \in Nat, c \in Nat : a = start[s] /\ b = seen[s] /\ c = made[s]
  BY DEF OrderInv, Typed
<1>3. \A t \in Sessions : seen'[t] = IF t = s THEN b + 1 ELSE seen[t]
  BY <1>1, <1>2 DEF OrderInv, Typed
<1>4. Typed /\ seen' \in [Sessions -> Nat] /\ SessionsOK'
  <2>1. b + 1 <= c
    BY <1>1, <1>2
  <2> QED
    BY <1>1, <1>2, <1>3, <2>1 DEF OrderInv, Typed, SessionsOK
<1>5. \A t \in Sessions : \A n \in Nat : n < start[t] + seen[t] => n < start[t] + seen'[t]
  <2>1. SUFFICES ASSUME NEW n \in Nat, n < a + b PROVE n < a + (b + 1)
    BY <1>2, <1>3
  <2> QED
    BY <2>1
<1>6. \A t \in Sessions : seen[t] # 0 => t <= s
  BY <1>1, Started, OnAirIsLast DEF Unstarted
<1>7. ASSUME NEW i \in 1 .. Len(topic)
      PROVE  /\ topic[i] \in Events /\ topic[i].session \in Sessions /\ topic[i].seg \in Nat
             /\ start[topic[i].session] <= topic[i].seg
             /\ topic[i].seg < start[topic[i].session] + seen[topic[i].session]
             /\ (topic[i].disc <=> start[topic[i].session] > 0 /\ topic[i].seg = start[topic[i].session])
             /\ topic[i].session <= s
  <2>1. topic[i] \in Events
    BY DEF OrderInv, Typed
  <2>2. topic[i].session \in Sessions /\ topic[i].seg \in Nat /\ EventOK(topic[i])
    BY <2>1 DEF OrderInv, TopicOK, Events
  <2>3. seen[topic[i].session] # 0
    BY <2>2 DEF EventOK, OrderInv, Typed
  <2> QED
    BY <1>6, <2>1, <2>2, <2>3 DEF EventOK
<1>8. \A n \in Present : n \in Nat /\ objects[n] \in Sessions /\ objects[n] <= s
  <2>1. ASSUME NEW n \in Present PROVE seen[objects[n]] # 0
    BY PresentIs DEF OrderInv, Typed, ClipsOK
  <2> QED
    BY <1>6, <2>1, PresentIs DEF OrderInv
<1>9. ASSUME NEW t \in Sessions, phase[t] \notin {"off", "list"} PROVE t <= s
  BY <1>1, <1>9, OnAirIsLast
<1>10. CASE UNCHANGED topic
  <2>1. TopicOK'
    BY <1>1, <1>5, <1>7, <1>10 DEF OrderInv, TopicOK, EventOK
  <2>2. ClipsOK' /\ CountOK'
    BY <1>1, <1>5, <1>8, <1>10 DEF OrderInv, ClipsOK, CountOK, Present, Event
  <2> QED
    BY <1>1, <1>4, <1>10, <2>1, <2>2 DEF OrderInv, Typed
<1>11. CASE topic' = Append(topic, SegmentReady(s))
  <2>1. PICK e \in Events : /\ e = SegmentReady(s)
                            /\ e.session = s /\ e.seg = a + b /\ (e.disc <=> a > 0 /\ b = 0)
    <3>1. PICK d \in BOOLEAN : d = PendingDiscontinuity(s)
      BY DEF PendingDiscontinuity
    <3>2. PICK e : e = [session |-> s, seg |-> a + b, disc |-> d]
      OBVIOUS
    <3>3. e \in Events /\ e.session = s /\ e.seg = a + b /\ e.disc = d
      BY <1>2, <3>2 DEF Events
    <3>4. e = SegmentReady(s) /\ (d <=> a > 0 /\ b = 0)
      BY <1>2, <3>1, <3>2 DEF SegmentReady, PendingDiscontinuity
    <3> QED
      BY <3>3, <3>4
  <2>2. /\ topic' \in Seq(Events) /\ Len(topic') = Len(topic) + 1 /\ Len(topic) \in Nat
        /\ \A i \in 1 .. Len(topic) : topic'[i] = topic[i]
        /\ topic'[Len(topic) + 1] = e
        /\ topic # <<>> => Event' = Event
    BY <1>11, <2>1, AddedIs
  <2>3. \A i \in 1 .. Len(topic') : i \in 1 .. Len(topic) \/ topic'[i] = e
    BY <2>2
  <2>4. (\A i \in 1 .. Len(topic) : EventOK(topic[i]))'
    <3>1. ASSUME NEW i \in 1 .. Len(topic) PROVE EventOK(topic[i])'
      BY <1>1, <1>5, <1>7, <2>2 DEF EventOK
    <3>2. EventOK(e)'
      <4>1. /\ start'[e.session] = a /\ seen'[e.session] = b + 1
        BY <1>1, <1>2, <1>3, <2>1
      <4>2. a <= a + b /\ a + b < a + (b + 1) /\ (b = 0 <=> a + b = a)
        BY <1>2
      <4> QED
        BY <2>1, <4>1, <4>2 DEF EventOK
    <3> QED
      BY <2>2, <2>3, <3>1, <3>2
  <2>5. \A i, j \in 1 .. Len(topic') : i < j =>
          \/ topic'[i].session < topic'[j].session
          \/ topic'[i].session = topic'[j].session /\ topic'[i].seg < topic'[j].seg
    <3>1. ASSUME NEW i \in 1 .. Len(topic)
          PROVE  \/ topic[i].session < s
                 \/ topic[i].session = s /\ topic[i].seg < a + b
      <4>1. topic[i].session \in Nat /\ s \in Nat
        BY <1>7 DEF Sessions
      <4> QED
        BY <1>2, <1>7, <4>1
    <3>2. ASSUME NEW i \in 1 .. Len(topic'), NEW j \in 1 .. Len(topic'), i < j
          PROVE  i \in 1 .. Len(topic) /\ (j \in 1 .. Len(topic) \/ topic'[j] = e)
      BY <2>2, <3>2
    <3>3. ASSUME NEW i \in 1 .. Len(topic'), NEW j \in 1 .. Len(topic'), i < j
          PROVE  \/ topic'[i].session < topic'[j].session
                 \/ topic'[i].session = topic'[j].session /\ topic'[i].seg < topic'[j].seg
      <4>1. i \in 1 .. Len(topic) /\ topic'[i] = topic[i]
        BY <2>2, <3>2, <3>3
      <4>2. CASE j \in 1 .. Len(topic)
        BY <2>2, <3>3, <4>1, <4>2 DEF OrderInv, TopicOK
      <4>3. CASE topic'[j] = e
        BY <2>1, <3>1, <4>1, <4>3
      <4> QED
        BY <3>2, <3>3, <4>2, <4>3
    <3> QED
      BY <3>3
  <2>6. ClipsOK'
    <3>1. \A n \in Present : start[objects[n]] <= n /\ n < start[objects[n]] + seen'[objects[n]]
      BY <1>5, <1>8 DEF OrderInv, ClipsOK
    <3>2. \A n \in Present, i \in 1 .. Len(topic') : objects[n] <= topic'[i].session
      BY <1>8, <2>1, <2>2, <2>3 DEF OrderInv, ClipsOK
    <3>3. packager.pc # "idle" => objects[Event'.seg] = Event'.session
      BY <2>2 DEF OrderInv, ClipsOK, ListInv, PackagerOK
    <3> QED
      BY <1>1, <3>1, <3>2, <3>3 DEF ClipsOK, Present
  <2>7. CountOK'
    BY <1>1, <1>9, <2>1, <2>2, <2>3 DEF OrderInv, CountOK, Present
  <2> QED
    BY <1>1, <1>4, <2>2, <2>4, <2>5, <2>6, <2>7 DEF OrderInv, Typed, TopicOK
<1> QED
  BY <1>1, <1>10, <1>11

LEMMA UploadOrder ==
  ASSUME OrderInv, UploadSegment
  PROVE  OrderInv'
<1>1. /\ topic # <<>> /\ objects' = [objects EXCEPT ![Event.seg] = Event.session]
      /\ UNCHANGED <<phase, start, made, seen, topic, stored, blind>>
  BY DEF UploadSegment, OnlyPackager, workerVars
<1>2. PICK h \in Sessions, n \in Segs : h = Event.session /\ n = Event.seg
  BY <1>1, HeadIs
<1>3. /\ h # 0 /\ \A i \in 1 .. Len(topic) : h <= topic[i].session
  BY <1>1, <1>2, HeadIs DEF Sessions
<1>4. \A m \in Segs : objects'[m] = IF m = n THEN h ELSE objects[m]
  BY <1>1, <1>2 DEF OrderInv, Typed
<1>5. Present' = Present \cup {n}
  BY <1>2, <1>3, <1>4 DEF Present
<1>6. Typed' /\ SessionsOK' /\ TopicOK'
  BY <1>1, <1>2 DEF OrderInv, Typed, SessionsOK, TopicOK, EventOK
<1>7. ClipsOK'
  <2>1. start[h] <= n /\ n < start[h] + seen[h]
    <3>1. EventOK(topic[1]) /\ Event = topic[1]
      BY <1>1, HeadIs DEF OrderInv, TopicOK
    <3> QED
      BY <1>2, <3>1 DEF EventOK
  <2>2. objects'[Event'.seg] = Event'.session
    BY <1>1, <1>2, <1>4 DEF Event
  <2>3. \A m \in Present' : m \in Segs /\ (m # n => m \in Present)
    BY <1>2, <1>5 DEF Present
  <2> QED
    BY <1>1, <1>3, <1>4, <2>1, <2>2, <2>3 DEF OrderInv, ClipsOK
<1>8. CountOK'
  <2>1. ASSUME NEW t \in Sessions \ blind, phase[t] \notin {"off", "list"}, NEW m \in Present',
               objects'[m] < t
        PROVE  m < start[t]
    <3>1. m \in Segs /\ t <= h
      BY <1>1, <1>2, <1>5, <2>1, HeadIs DEF OrderInv, CountOK, Present
    <3>2. ~(h < t)
      BY <3>1 DEF Sessions
    <3> QED
      BY <1>4, <1>5, <2>1, <3>1, <3>2 DEF OrderInv, CountOK
  <2> QED
    BY <1>1, <2>1 DEF OrderInv, CountOK
<1> QED
  BY <1>6, <1>7, <1>8 DEF OrderInv

\* The event is over.
LEMMA FinishOrder ==
  ASSUME OrderInv, topic # <<>>, Finish,
         UNCHANGED <<phase, start, made, seen, objects, blind>>,
         stored # None => stored' # None
  PROVE  OrderInv'
<1>1. topic' = Tail(topic) /\ packager'.pc = "idle"
  BY DEF Finish, Free
<1>2. /\ topic' \in Seq(Events) /\ Len(topic') \in Nat
      /\ \A i \in 1 .. Len(topic') : i + 1 \in 1 .. Len(topic) /\ topic'[i] = topic[i + 1]
  BY <1>1, TailIs
<1>3. Typed' /\ SessionsOK'
  BY <1>2 DEF OrderInv, Typed, SessionsOK
<1>4. TopicOK'
  <2>1. \A i \in 1 .. Len(topic') : EventOK(topic[i + 1])
    BY <1>2 DEF OrderInv, TopicOK
  <2>2. ASSUME NEW i \in 1 .. Len(topic'), NEW j \in 1 .. Len(topic'), i < j
        PROVE  \/ topic'[i].session < topic'[j].session
               \/ topic'[i].session = topic'[j].session /\ topic'[i].seg < topic'[j].seg
    <3>1. i + 1 < j + 1
      BY <1>2, <2>2
    <3> QED
      BY <1>2, <3>1 DEF OrderInv, TopicOK
  <2> QED
    BY <1>2, <2>1, <2>2 DEF TopicOK, EventOK
<1>5. ClipsOK' /\ CountOK'
  BY <1>1, <1>2 DEF OrderInv, ClipsOK, CountOK, Present
<1> QED
  BY <1>3, <1>4, <1>5 DEF OrderInv

LEMMA PackagerOrder ==
  ASSUME ListInv, OrderInv, PackagerStep \/ PackagerCrashes
  PROVE  OrderInv'
<1> USE DEF OnlyPackager, workerVars, history
<1>1. CASE UploadSegment
  BY <1>1, UploadOrder
<1>2. CASE ReadLocal \/ Download \/ ListSegments \/ PackagerCrashes
  <2>1. UNCHANGED <<phase, start, made, seen, topic, objects, blind, stored>>
    BY <1>2 DEF ReadLocal, Download, ListSegments, PackagerCrashes, Redelivered
  <2>2. packager.pc # "idle"
    BY <1>2 DEF ReadLocal, Download, ListSegments, PackagerCrashes
  <2> QED
    BY <2>1, <2>2, OrderFrame
<1>3. CASE FilesGone \/ PackagerFails
  BY <1>3, FinishOrder DEF FilesGone, PackagerFails, GiveUp, ListInv, PackagerOK
<1>4. CASE PutPlaylist
  <2>1. /\ stored' # None /\ topic # <<>> /\ packager.pc # "idle"
        /\ UNCHANGED <<phase, start, made, seen, objects, blind>>
    BY <1>4, NoneIsNoPlaylist DEF PutPlaylist, ListInv, PackagerOK, InBucket
  <2>2. CASE Finish
    BY <2>1, <2>2, FinishOrder
  <2>3. CASE Redelivered
    BY <2>1, <2>3, OrderFrame DEF Redelivered
  <2> QED
    BY <1>4, <2>2, <2>3 DEF PutPlaylist
<1> QED
  BY <1>1, <1>2, <1>3, <1>4 DEF PackagerStep

LEMMA NextOrder ==
  ASSUME ListInv, OrderInv, [PlaylistNext]_playlistVars
  PROVE  OrderInv'
<1>1. ASSUME NEW s \in Sessions, SessionStep(s) PROVE OrderInv'
  <2>1. CASE RemoveDir(s)
    BY <2>1, OrderFrame DEF RemoveDir, OnlySession, history
  <2> QED
    BY <1>1, <2>1, WorkerOrder, CountOrder, WriteOrder, AnnounceOrder DEF SessionStep
<1>2. CASE UNCHANGED playlistVars
  BY <1>2, OrderFrame DEF playlistVars, workerVars, history
<1> QED
  BY <1>1, <1>2, PackagerOrder DEF PlaylistNext

\* No session overwrites a segment of an earlier one, unless it is blind: events are taken
\* in their order, so an earlier session's come before, and its numbers are then counted
\* (getNextSegmentStartNumber).
THEOREM CountedClipsKeptHolds == PlaylistSpec => CountedClipsKept
<1>1. ASSUME OrderInv, [PlaylistNext]_playlistVars, NEW n \in Segs, objects[n] \notin {0, objects'[n]}
      PROVE  objects'[n] \in blind
  <2>1. UploadSegment
    BY <1>1 DEF PlaylistNext, SessionStep, PackagerStep, playlistVars, OnlySession, Connect, CountSegments, Seed,
         WriteSegment, Announce, FfmpegEnds, StopSession, RemoveDir, FinalizeGet, FinalizePut,
         ReadLocal, FilesGone, Download, ListSegments, PutPlaylist, PackagerFails, PackagerCrashes
  <2>2. topic # <<>> /\ objects' = [objects EXCEPT ![Event.seg] = Event.session]
    BY <2>1 DEF UploadSegment
  <2>3. PICK h \in Sessions, r \in Sessions : h = Event.session /\ r = objects[n]
    BY <1>1, <2>2, HeadIs DEF OrderInv, Typed
  <2>4. n = Event.seg /\ objects'[n] = h /\ r # h
    BY <1>1, <2>2, <2>3 DEF OrderInv, Typed
  <2>5. /\ start[h] <= n /\ seen[h] # 0 /\ Event = topic[1] /\ 1 \in 1 .. Len(topic)
    BY <1>1, <2>2, <2>3, <2>4, HeadIs
  <2>6. phase[h] \notin Unstarted
    BY <1>1, <2>5, Started
  <2>7. r <= h /\ n \in Present
    BY <1>1, <2>3, <2>5 DEF OrderInv, ClipsOK, Present
  <2>8. r < h
    BY <2>4, <2>7 DEF Sessions
  <2>9. h \notin blind => n < start[h]
    BY <1>1, <2>3, <2>6, <2>7, <2>8 DEF OrderInv, CountOK, Unstarted
  <2>10. start[h] \in Nat /\ n \in Nat
    BY <1>1 DEF OrderInv, Typed, Segs
  <2> QED
    BY <2>4, <2>5, <2>9, <2>10
<1>2. ListInv /\ SealInv /\ OrderInv /\ [PlaylistNext]_playlistVars =>
        [\A n \in Segs : objects[n] \notin {0, objects'[n]} => objects'[n] \in blind]_playlistVars
  <2>1. SUFFICES ASSUME OrderInv, [PlaylistNext]_playlistVars
        PROVE  \A n \in Segs : objects[n] \notin {0, objects'[n]} => objects'[n] \in blind
    OBVIOUS
  <2> QED
    BY <1>1, <2>1
<1> QED
  BY <1>2, InitInv, OrderInit, NextInv, NextOrder, PTL DEF PlaylistSpec, CountedClipsKept

----------------------------------------------------------------------------
(* Every clip is listed.                                                   *)

LEMMA EmptyLike == Playlistlike(Empty) /\ Empty \in Playlists
BY DEF Playlistlike, Empty, Playlists

LEMMA OrEmptyIs ==
  ASSUME StoredOK
  PROVE  OrEmpty(stored) \in Playlists /\ Playlistlike(OrEmpty(stored))
<1>1. OrEmpty(stored) \in Playlists
  BY EmptyLike DEF OrEmpty, StoredOK, InBucket
<1> QED
  BY <1>1 DEF Playlists, Playlistlike

LEMMA SeededLike ==
  ASSUME StoredOK
  PROVE  /\ Playlistlike([OrEmpty(stored) EXCEPT !.end = FALSE])
         /\ [OrEmpty(stored) EXCEPT !.end = FALSE].segs = Listed
         /\ [OrEmpty(stored) EXCEPT !.end = FALSE].disc = OrEmpty(stored).disc
<1>1. PICK p \in Playlists : p = OrEmpty(stored)
  BY OrEmptyIs
<1>2. PICK q : q = [p EXCEPT !.end = FALSE]
  OBVIOUS
<1>3. q = [segs |-> p.segs, disc |-> p.disc, end |-> FALSE]
  BY <1>1, <1>2 DEF Playlists
<1>4. Playlistlike(q) /\ q.segs = p.segs /\ q.disc = p.disc
  BY <1>3 DEF Playlistlike
<1> QED
  BY <1>1, <1>2, <1>4 DEF Listed

LEMMA KnownInit == PlaylistInit => KnownInv
<1> SUFFICES ASSUME PlaylistInit PROVE KnownInv
  OBVIOUS
<1>1. Present = {}
  BY DEF PlaylistInit, Present
<1>2. Playlistlike(Empty)
  BY DEF Playlistlike, Empty
<1>3. LocalOK
  BY <1>2 DEF PlaylistInit, LocalOK
<1> QED
  BY <1>1, <1>3 DEF PlaylistInit, KnownInv, KnownOK, Free

\* A step that leaves FFmpeg's playlists alone.
LEMMA LocalFrame ==
  ASSUME LocalOK, UNCHANGED <<local, start, made>>,
         \A s \in Sessions : phase'[s] \in Unstarted => phase[s] \in Unstarted
  PROVE  LocalOK'
BY DEF LocalOK, Playlistlike

\* A step of a session that leaves hls-packager and the bucket alone, and what is listed
\* unless nothing is promised any more.
LEMMA KnownFrame ==
  ASSUME KnownInv, OrderInv, LocalOK', UNCHANGED <<packager, objects>>,
         UNCHANGED topic \/ (Event' = Event /\ topic' # <<>>) \/ topic = <<>>,
         packager.pc # "idle" => topic # <<>>,
         \/ unlisted' = Sessions
         \/ unlisted' = unlisted /\ Listed \subseteq Listed'
  PROVE  KnownInv'
<1>1. \A n \in Present : objects[n] \in Sessions
  BY PresentIs DEF OrderInv
<1>2. Present' = Present
  BY DEF Present
<1>3. topic # <<>> => Event' = Event /\ topic' # <<>>
  BY DEF Event
<1>4. unlisted' \in {unlisted, Sessions} /\ (unlisted' # Sessions => Listed \subseteq Listed')
  OBVIOUS
<1>5. KnownOK'
  BY <1>1, <1>2, <1>3, <1>4 DEF KnownInv, KnownOK, Playlistlike
<1> QED
  BY <1>5 DEF KnownInv

LEMMA SessionKnown ==
  ASSUME ListInv, OrderInv, OrderInv', KnownInv, NEW s \in Sessions, SessionStep(s)
  PROVE  KnownInv'
<1> USE DEF OnlySession, history, Unstarted
<1>1. packager.pc # "idle" => topic # <<>>
  BY DEF ListInv, PackagerOK
<1>2. phase \in [Sessions -> Phases] /\ LocalOK
  BY DEF OrderInv, Typed, KnownInv
<1>3. CASE Connect(s) \/ FfmpegEnds(s) \/ StopSession(s) \/ RemoveDir(s) \/ FinalizeGet(s)
  <2>1. UNCHANGED <<local, start, made, topic, packager, objects, stored, unlisted>>
    BY <1>3 DEF Connect, FfmpegEnds, StopSession, RemoveDir, FinalizeGet
  <2>2. \A t \in Sessions : phase'[t] \in Unstarted => phase[t] \in Unstarted
    BY <1>2, <1>3 DEF Connect, FfmpegEnds, StopSession, RemoveDir, FinalizeGet, Goes, AfterPass
  <2> QED
    BY <1>1, <1>2, <2>1, <2>2, LocalFrame, KnownFrame DEF Listed
<1>4. CASE CountSegments(s)
  <2>1. /\ phase[s] = "list" /\ \A t \in Sessions : t # s => start'[t] = start[t]
        /\ UNCHANGED <<local, made, topic, packager, objects, stored, unlisted>>
        /\ \A t \in Sessions : phase'[t] \in Unstarted => phase[t] \in Unstarted
    BY <1>2, <1>4 DEF CountSegments, Goes, OrderInv, Typed
  <2>2. made[s] = 0 /\ start'[s] \in Nat
    BY <2>1 DEF OrderInv, Typed, SessionsOK
  <2>3. LocalOK'
    BY <1>2, <2>1, <2>2 DEF LocalOK, Playlistlike
  <2> QED
    BY <1>1, <2>1, <2>3, KnownFrame DEF Listed
<1>5. CASE Seed(s)
  <2>1. /\ phase[s] = "seed" /\ phase'[s] = "encode"
        /\ \A t \in Sessions : t # s => phase'[t] = phase[t]
        /\ UNCHANGED <<start, made, topic, packager, objects, stored, unlisted>>
    BY <1>2, <1>5 DEF Seed, Goes
  <2>2. \E p : local' = [local EXCEPT ![s] = p] /\ Playlistlike(p)
    <3>1. Playlistlike(Empty) /\ Playlistlike([OrEmpty(stored) EXCEPT !.end = FALSE])
      BY EmptyLike, SeededLike DEF ListInv
    <3>2. UNCHANGED local => local' = [local EXCEPT ![s] = local[s]] /\ Playlistlike(local[s])
      BY <1>2 DEF LocalOK
    <3> QED
      BY <1>5, <3>1, <3>2 DEF Seed
  <2>3. PICK p : local' = [local EXCEPT ![s] = p] /\ Playlistlike(p)
    BY <2>2
  <2>4. /\ local' = [t \in Sessions |-> local'[t]]
        /\ \A t \in Sessions : local'[t] = IF t = s THEN p ELSE local[t]
    BY <1>2, <2>3 DEF LocalOK
  <2>5. made[s] = 0 /\ start[s] \in Nat
    BY <2>1 DEF OrderInv, Typed, SessionsOK
  <2>6. LocalOK'
    <3>1. \A t \in Sessions : Playlistlike(local[t])'
      BY <1>2, <2>3, <2>4 DEF LocalOK, Playlistlike
    <3> QED
      BY <1>2, <2>1, <2>4, <2>5, <3>1 DEF LocalOK
  <2> QED
    BY <1>1, <2>1, <2>6, KnownFrame DEF Listed
<1>6. CASE WriteSegment(s)
  <2>1. PICK n \in Nat, m \in Nat : n = start[s] + made[s] /\ m = made[s]
    BY DEF OrderInv, Typed
  <2>2. PICK p : p = [local[s] EXCEPT !.segs = local[s].segs \cup {n}]
    OBVIOUS
  <2>3. /\ phase[s] = "encode" /\ made' = [made EXCEPT ![s] = m + 1]
        /\ local' = [local EXCEPT ![s] = p]
        /\ UNCHANGED <<phase, start, topic, packager, objects, stored, unlisted>>
    BY <1>6, <2>1, <2>2 DEF WriteSegment
  <2>4. Playlistlike(p) /\ p.segs = local[s].segs \cup {n}
    BY <1>2, <2>2 DEF LocalOK, Playlistlike
  <2>5. /\ local' = [t \in Sessions |-> local'[t]]
        /\ \A t \in Sessions : local'[t] = IF t = s THEN p ELSE local[t]
        /\ \A t \in Sessions : made'[t] = IF t = s THEN m + 1 ELSE made[t]
    BY <1>2, <2>3 DEF LocalOK, OrderInv, Typed
  <2>6. \A t \in Sessions : Playlistlike(local[t])'
    BY <1>2, <2>4, <2>5 DEF LocalOK, Playlistlike
  <2>7. ASSUME NEW k \in Nat, start[s] <= k, k < start[s] + (m + 1)
        PROVE  k \in p.segs
    <3>1. start[s] \in Nat
      BY DEF OrderInv, Typed
    <3>2. k = n \/ k < start[s] + made[s]
      BY <2>1, <2>7, <3>1
    <3> QED
      BY <1>2, <2>4, <2>7, <3>2 DEF LocalOK
  <2>8. LocalOK'
    BY <1>2, <2>3, <2>5, <2>6, <2>7 DEF LocalOK
  <2> QED
    BY <1>1, <2>3, <2>8, KnownFrame DEF Listed
<1>7. CASE Announce(s)
  <2>1. /\ UNCHANGED <<phase, local, start, made, packager, objects, stored, unlisted>>
        /\ topic' = Append(topic, SegmentReady(s)) \/ UNCHANGED topic
    BY <1>7 DEF Announce
  <2>2. topic' # topic => topic' # <<>> /\ (topic # <<>> => Event' = Event)
    <3>1. SegmentReady(s) \in Events
      BY DEF SegmentReady, PendingDiscontinuity, Events, OrderInv, Typed
    <3> QED
      BY <2>1, <3>1, AddedIs
  <2> QED
    BY <1>1, <1>2, <2>1, <2>2, LocalFrame, KnownFrame DEF Listed
<1>8. CASE FinalizePut(s)
  <2>1. /\ UNCHANGED <<local, start, made, topic, packager, objects>>
        /\ \A t \in Sessions : phase'[t] \in Unstarted => phase[t] \in Unstarted
        /\ stored # None
    BY <1>2, <1>8 DEF FinalizePut, Goes, AfterPass, OrderInv, SessionsOK
  <2>2. unlisted' = Sessions \/ (unlisted' = unlisted /\ Listed \subseteq Listed')
    <3>1. CASE UNCHANGED <<stored, unlisted>>
      BY <3>1 DEF Listed
    <3>2. CASE stored' = [held[s] EXCEPT !.end = TRUE] /\ stored.segs = held[s].segs /\ UNCHANGED unlisted
      <4>1. stored' \in Playlists /\ stored'.segs = held[s].segs
        BY <3>2 DEF ListInv, HeldOK, InBucket, Playlists
      <4> QED
        BY <2>1, <3>2, <4>1, NoneIsNoPlaylist DEF Listed, OrEmpty
    <3> QED
      BY <1>8, <3>1, <3>2 DEF FinalizePut
  <2> QED
    BY <1>1, <1>2, <2>1, <2>2, LocalFrame, KnownFrame
<1> QED
  BY <1>3, <1>4, <1>5, <1>6, <1>7, <1>8 DEF SessionStep

LEMMA MergeIs ==
  \A old, new, disc :
    /\ Merge(old, new, disc).segs = old.segs \cup new.segs
    /\ Merge(old, new, disc).disc = old.disc \cup new.disc \cup (IF disc THEN Boundary(old, new) ELSE {})
BY DEF Merge

LEMMA FilteredIs ==
  ASSUME NEW p, Playlistlike(p)
  PROVE  Filtered(p).segs = p.segs \cap Present /\ Filtered(p).disc = p.disc \cap Present
BY DEF Playlistlike, Filtered

\* A step of hls-packager leaves FFmpeg's playlists alone.
LEMMA PackagerLocal ==
  ASSUME LocalOK, PackagerStep \/ PackagerCrashes
  PROVE  LocalOK'
<1>1. UNCHANGED <<local, start, made, phase>>
  BY DEF PackagerStep, PackagerCrashes, UploadSegment, ReadLocal, FilesGone, Download, ListSegments,
         PutPlaylist, PackagerFails, GiveUp, OnlyPackager, workerVars
<1> QED
  BY <1>1, LocalFrame

\* The event's session has just a clip more, and it is being listed.
LEMMA UploadKnown ==
  ASSUME OrderInv, KnownInv, UploadSegment
  PROVE  KnownOK'
<1>1. /\ topic # <<>> /\ objects' = [objects EXCEPT ![Event.seg] = Event.session]
      /\ packager'.pc = "read" /\ UNCHANGED <<topic, stored, unlisted>>
  BY DEF UploadSegment, Works
<1>2. PICK h \in Sessions, n \in Segs : h = Event.session /\ n = Event.seg
  BY <1>1, HeadIs
<1>3. \A m \in Segs : objects'[m] = IF m = n THEN h ELSE objects[m]
  BY <1>1, <1>2 DEF OrderInv, Typed
<1>4. \A m \in Present' : m \in Segs /\ (m = n \/ m \in Present)
  BY <1>3 DEF Present
<1> QED
  BY <1>1, <1>2, <1>3, <1>4 DEF KnownInv, KnownOK, Event, Listed

\* FFmpeg's playlist has all clips of the event's session.
LEMMA ReadKnown ==
  ASSUME ListInv, OrderInv, KnownInv, ReadLocal
  PROVE  KnownOK'
<1>1. /\ packager' = [pc |-> "download", list |-> local[Event.session]] /\ topic # <<>>
      /\ UNCHANGED <<topic, objects, stored, unlisted>>
  BY DEF ReadLocal, Works, ListInv, PackagerOK
<1>2. PICK h \in Sessions : h = Event.session
  BY <1>1, HeadIs
<1>3. Playlistlike(local[h])
  BY DEF KnownInv, LocalOK
<1>4. ASSUME NEW n \in Present, objects[n] = h PROVE n \in local[h].segs
  <2>1. PICK a \in Nat, b \in Nat, c \in Nat : a = start[h] /\ b = seen[h] /\ c = made[h]
    BY DEF OrderInv, Typed
  <2>2. n \in Nat /\ a <= n /\ n < a + b /\ b <= c
    BY <1>4, <2>1, PresentIs DEF OrderInv, ClipsOK, SessionsOK
  <2>3. n < a + c
    BY <2>1, <2>2
  <2> QED
    BY <2>1, <2>2, <2>3 DEF KnownInv, LocalOK
<1> QED
  BY <1>1, <1>2, <1>3, <1>4 DEF KnownInv, KnownOK, Event, Listed, Present, Playlistlike

\* The merge has them too, and what was listed.
LEMMA DownloadKnown ==
  ASSUME ListInv, OrderInv, KnownInv, Download
  PROVE  KnownOK'
<1>1. /\ packager.pc = "download" /\ packager'.pc = "list" /\ topic # <<>>
      /\ UNCHANGED <<topic, objects, stored>>
  BY DEF Download, Works, ListInv, PackagerOK
<1>2. \/ unlisted' = unlisted /\ packager'.list.segs = Listed \cup packager.list.segs
      \/ unlisted' = Sessions /\ packager'.list.segs = Empty.segs \cup packager.list.segs
  <2>1. CASE /\ packager' = [pc |-> "list", list |-> Merge(OrEmpty(stored), packager.list, Event.disc)]
             /\ UNCHANGED unlisted
    <3>1. packager'.list = Merge(OrEmpty(stored), packager.list, Event.disc)
      BY <2>1
    <3> QED
      BY <2>1, <3>1, MergeIs DEF Listed
  <2>2. CASE /\ packager' = [pc |-> "list", list |-> Merge(Empty, packager.list, Event.disc)]
             /\ unlisted' = Sessions
    <3>1. packager'.list = Merge(Empty, packager.list, Event.disc)
      BY <2>2
    <3> QED
      BY <2>2, <3>1, MergeIs
  <2> QED
    BY <2>1, <2>2 DEF Download, Works
<1>3. \A n \in Present : objects[n] \in Sessions
  BY PresentIs DEF OrderInv
<1>4. \A n \in Present : objects[n] = Event.session => n \in packager.list.segs
  BY <1>1 DEF KnownInv, KnownOK
<1>5. \A n \in Present : objects[n] \notin unlisted => n \in Listed \/ objects[n] = Event.session
  BY <1>1 DEF KnownInv, KnownOK
<1>6. Event' = Event /\ Listed' = Listed /\ Present' = Present
  BY <1>1 DEF Event, Listed, Present
<1> QED
  BY <1>1, <1>2, <1>3, <1>4, <1>5, <1>6 DEF KnownOK

LEMMA ListKnown ==
  ASSUME ListInv, KnownInv, ListSegments
  PROVE  KnownOK'
<1>1. /\ packager.pc = "list" /\ packager' = [pc |-> "put", list |-> Filtered(packager.list)]
      /\ UNCHANGED <<topic, objects, stored, unlisted>>
  BY DEF ListSegments, Works
<1>2. packager'.pc = "put" /\ packager'.list.segs = packager.list.segs \cap Present
  BY <1>1, FilteredIs DEF ListInv, PackagerOK
<1>3. Event' = Event /\ Listed' = Listed /\ Present' = Present
  BY <1>1 DEF Event, Listed, Present
<1> QED
  BY <1>1, <1>2, <1>3 DEF KnownInv, KnownOK

\* The put lists all clips of the event's session: whatever event is next.
LEMMA PutKnown ==
  ASSUME ListInv, OrderInv, KnownInv, PutPlaylist
  PROVE  KnownOK'
<1>1. /\ packager.pc = "put" /\ stored' = packager.list /\ packager'.pc = "idle"
      /\ unlisted' = unlisted \ {Event.session} /\ UNCHANGED objects
  BY DEF PutPlaylist, Finish, Redelivered, Free
<1>2. Listed' = packager.list.segs
  BY <1>1, NoneIsNoPlaylist DEF ListInv, PackagerOK, InBucket, Listed, OrEmpty
<1>3. \A n \in Present : objects[n] = Event.session \/ objects[n] \notin unlisted => n \in Listed'
  BY <1>1, <1>2 DEF KnownInv, KnownOK
<1> QED
  BY <1>1, <1>3 DEF KnownOK, Present

LEMMA GiveUpKnown ==
  ASSUME ListInv, OrderInv, KnownInv, GiveUp, UNCHANGED objects, topic # <<>>
  PROVE  KnownOK'
<1>1. /\ packager'.pc = "idle" /\ unlisted' = unlisted \cup {Event.session}
      /\ UNCHANGED <<objects, stored>>
  BY DEF GiveUp, Finish, Free
<1> QED
  BY <1>1 DEF KnownInv, KnownOK, Present, Listed

LEMMA NextKnown ==
  ASSUME ListInv, OrderInv, OrderInv', KnownInv, [PlaylistNext]_playlistVars
  PROVE  KnownInv'
<1>1. CASE PackagerStep \/ PackagerCrashes
  <2>1. LocalOK'
    BY <1>1, PackagerLocal DEF KnownInv
  <2>2. CASE FilesGone \/ PackagerFails
    <3>1. GiveUp /\ UNCHANGED objects /\ topic # <<>>
      BY <2>2 DEF FilesGone, PackagerFails, ListInv, PackagerOK
    <3> QED
      BY <2>1, <3>1, GiveUpKnown DEF KnownInv
  <2>3. CASE PackagerCrashes
    <3>1. packager'.pc = "idle" /\ UNCHANGED <<topic, objects, stored, unlisted>>
      BY <2>3 DEF PackagerCrashes, Redelivered, Free, history
    <3> QED
      BY <2>1, <3>1 DEF KnownInv, KnownOK, Event, Listed, Present
  <2> QED
    BY <1>1, <2>1, <2>2, <2>3, UploadKnown, ReadKnown, DownloadKnown, ListKnown, PutKnown
       DEF PackagerStep, KnownInv
<1>2. CASE UNCHANGED playlistVars
  BY <1>2, LocalFrame DEF playlistVars, workerVars, history, KnownInv, KnownOK, Event, Listed, Present, Playlistlike
<1> QED
  BY <1>1, <1>2, SessionKnown DEF PlaylistNext

\* With no event left, every clip in the bucket is in the playlist, but those of sessions
\* whose last listing failed or was undone: a listing takes all clips of its session from
\* FFmpeg's playlist, and those of other sessions from the bucket's (mergeHlsPlaylists).
THEOREM AllListedHolds == PlaylistSpec => []AllListed
<1>1. KnownInv => AllListed
  BY DEF KnownInv, KnownOK, AllListed, Listed, OrEmpty, Empty
<1>2. ListInv /\ SealInv /\ OrderInv /\ KnownInv /\ [PlaylistNext]_playlistVars =>
        (ListInv /\ SealInv)' /\ OrderInv' /\ KnownInv'
  BY NextInv, NextOrder, NextKnown
<1> QED
  BY <1>1, <1>2, InitInv, OrderInit, KnownInit, PTL DEF PlaylistSpec

----------------------------------------------------------------------------
(* Discontinuities.                                                        *)

LEMMA StitchInit == PlaylistInit => StitchInv
<1> SUFFICES ASSUME PlaylistInit PROVE StitchInv
  OBVIOUS
<1>1. Present = {} /\ Len(topic) = 0 /\ Listed = {} /\ OrEmpty(stored) = Empty
  BY DEF PlaylistInit, Present, Listed, OrEmpty, Empty
<1>2. /\ \A s \in Sessions : local[s] = Empty /\ seen[s] = 0
      /\ packager.pc = "idle"
  BY DEF PlaylistInit, Free
<1>3. Empty.segs = {} /\ Empty.disc = {}
  BY DEF Empty
<1> QED
  BY <1>1, <1>2, <1>3 DEF StitchInv, GrownOK, StitchOK, PlainOK

\* Once all discontinuities are lost, nothing is claimed.
LEMMA NoneMarked ==
  ASSUME NEW s \in Sessions, unmarked' = Sessions
  PROVE  StitchInv'
BY DEF StitchInv, GrownOK, StitchOK, PlainOK, Marked

\* A step that leaves segments, lists and events alone.
LEMMA StitchFrame ==
  ASSUME StitchInv,
         UNCHANGED <<packager, objects, start, local, seen, topic, crashes, blind, unmarked>>,
         OrEmpty(stored)'.segs = OrEmpty(stored).segs,
         OrEmpty(stored)'.disc = OrEmpty(stored).disc
  PROVE  StitchInv'
<1>1. Listed' = Listed /\ Present' = Present /\ Event' = Event /\ Starts' = Starts
  BY DEF Listed, Present, Event, Starts
<1>2. GrownOK'
  BY <1>1 DEF StitchInv, GrownOK
<1>3. StitchOK'
  BY <1>1 DEF StitchInv, StitchOK, Marked, Stitched
<1>4. PlainOK'
  BY <1>1 DEF StitchInv, PlainOK
<1> QED
  BY <1>2, <1>3, <1>4 DEF StitchInv

LEMMA CountStitch ==
  ASSUME ListInv, OrderInv, KnownInv, StitchInv, NEW s \in Sessions, CountSegments(s)
  PROVE  StitchInv'
<1>1. /\ phase[s] = "list"
      /\ UNCHANGED <<packager, objects, local, seen, topic, crashes, unmarked, stored>>
      /\ blind \subseteq blind'
      /\ \A t \in Sessions : t # s => start'[t] = start[t]
  BY DEF CountSegments, OnlySession, OrderInv, Typed
<1>2. start[s] = 0 /\ seen[s] = 0 /\ local[s].segs = {}
  BY <1>1, Started DEF OrderInv, SessionsOK, KnownInv, LocalOK, Unstarted, Empty
<1>3. Listed' = Listed /\ Present' = Present /\ Event' = Event
  BY <1>1 DEF Listed, Present, Event
<1>4. packager.pc # "idle" => Event.session # s /\ Event.session \in Sessions
  BY <1>2, HeadIs DEF ListInv, PackagerOK
<1>5. GrownOK'
  BY <1>1, <1>2, <1>3, <1>4 DEF StitchInv, GrownOK
<1>6. \A n \in Present : objects[n] # s
  BY <1>2, PresentIs DEF OrderInv, ClipsOK, Typed
<1>7. StitchOK'
  <2>1. ASSUME NEW t \in Sessions, t # s PROVE Marked(t)' => Marked(t) /\ start'[t] = start[t]
    BY <1>1, <2>1 DEF Marked
  <2> QED
    BY <1>1, <1>2, <1>3, <1>6, <2>1 DEF StitchInv, StitchOK, Stitched
<1>8. Starts \subseteq Starts'
  BY <1>1, <1>2 DEF Starts
<1>9. PlainOK'
  BY <1>1, <1>3, <1>8 DEF StitchInv, PlainOK
<1> QED
  BY <1>5, <1>7, <1>9 DEF StitchInv

\* FFmpeg's playlist starts from what is listed, and goes on with new names.
LEMMA LocalStitch ==
  ASSUME LocalOK, StitchInv, NEW s \in Sessions, NEW p,
         local' = [local EXCEPT ![s] = p],
         UNCHANGED <<packager, objects, start, seen, topic, crashes, blind, unmarked, stored>>,
         unmarked # Sessions => \A n \in p.segs : n \in Listed \/ (n \in Nat /\ start[s] <= n),
         crashes = 0 /\ blind \cup unmarked = {} => p.disc \subseteq Starts
  PROVE  StitchInv'
<1>1. \A t \in Sessions : local'[t] = IF t = s THEN p ELSE local[t]
  BY DEF LocalOK
<1>2. Listed' = Listed /\ Present' = Present /\ Event' = Event /\ Starts' = Starts
  BY DEF Listed, Present, Event, Starts
<1>3. GrownOK'
  BY <1>1, <1>2 DEF StitchInv, GrownOK
<1>4. StitchOK'
  BY <1>2 DEF StitchInv, StitchOK, Marked, Stitched
<1>5. PlainOK'
  BY <1>1, <1>2 DEF StitchInv, PlainOK
<1> QED
  BY <1>3, <1>4, <1>5 DEF StitchInv

LEMMA SeedStitch ==
  ASSUME ListInv, OrderInv, KnownInv, StitchInv, NEW s \in Sessions, Seed(s)
  PROVE  StitchInv'
<1>1. UNCHANGED <<packager, objects, start, seen, topic, crashes, blind, unmarked, stored>>
  BY DEF Seed, OnlySession, history
<1>2. LocalOK /\ Playlistlike(local[s])
  BY DEF KnownInv, LocalOK
<1>3. CASE UNCHANGED local
  <2>1. OrEmpty(stored)' = OrEmpty(stored)
    BY <1>1 DEF OrEmpty
  <2> QED
    BY <1>1, <1>3, <2>1, StitchFrame
<1>4. CASE local' = [local EXCEPT ![s] = Empty]
  BY <1>1, <1>2, <1>4, LocalStitch DEF Empty
<1>5. CASE local' = [local EXCEPT ![s] = [OrEmpty(stored) EXCEPT !.end = FALSE]]
  <2>1. PICK p : p = [OrEmpty(stored) EXCEPT !.end = FALSE]
    OBVIOUS
  <2>2. p.segs = Listed /\ p.disc = OrEmpty(stored).disc
    BY <2>1, SeededLike DEF ListInv
  <2>3. crashes = 0 /\ blind \cup unmarked = {} => p.disc \subseteq Starts
    BY <2>2 DEF StitchInv, PlainOK
  <2> QED
    BY <1>1, <1>2, <1>5, <2>1, <2>2, <2>3, LocalStitch
<1> QED
  BY <1>3, <1>4, <1>5 DEF Seed

LEMMA WriteStitch ==
  ASSUME OrderInv, KnownInv, StitchInv, NEW s \in Sessions, WriteSegment(s)
  PROVE  StitchInv'
<1>1. UNCHANGED <<packager, objects, start, seen, topic, crashes, blind, unmarked, stored>>
  BY DEF WriteSegment, OnlySession, history
<1>2. LocalOK /\ Playlistlike(local[s])
  BY DEF KnownInv, LocalOK
<1>3. PICK n \in Nat : n = start[s] + made[s] /\ start[s] <= n
  BY DEF OrderInv, Typed
<1>4. PICK p : p = [local[s] EXCEPT !.segs = local[s].segs \cup {n}]
  OBVIOUS
<1>5. local' = [local EXCEPT ![s] = p]
  BY <1>3, <1>4 DEF WriteSegment
<1>6. p.segs = local[s].segs \cup {n} /\ p.disc = local[s].disc
  BY <1>2, <1>4 DEF Playlistlike
<1>7. unmarked # Sessions => \A m \in p.segs : m \in Listed \/ (m \in Nat /\ start[s] <= m)
  BY <1>3, <1>6 DEF StitchInv, GrownOK
<1>8. crashes = 0 /\ blind \cup unmarked = {} => p.disc \subseteq Starts
  BY <1>6 DEF StitchInv, PlainOK
<1> QED
  BY <1>1, <1>2, <1>5, <1>7, <1>8, LocalStitch

\* Nothing listed has a number that is still to be written.
LEMMA NotListedYet ==
  ASSUME ListInv, OrderInv, NEW s \in Sessions, s \notin blind, phase[s] = "encode", seen[s] = 0
  PROVE  start[s] \notin Listed
<1>1. SUFFICES ASSUME start[s] \in Listed PROVE FALSE
  OBVIOUS
<1>2. start[s] \in Present
  BY <1>1 DEF Listed, OrEmpty, Empty, ListInv, StoredOK, InBucket
<1>3. PICK r \in Sessions : r = objects[start[s]]
  BY <1>2, PresentIs DEF OrderInv
<1>4. start[s] \in Nat /\ seen[r] # 0
  BY <1>2, <1>3 DEF OrderInv, Typed, ClipsOK
<1>5. r <= s
  BY <1>4, Started, OnAirIsLast DEF Unstarted
<1>6. r # s
  BY <1>4
<1>7. r < s
  BY <1>5, <1>6 DEF Sessions
<1> QED
  BY <1>2, <1>3, <1>4, <1>7 DEF OrderInv, CountOK

LEMMA AnnounceStitch ==
  ASSUME ListInv, OrderInv, StitchInv, NEW s \in Sessions, Announce(s)
  PROVE  StitchInv'
<1>1. /\ phase[s] = "encode" /\ seen' = [seen EXCEPT ![s] = @ + 1]
      /\ UNCHANGED <<packager, objects, start, local, crashes, blind, stored>>
      /\ \/ topic' = Append(topic, SegmentReady(s)) /\ UNCHANGED unmarked
         \/ /\ UNCHANGED topic
            /\ unmarked' = IF PendingDiscontinuity(s) THEN unmarked \cup {s} ELSE unmarked
  BY DEF Announce, OnlySession
<1>2. \A t \in Sessions : t # s => seen'[t] = seen[t]
  BY <1>1 DEF OrderInv, Typed
<1>3. Listed' = Listed /\ Present' = Present /\ Starts' = Starts /\ OrEmpty(stored)' = OrEmpty(stored)
  BY <1>1 DEF Listed, Present, Starts, OrEmpty
<1>4. packager.pc # "idle" => topic # <<>>
  BY DEF ListInv, PackagerOK
<1>5. start[s] \in Nat /\ seen[s] \in Nat
  BY DEF OrderInv, Typed
<1>6. CASE /\ UNCHANGED topic
           /\ unmarked' = IF PendingDiscontinuity(s) THEN unmarked \cup {s} ELSE unmarked
  <2>1. Event' = Event
    BY <1>6 DEF Event
  <2>2. /\ unmarked \subseteq unmarked' /\ (unmarked = Sessions => unmarked' = Sessions)
        /\ start[s] > 0 /\ seen[s] = 0 => s \in unmarked'
    BY <1>6 DEF PendingDiscontinuity
  <2>3. GrownOK'
    BY <1>1, <1>3, <2>1, <2>2 DEF StitchInv, GrownOK
  <2>4. StitchOK'
    <3>1. ASSUME NEW t \in Sessions, Marked(t)'
          PROVE  Marked(t) /\ (seen'[t] > 0 => seen[t] > 0)
      BY <1>1, <1>2, <1>5, <2>2, <3>1 DEF Marked
    <3> QED
      BY <1>1, <1>3, <1>6, <3>1 DEF StitchInv, StitchOK, Stitched
  <2>5. PlainOK'
    BY <1>1, <1>3, <1>6, <2>2 DEF StitchInv, PlainOK
  <2> QED
    BY <2>3, <2>4, <2>5 DEF StitchInv
<1>7. CASE topic' = Append(topic, SegmentReady(s)) /\ UNCHANGED unmarked
  <2>1. PICK e \in Events : /\ e = SegmentReady(s) /\ e.session = s /\ e.seg = start[s] + seen[s]
                            /\ e.disc <=> start[s] > 0 /\ seen[s] = 0
    <3>1. PICK d \in BOOLEAN : d = PendingDiscontinuity(s)
      BY DEF PendingDiscontinuity
    <3>2. PICK e : e = [session |-> s, seg |-> start[s] + seen[s], disc |-> d]
      OBVIOUS
    <3>3. e \in Events /\ e.session = s /\ e.seg = start[s] + seen[s] /\ e.disc = d
      BY <1>5, <3>2 DEF Events
    <3>4. e = SegmentReady(s) /\ (d <=> start[s] > 0 /\ seen[s] = 0)
      BY <3>1, <3>2 DEF SegmentReady, PendingDiscontinuity
    <3> QED
      BY <3>3, <3>4
  <2>2. /\ Len(topic') = Len(topic) + 1 /\ Len(topic) \in Nat
        /\ \A i \in 1 .. Len(topic) : topic'[i] = topic[i]
        /\ topic'[Len(topic) + 1] = e
        /\ topic # <<>> => Event' = Event
    BY <1>7, <2>1, AddedIs
  <2>3. /\ \A i \in 1 .. Len(topic') : i \in 1 .. Len(topic) \/ topic'[i] = e
        /\ \A i \in 1 .. Len(topic) : i \in 1 .. Len(topic')
        /\ Len(topic) + 1 \in 1 .. Len(topic')
    BY <2>2
  <2>4. GrownOK'
    BY <1>1, <1>3, <1>4, <1>7, <2>2 DEF StitchInv, GrownOK
  <2>5. StitchOK'
    <3>1. ASSUME NEW t \in Sessions, Marked(t), seen'[t] > 0
          PROVE  \/ start[t] \in Listed
                 \/ \E i \in 1 .. Len(topic') : topic'[i].session = t /\ topic'[i].disc
      <4>1. CASE seen[t] > 0
        <5>1. \/ start[t] \in Listed
              \/ \E i \in 1 .. Len(topic) : topic[i].session = t /\ topic[i].disc
          BY <3>1, <4>1 DEF StitchInv, StitchOK
        <5> QED
          BY <2>2, <2>3, <5>1
      <4>2. CASE ~(seen[t] > 0)
        <5>1. t = s /\ seen[s] = 0 /\ start[s] > 0
          BY <1>2, <1>5, <3>1, <4>2 DEF Marked
        <5> QED
          BY <2>1, <2>2, <2>3, <5>1
      <4> QED
        BY <4>1, <4>2
    <3>2. ASSUME NEW t \in Sessions, Marked(t)' PROVE Marked(t)
      BY <1>1, <1>7, <3>2 DEF Marked
    <3> QED
      BY <1>1, <1>3, <3>1, <3>2 DEF StitchInv, StitchOK, Stitched
  <2>6. PlainOK'
    <3>1. blind = {} /\ e.disc => e.seg \notin Listed
      <4>1. e.disc => e.seg = start[s] /\ seen[s] = 0
        BY <1>5, <2>1
      <4> QED
        BY <1>1, <4>1, NotListedYet
    <3>2. crashes = 0 /\ blind \cup unmarked = {} =>
            \A i \in 1 .. Len(topic') : topic'[i].disc => topic'[i].seg \notin Listed
      BY <2>2, <2>3, <3>1 DEF StitchInv, PlainOK
    <3> QED
      BY <1>1, <1>3, <1>7, <3>2 DEF StitchInv, PlainOK
  <2> QED
    BY <2>4, <2>5, <2>6 DEF StitchInv
<1> QED
  BY <1>1, <1>6, <1>7

LEMMA FinalizeStitch ==
  ASSUME ListInv, OrderInv, StitchInv, NEW s \in Sessions, FinalizePut(s)
  PROVE  StitchInv'
<1>1. /\ UNCHANGED <<packager, objects, start, local, seen, topic, crashes, blind>>
      /\ stored # None
  BY DEF FinalizePut, OnlySession, OrderInv, SessionsOK
<1>2. CASE unmarked' = Sessions
  BY <1>2, NoneMarked
<1>3. CASE UNCHANGED <<stored, unmarked>>
  <2>1. OrEmpty(stored)' = OrEmpty(stored)
    BY <1>3 DEF OrEmpty
  <2> QED
    BY <1>1, <1>3, <2>1, StitchFrame
<1>4. CASE /\ stored' = [held[s] EXCEPT !.end = TRUE] /\ UNCHANGED unmarked
           /\ stored.segs = held[s].segs /\ stored.disc = held[s].disc
  <2>1. stored' \in Playlists /\ stored'.segs = held[s].segs /\ stored'.disc = held[s].disc
    BY <1>4 DEF ListInv, HeldOK, InBucket, Playlists
  <2>2. OrEmpty(stored)' = stored' /\ OrEmpty(stored) = stored
    BY <1>1, <2>1, NoneIsNoPlaylist DEF OrEmpty
  <2> QED
    BY <1>1, <1>4, <2>1, <2>2, StitchFrame
<1> QED
  BY <1>2, <1>3, <1>4 DEF FinalizePut

LEMMA SessionStitch ==
  ASSUME ListInv, OrderInv, KnownInv, StitchInv, NEW s \in Sessions, SessionStep(s)
  PROVE  StitchInv'
<1>1. CASE Connect(s) \/ FfmpegEnds(s) \/ StopSession(s) \/ RemoveDir(s) \/ FinalizeGet(s)
  <2>1. UNCHANGED <<packager, objects, start, local, seen, topic, crashes, blind, unmarked, stored>>
    BY <1>1 DEF Connect, FfmpegEnds, StopSession, RemoveDir, FinalizeGet, OnlySession, history
  <2>2. OrEmpty(stored)' = OrEmpty(stored)
    BY <2>1 DEF OrEmpty
  <2> QED
    BY <2>1, <2>2, StitchFrame
<1> QED
  BY <1>1, CountStitch, SeedStitch, WriteStitch, AnnounceStitch, FinalizeStitch DEF SessionStep

LEMMA UploadStitch ==
  ASSUME ListInv, OrderInv, StitchInv, UploadSegment
  PROVE  StitchInv'
<1>1. /\ topic # <<>> /\ objects' = [objects EXCEPT ![Event.seg] = Event.session]
      /\ packager'.pc = "read"
      /\ UNCHANGED <<topic, stored, start, local, seen, crashes, blind, unmarked>>
  BY DEF UploadSegment, Works, OnlyPackager, workerVars
<1>2. PICK h \in Sessions, n \in Segs : h = Event.session /\ n = Event.seg
  BY <1>1, HeadIs
<1>3. \A m \in Segs : objects'[m] = IF m = n THEN h ELSE objects[m]
  BY <1>1, <1>2 DEF OrderInv, Typed
<1>4. OrEmpty(stored)' = OrEmpty(stored) /\ Listed' = Listed /\ Starts' = Starts
  BY <1>1 DEF OrEmpty, Listed, Starts
<1>5. GrownOK' /\ PlainOK'
  BY <1>1, <1>4 DEF StitchInv, GrownOK, PlainOK
<1>6. ASSUME NEW s \in Sessions, Marked(s), start[s] \in Present', objects'[start[s]] = s
      PROVE  Stitched(s, OrEmpty(stored))
  <2>1. start[s] \in Segs
    BY <1>6 DEF Present
  <2>2. CASE start[s] \in Present /\ objects[start[s]] = s
    BY <1>6, <2>2 DEF StitchInv, StitchOK
  <2>3. CASE start[s] \in Present /\ objects[start[s]] # s
    <3>1. start[s] = n /\ h = s
      BY <1>3, <1>6, <2>1, <2>3
    <3>2. PICK r \in Sessions : r = objects[start[s]]
      BY <2>3, PresentIs DEF OrderInv
    <3>3. r <= h
      BY <1>1, <1>2, <2>3, <3>2, HeadIs DEF OrderInv, ClipsOK
    <3>4. r < s /\ s \notin blind
      BY <1>6, <2>3, <3>1, <3>2, <3>3 DEF Marked, Sessions
    <3>5. phase[s] \notin {"off", "list"}
      BY <1>6 DEF Marked, OrderInv, SessionsOK
    <3>6. start[s] < start[s]
      BY <2>3, <3>2, <3>4, <3>5 DEF OrderInv, CountOK
    <3>7. start[s] \in Nat
      BY DEF OrderInv, Typed
    <3> QED
      BY <3>6, <3>7
  <2>4. CASE start[s] \notin Present
    <3>1. start[s] \notin OrEmpty(stored).segs
      BY <2>4 DEF OrEmpty, Empty, ListInv, StoredOK, InBucket
    <3> QED
      BY <3>1 DEF Stitched
  <2> QED
    BY <2>2, <2>3, <2>4
<1>7. StitchOK'
  <2>1. ASSUME NEW s \in Sessions, Marked(s)' PROVE Marked(s)
    BY <1>1, <2>1 DEF Marked
  <2>2. ASSUME NEW s \in Sessions, Stitched(s, OrEmpty(stored)) PROVE Stitched(s, OrEmpty(stored))'
    BY <1>1, <1>4, <2>2 DEF Stitched
  <2>3. ASSUME NEW s \in Sessions, Marked(s), seen[s] > 0
        PROVE  start[s] \in Listed \/ \E i \in 1 .. Len(topic) : topic[i].session = s /\ topic[i].disc
    BY <2>3 DEF StitchInv, StitchOK
  <2> QED
    BY <1>1, <1>4, <1>6, <2>1, <2>2, <2>3 DEF StitchOK
<1> QED
  BY <1>5, <1>7 DEF StitchInv

\* The handler goes on: neither the playlist nor an event changes.
LEMMA WorkStitch ==
  ASSUME StitchInv, UNCHANGED <<topic, stored, objects, start, local, seen, blind, unmarked>>,
         GrownOK',
         packager'.pc \in {"list", "put"} =>
           \A s \in Sessions : Marked(s) /\ start[s] \in Present /\ objects[start[s]] = s =>
             Stitched(s, packager'.list),
         PlainOK'
  PROVE  StitchInv'
<1>1. OrEmpty(stored)' = OrEmpty(stored) /\ Listed' = Listed /\ Present' = Present
  BY DEF OrEmpty, Listed, Present
<1>2. StitchOK'
  BY <1>1 DEF StitchInv, StitchOK, Marked, Stitched
<1> QED
  BY <1>2 DEF StitchInv

LEMMA ReadStitch ==
  ASSUME ListInv, OrderInv, StitchInv, ReadLocal
  PROVE  StitchInv'
<1>1. /\ packager' = [pc |-> "download", list |-> local[Event.session]] /\ topic # <<>>
      /\ UNCHANGED <<topic, stored, objects, start, local, seen, crashes, blind, unmarked>>
  BY DEF ReadLocal, Works, OnlyPackager, workerVars, ListInv, PackagerOK
<1>2. PICK h \in Sessions : h = Event.session
  BY <1>1, HeadIs
<1>3. packager'.pc = "download" /\ packager'.list = local[h]
  BY <1>1, <1>2
<1>4. Event' = Event /\ Listed' = Listed /\ Starts' = Starts /\ OrEmpty(stored)' = OrEmpty(stored)
  BY <1>1 DEF Event, Listed, Starts, OrEmpty
<1>5. GrownOK'
  BY <1>1, <1>2, <1>3, <1>4 DEF StitchInv, GrownOK
<1>6. PlainOK'
  BY <1>1, <1>2, <1>3, <1>4 DEF StitchInv, PlainOK
<1> QED
  BY <1>1, <1>3, <1>5, <1>6, WorkStitch

LEMMA ListStitch ==
  ASSUME ListInv, StitchInv, ListSegments
  PROVE  StitchInv'
<1>1. /\ packager.pc = "list" /\ packager' = [pc |-> "put", list |-> Filtered(packager.list)]
      /\ UNCHANGED <<topic, stored, objects, start, local, seen, crashes, blind, unmarked>>
  BY DEF ListSegments, Works, OnlyPackager, workerVars
<1>2. /\ packager'.pc = "put" /\ packager'.list.segs = packager.list.segs \cap Present
      /\ packager'.list.disc = packager.list.disc \cap Present
  BY <1>1, FilteredIs DEF ListInv, PackagerOK
<1>3. Listed' = Listed /\ Starts' = Starts /\ OrEmpty(stored)' = OrEmpty(stored)
  BY <1>1 DEF Listed, Starts, OrEmpty
<1>4. Listed \subseteq Present
  BY DEF Listed, OrEmpty, Empty, ListInv, StoredOK, InBucket
<1>5. GrownOK'
  BY <1>1, <1>2, <1>3, <1>4 DEF StitchInv, GrownOK
<1>6. PlainOK'
  BY <1>1, <1>2, <1>3 DEF StitchInv, PlainOK
<1>7. ASSUME NEW s \in Sessions, Marked(s), start[s] \in Present, objects[start[s]] = s
      PROVE  Stitched(s, packager'.list)
  <2>1. Stitched(s, packager.list)
    BY <1>1, <1>7 DEF StitchInv, StitchOK
  <2> QED
    BY <1>2, <1>7, <2>1 DEF Stitched
<1> QED
  BY <1>1, <1>2, <1>5, <1>6, <1>7, WorkStitch

LEMMA CrashStitch ==
  ASSUME CrashesOK, StitchInv, PackagerCrashes
  PROVE  StitchInv'
<1>1. /\ packager'.pc = "idle" /\ crashes' = crashes + 1
      /\ UNCHANGED <<topic, stored, objects, start, local, seen, blind, unmarked>>
  BY DEF PackagerCrashes, Redelivered, Free, workerVars, history
<1>2. Listed' = Listed /\ Starts' = Starts
  BY <1>1 DEF Listed, Starts, OrEmpty
<1>3. GrownOK'
  BY <1>1, <1>2 DEF StitchInv, GrownOK
<1>4. StitchOK'
  <2>1. OrEmpty(stored)' = OrEmpty(stored) /\ Present' = Present
    BY <1>1 DEF OrEmpty, Present
  <2> QED
    BY <1>1, <1>2, <2>1 DEF StitchInv, StitchOK, Marked, Stitched
<1>5. PlainOK'
  BY <1>1 DEF PlainOK, CrashesOK
<1> QED
  BY <1>3, <1>4, <1>5 DEF StitchInv

\* The merge: the boundary of the event's session is in it from its first event on, and the
\* later session of two has the larger numbers.
LEMMA MergedStitched ==
  ASSUME ListInv, OrderInv, KnownInv, StitchInv, packager.pc = "download", topic # <<>>,
         NEW s \in Sessions, Marked(s), start[s] \in Present, objects[start[s]] = s,
         NEW p, p = Merge(OrEmpty(stored), packager.list, Event.disc)
  PROVE  Stitched(s, p)
<1>1. PICK h \in Sessions : h = Event.session
  BY HeadIs
<1>2. /\ p.segs = Listed \cup packager.list.segs
      /\ p.disc = OrEmpty(stored).disc \cup packager.list.disc
                    \cup (IF Event.disc THEN Boundary(OrEmpty(stored), packager.list) ELSE {})
  BY MergeIs DEF Listed
<1>3. \A n \in packager.list.segs : n \in Listed \/ (n \in Nat /\ start[h] <= n)
  BY <1>1 DEF StitchInv, GrownOK, Marked
<1>4. Listed \subseteq Segs /\ start[s] \in Nat /\ start[h] \in Nat
  BY OrEmptyIs DEF ListInv, Listed, Playlists, OrderInv, Typed
<1>5. start[s] \in Listed => start[s] \in OrEmpty(stored).disc \/ \A n \in Listed : start[s] <= n
  BY DEF StitchInv, StitchOK, Stitched, Listed
<1>6. s \notin blind /\ phase[s] \notin {"off", "list"}
  BY DEF Marked, OrderInv, SessionsOK, Sessions
<1>7. s = h \/ s < h
  <2>1. s <= h
    BY <1>1, <1>6, HeadIs DEF OrderInv, CountOK
  <2> QED
    BY <2>1 DEF Sessions
<1>8. CASE s = h
  <2>1. CASE start[s] \in Listed
    BY <1>2, <1>3, <1>5, <1>8, <2>1 DEF Stitched
  <2>2. CASE start[s] \notin Listed
    <3>1. seen[s] > 0
      BY <1>1, <1>8, HeadIs DEF OrderInv, Typed
    <3>2. PICK i \in 1 .. Len(topic) : topic[i].session = s /\ topic[i].disc
      BY <2>2, <3>1 DEF StitchInv, StitchOK
    <3>3. EventOK(topic[i])
      BY <3>2 DEF OrderInv, TopicOK
    <3>4. topic[i].seg = start[s]
      BY <3>2, <3>3 DEF EventOK
    <3>5. /\ Event = topic[1] /\ 1 \in 1 .. Len(topic) /\ Event.seg \in Nat
          /\ start[s] <= Event.seg
      BY <1>1, <1>8, HeadIs DEF Segs
    <3>6. ~(1 < i)
      <4>1. ASSUME 1 < i PROVE Event.seg < start[s]
        <5>1. \/ topic[1].session < topic[i].session
              \/ topic[1].seg < topic[i].seg
          BY <3>5, <4>1 DEF OrderInv, TopicOK
        <5>2. ~(topic[1].session < topic[i].session)
          BY <1>1, <1>8, <3>2, <3>5 DEF Sessions
        <5> QED
          BY <3>4, <3>5, <5>1, <5>2
      <4> QED
        BY <1>4, <3>5, <4>1
    <3>7. i = 1
      BY <3>6
    <3>8. Event.disc
      BY <3>2, <3>5, <3>7
    <3>9. start[s] \in packager.list.segs
      BY <1>1, <1>8 DEF KnownInv, KnownOK
    <3>10. CASE OrEmpty(stored).segs = {}
      BY <1>2, <1>3, <1>8, <3>10 DEF Stitched, Listed
    <3>11. CASE OrEmpty(stored).segs # {}
      <4>1. start[s] \in Boundary(OrEmpty(stored), packager.list)
        BY <1>3, <1>8, <2>2, <3>9, <3>11 DEF Boundary, Least, Listed
      <4> QED
        BY <1>2, <3>8, <4>1 DEF Stitched
    <3> QED
      BY <3>10, <3>11
  <2> QED
    BY <2>1, <2>2
<1>9. CASE s < h
  <2>1. h \notin blind
    BY <1>9 DEF Marked, Sessions
  <2>2. phase[h] \notin {"off", "list"}
    BY <1>1, HeadIs, Started DEF Unstarted
  <2>3. start[s] < start[h]
    BY <1>9, <2>1, <2>2 DEF OrderInv, CountOK
  <2>4. start[s] \in packager.list.segs => start[s] \in Listed
    BY <1>3, <1>4, <2>3
  <2>5. ASSUME \A n \in Listed : start[s] <= n, NEW n \in packager.list.segs
        PROVE  start[s] <= n
    BY <1>3, <1>4, <2>3, <2>5
  <2> QED
    BY <1>2, <1>5, <2>4, <2>5 DEF Stitched
<1> QED
  BY <1>7, <1>8, <1>9

\* Without crashes a boundary is asked for once, so it is the event's first segment.
LEMMA MergedPlain ==
  ASSUME ListInv, OrderInv, KnownInv, StitchInv, packager.pc = "download", topic # <<>>,
         crashes = 0, blind \cup unmarked = {},
         NEW p, p = Merge(OrEmpty(stored), packager.list, Event.disc)
  PROVE  p.disc \subseteq Starts
<1>1. PICK h \in Sessions : h = Event.session
  BY HeadIs
<1>2. /\ p.disc = OrEmpty(stored).disc \cup packager.list.disc
                    \cup (IF Event.disc THEN Boundary(OrEmpty(stored), packager.list) ELSE {})
      /\ OrEmpty(stored).disc \subseteq Starts /\ packager.list.disc \subseteq Starts
  BY MergeIs DEF StitchInv, PlainOK
<1>3. CASE ~Event.disc
  BY <1>2, <1>3
<1>4. CASE Event.disc
  <2>1. /\ Event = topic[1] /\ 1 \in 1 .. Len(topic) /\ EventOK(Event)
    BY HeadIs DEF OrderInv, TopicOK
  <2>2. start[h] > 0 /\ Event.seg = start[h] /\ Event.seg \notin Listed
    BY <1>1, <1>4, <2>1 DEF EventOK, StitchInv, PlainOK
  <2>3. /\ objects[start[h]] = h /\ start[h] \in Segs
        /\ start[h] \in Nat
    BY <1>1, <2>2, HeadIs DEF OrderInv, ClipsOK, Typed
  <2>4. start[h] \in packager.list.segs
    <3>1. start[h] \in Present
      BY <2>3 DEF Present, Sessions
    <3> QED
      BY <1>1, <2>3, <3>1 DEF KnownInv, KnownOK
  <2>5. \A n \in packager.list.segs \ Listed : n \in Nat /\ start[h] <= n
    BY <1>1 DEF StitchInv, GrownOK
  <2>6. Boundary(OrEmpty(stored), packager.list) \subseteq {start[h]}
    <3>1. ASSUME NEW n \in packager.list.segs \ Listed,
                 \A m \in packager.list.segs \ Listed : n <= m
          PROVE  n = start[h]
      BY <2>2, <2>3, <2>4, <2>5, <3>1
    <3> QED
      BY <3>1 DEF Boundary, Least, Listed
  <2>7. start[h] \in Starts
    BY <2>2 DEF Starts
  <2> QED
    BY <1>2, <2>6, <2>7
<1> QED
  BY <1>3, <1>4

LEMMA DownloadStitch ==
  ASSUME ListInv, OrderInv, KnownInv, StitchInv, Download
  PROVE  StitchInv'
<1>1. /\ packager.pc = "download" /\ topic # <<>>
      /\ UNCHANGED <<topic, stored, objects, start, local, seen, crashes, blind>>
  BY DEF Download, OnlyPackager, workerVars, ListInv, PackagerOK
<1>2. CASE unmarked' = Sessions
  <2>1. Event.session \in Sessions
    BY <1>1, HeadIs
  <2> QED
    BY <1>2, <2>1, NoneMarked
<1>3. CASE /\ Works("list", Merge(OrEmpty(stored), packager.list, Event.disc))
           /\ UNCHANGED unmarked
  <2>1. PICK p : p = Merge(OrEmpty(stored), packager.list, Event.disc)
    OBVIOUS
  <2>2. packager'.pc = "list" /\ packager'.list = p
    BY <1>3, <2>1 DEF Works
  <2>3. Listed' = Listed /\ Starts' = Starts /\ OrEmpty(stored)' = OrEmpty(stored)
    BY <1>1 DEF Listed, Starts, OrEmpty
  <2>4. GrownOK'
    <3>1. Listed \subseteq p.segs
      BY <2>1, MergeIs DEF Listed
    <3> QED
      BY <1>1, <1>3, <2>2, <2>3, <3>1 DEF StitchInv, GrownOK
  <2>5. PlainOK'
    <3>1. crashes = 0 /\ blind \cup unmarked = {} => p.disc \subseteq Starts
      BY <1>1, <2>1, MergedPlain
    <3> QED
      BY <1>1, <1>3, <2>2, <2>3, <3>1 DEF StitchInv, PlainOK
  <2>6. ASSUME NEW s \in Sessions, Marked(s), start[s] \in Present, objects[start[s]] = s
        PROVE  Stitched(s, p)
    BY <1>1, <2>1, <2>6, MergedStitched
  <2> QED
    BY <1>1, <1>3, <2>2, <2>4, <2>5, <2>6, WorkStitch
<1> QED
  BY <1>2, <1>3 DEF Download

\* What an event asked for is in the list that is put.
LEMMA AskedIsListed ==
  ASSUME ListInv, OrderInv, KnownInv, packager.pc = "put", Event.disc
  PROVE  start[Event.session] \in packager.list.segs
<1>1. topic # <<>>
  BY DEF ListInv, PackagerOK
<1>2. /\ Event = topic[1] /\ EventOK(topic[1]) /\ Event.session \in Sessions /\ Event.seg \in Segs
  BY <1>1, HeadIs DEF OrderInv, TopicOK
<1>3. Event.seg = start[Event.session] /\ objects[Event.seg] = Event.session
  BY <1>2 DEF EventOK, OrderInv, ClipsOK
<1>4. Event.seg \in Present
  BY <1>2, <1>3 DEF Present, Sessions
<1> QED
  BY <1>3, <1>4 DEF KnownInv, KnownOK

\* Later events are of segments that are not in the bucket.
LEMMA LaterIsNew ==
  ASSUME OrderInv, blind = {}, NEW i \in 1 .. Len(topic), 1 < i, topic[i].disc
  PROVE  topic[i].seg \notin Present
<1>1. SUFFICES ASSUME topic[i].seg \in Present PROVE FALSE
  OBVIOUS
<1>2. topic # <<>> /\ topic[i] \in Events
  BY DEF OrderInv, Typed
<1>3. PICK h \in Sessions, t \in Sessions, r \in Sessions :
        h = topic[1].session /\ t = topic[i].session /\ r = objects[topic[i].seg]
  BY <1>1, <1>2, HeadIs, PresentIs DEF OrderInv, Events
<1>4. EventOK(topic[i])
  BY DEF OrderInv, TopicOK
<1>5. topic[i].seg = start[t] /\ start[t] \in Nat /\ seen[t] # 0
  BY <1>3, <1>4 DEF EventOK, OrderInv, Typed
<1>6. 1 \in 1 .. Len(topic) /\ start[h] <= topic[1].seg /\ topic[1].seg \in Nat
  BY <1>2, <1>3, HeadIs DEF Segs
<1>7. r <= h
  BY <1>1, <1>3, <1>6 DEF OrderInv, ClipsOK
<1>8. h < t
  <2>1. h < t \/ (h = t /\ topic[1].seg < topic[i].seg)
    BY <1>3, <1>6 DEF OrderInv, TopicOK
  <2>2. ASSUME h = t, topic[1].seg < topic[i].seg PROVE FALSE
    BY <1>5, <1>6, <2>2
  <2> QED
    BY <2>1, <2>2
<1>9. r < t
  BY <1>7, <1>8 DEF Sessions
<1>10. phase[t] \notin {"off", "list"}
  BY <1>5, Started DEF Unstarted
<1>11. start[t] < start[t]
  BY <1>1, <1>3, <1>5, <1>9, <1>10 DEF OrderInv, CountOK
<1> QED
  BY <1>5, <1>11

LEMMA PutStitch ==
  ASSUME CrashesOK, ListInv, OrderInv, KnownInv, StitchInv, PutPlaylist
  PROVE  StitchInv'
<1>1. /\ packager.pc = "put" /\ packager'.pc = "idle" /\ stored' = packager.list /\ topic # <<>>
      /\ UNCHANGED <<objects, start, local, seen, blind, unmarked>>
      /\ \/ topic' = Tail(topic) /\ crashes' = crashes
         \/ topic' = topic /\ crashes' = crashes + 1
  BY DEF PutPlaylist, Finish, Redelivered, Free, workerVars, ListInv, PackagerOK
<1>2. OrEmpty(stored)' = packager.list /\ Listed' = packager.list.segs
  BY <1>1, NoneIsNoPlaylist DEF ListInv, PackagerOK, InBucket, Listed, OrEmpty
<1>3. Starts' = Starts /\ Present' = Present
  BY <1>1 DEF Starts, Present
<1>4. unmarked # Sessions => Listed \subseteq Listed'
  BY <1>1, <1>2 DEF StitchInv, GrownOK
<1>5. GrownOK'
  BY <1>1, <1>4 DEF StitchInv, GrownOK
<1>6. StitchOK'
  <2>1. ASSUME NEW s \in Sessions, Marked(s), start[s] \in Present, objects[start[s]] = s
        PROVE  Stitched(s, packager.list)
    BY <1>1, <2>1 DEF StitchInv, StitchOK
  <2>2. ASSUME NEW s \in Sessions, Marked(s), seen[s] > 0
        PROVE  \/ start[s] \in Listed'
               \/ \E i \in 1 .. Len(topic') : topic'[i].session = s /\ topic'[i].disc
    <3>1. \/ start[s] \in Listed
          \/ \E i \in 1 .. Len(topic) : topic[i].session = s /\ topic[i].disc
      BY <2>2 DEF StitchInv, StitchOK
    <3>2. CASE start[s] \in Listed
      BY <1>4, <2>2, <3>2 DEF Marked
    <3>3. ASSUME NEW i \in 1 .. Len(topic), topic[i].session = s, topic[i].disc
          PROVE  \/ start[s] \in Listed'
                 \/ \E j \in 1 .. Len(topic') : topic'[j].session = s /\ topic'[j].disc
      <4>1. CASE i = 1
        <5>1. Event.session = s /\ Event.disc
          BY <1>1, <3>3, <4>1, HeadIs
        <5> QED
          BY <1>1, <1>2, <5>1, AskedIsListed
      <4>2. CASE i # 1 /\ topic' = Tail(topic)
        <5>1. i - 1 \in 1 .. Len(topic') /\ topic'[i - 1] = topic[i]
          BY <1>1, <4>2, TailIs
        <5> QED
          BY <3>3, <5>1
      <4>3. CASE topic' = topic
        BY <3>3, <4>3
      <4> QED
        BY <1>1, <4>1, <4>2, <4>3
    <3> QED
      BY <3>1, <3>2, <3>3
  <2>3. ASSUME NEW s \in Sessions, Marked(s)' PROVE Marked(s)
    BY <1>1, <2>3 DEF Marked
  <2>4. ASSUME NEW s \in Sessions, Stitched(s, packager.list) PROVE Stitched(s, OrEmpty(stored))'
    BY <1>1, <1>2, <2>4 DEF Stitched
  <2> QED
    BY <1>1, <1>3, <2>1, <2>2, <2>3, <2>4 DEF StitchOK
<1>7. PlainOK'
  <2>1. SUFFICES ASSUME crashes' = 0, blind \cup unmarked = {} PROVE PlainOK'
    BY <1>1 DEF PlainOK
  <2>2. crashes = 0 /\ topic' = Tail(topic) /\ blind = {}
    BY <1>1, <2>1 DEF CrashesOK
  <2>3. ASSUME NEW i \in 1 .. Len(topic'), topic'[i].disc PROVE topic'[i].seg \notin Listed'
    <3>1. i + 1 \in 1 .. Len(topic) /\ topic'[i] = topic[i + 1] /\ 1 < i + 1
      BY <1>1, <2>2, TailIs
    <3>2. topic'[i].seg \notin Present
      BY <2>2, <2>3, <3>1, LaterIsNew
    <3> QED
      BY <1>1, <1>2, <3>2 DEF ListInv, PackagerOK, InBucket
  <2>4. packager.list.disc \subseteq Starts /\ \A s \in Sessions : local[s].disc \subseteq Starts
    BY <1>1, <2>1, <2>2 DEF StitchInv, PlainOK
  <2> QED
    BY <1>1, <1>2, <1>3, <2>3, <2>4 DEF PlainOK
<1> QED
  BY <1>5, <1>6, <1>7 DEF StitchInv

LEMMA GiveUpStitch ==
  ASSUME OrderInv, StitchInv, topic # <<>>, GiveUp, UNCHANGED objects
  PROVE  StitchInv'
<1>1. /\ packager'.pc = "idle" /\ topic' = Tail(topic)
      /\ UNCHANGED <<stored, start, local, seen, crashes, blind>>
      /\ unmarked' = IF Event.disc THEN unmarked \cup {Event.session} ELSE unmarked
  BY DEF GiveUp, Finish, Free, OnlyPackager, workerVars
<1>2. PICK h \in Sessions : h = Event.session /\ Event = topic[1]
  BY HeadIs
<1>3. /\ unmarked \subseteq unmarked' /\ (unmarked = Sessions => unmarked' = Sessions)
      /\ Event.disc => h \in unmarked'
  BY <1>1, <1>2
<1>4. /\ OrEmpty(stored)' = OrEmpty(stored) /\ Listed' = Listed
      /\ Starts' = Starts /\ Present' = Present
  BY <1>1 DEF OrEmpty, Listed, Starts, Present
<1>5. GrownOK'
  BY <1>1, <1>3, <1>4 DEF StitchInv, GrownOK
<1>6. StitchOK'
  <2>1. ASSUME NEW s \in Sessions, Marked(s)' PROVE Marked(s) /\ s \notin unmarked'
    BY <1>1, <1>3, <2>1 DEF Marked
  <2>2. ASSUME NEW s \in Sessions, Marked(s), s \notin unmarked', seen[s] > 0
        PROVE  \/ start[s] \in Listed
               \/ \E i \in 1 .. Len(topic') : topic'[i].session = s /\ topic'[i].disc
    <3>1. \/ start[s] \in Listed
          \/ \E i \in 1 .. Len(topic) : topic[i].session = s /\ topic[i].disc
      BY <2>2 DEF StitchInv, StitchOK
    <3>2. ASSUME NEW i \in 1 .. Len(topic), topic[i].session = s, topic[i].disc
          PROVE  \E j \in 1 .. Len(topic') : topic'[j].session = s /\ topic'[j].disc
      <4>1. i # 1
        BY <1>2, <1>3, <2>2, <3>2
      <4>2. i - 1 \in 1 .. Len(topic') /\ topic'[i - 1] = topic[i]
        BY <1>1, <4>1, TailIs
      <4> QED
        BY <3>2, <4>2
    <3> QED
      BY <3>1, <3>2
  <2> QED
    BY <1>1, <1>4, <2>1, <2>2 DEF StitchInv, StitchOK, Stitched
<1>7. PlainOK'
  <2>1. \A i \in 1 .. Len(topic') : i + 1 \in 1 .. Len(topic) /\ topic'[i] = topic[i + 1]
    BY <1>1, TailIs
  <2> QED
    BY <1>1, <1>3, <1>4, <2>1 DEF StitchInv, PlainOK
<1> QED
  BY <1>5, <1>6, <1>7 DEF StitchInv

LEMMA NextStitch ==
  ASSUME CrashesOK, ListInv, OrderInv, KnownInv, StitchInv, [PlaylistNext]_playlistVars
  PROVE  StitchInv'
<1>1. CASE FilesGone \/ PackagerFails
  <2>1. GiveUp /\ UNCHANGED objects /\ topic # <<>>
    BY <1>1 DEF FilesGone, PackagerFails, ListInv, PackagerOK
  <2> QED
    BY <2>1, GiveUpStitch
<1>2. CASE UNCHANGED playlistVars
  <2>1. OrEmpty(stored)' = OrEmpty(stored)
    BY <1>2 DEF playlistVars, OrEmpty
  <2> QED
    BY <1>2, <2>1, StitchFrame DEF playlistVars, workerVars, history
<1> QED
  BY <1>1, <1>2, SessionStitch, UploadStitch, ReadStitch, DownloadStitch, ListStitch, PutStitch,
     CrashStitch DEF PlaylistNext, PackagerStep

LEMMA NextCrashes == CrashesOK /\ [PlaylistNext]_playlistVars => CrashesOK'
<1> SUFFICES ASSUME CrashesOK, [PlaylistNext]_playlistVars PROVE CrashesOK'
  OBVIOUS
<1>1. crashes' \in {crashes, crashes + 1}
  BY DEF PlaylistNext, SessionStep, PackagerStep, playlistVars, OnlySession, Connect, CountSegments, Seed,
         WriteSegment, Announce, FfmpegEnds, StopSession, RemoveDir, FinalizeGet, FinalizePut,
         UploadSegment, ReadLocal, FilesGone, GiveUp, Download, ListSegments, PutPlaylist,
         PackagerFails, PackagerCrashes, OnlyPackager, Redelivered
<1> QED
  BY <1>1 DEF CrashesOK

\* Where the clips of two sessions meet there is a discontinuity, and nowhere else: the
\* first event of a reconnected session asks for it, its merge puts it before the first
\* name that is new (mergeHlsPlaylists), and later merges keep it.
THEOREM ClipsAreStitchedHolds == PlaylistSpec => []ClipsAreStitched
<1>1. ListInv /\ OrderInv /\ StitchInv => ClipsAreStitched
  <2>1. SUFFICES ASSUME ListInv, OrderInv, StitchInv, stored # None PROVE ClipsAreStitched
    BY DEF ClipsAreStitched
  <2>2. stored \in Playlists /\ stored.segs \subseteq Present /\ OrEmpty(stored) = stored
    BY <2>1 DEF ListInv, StoredOK, InBucket, OrEmpty
  <2>3. ASSUME NEW s \in Sessions \ unmarked, \A t \in blind : t < s, start[s] \in stored.segs,
               objects[start[s]] = s, NEW n \in stored.segs, n < start[s]
        PROVE  start[s] \in stored.disc
    <3>1. start[s] \in Nat /\ n \in Nat
      BY <2>1, <2>2 DEF OrderInv, Typed, Playlists, Segs
    <3>2. start[s] > 0 /\ ~(start[s] <= n)
      BY <2>3, <3>1
    <3>3. Stitched(s, stored)
      BY <2>1, <2>2, <2>3, <3>2 DEF StitchInv, StitchOK, Marked
    <3> QED
      BY <2>3, <3>2, <3>3 DEF Stitched
  <2>4. crashes = 0 /\ blind \cup unmarked = {} => stored.disc \subseteq {start[s] : s \in Sessions}
    <3>1. Starts \subseteq {start[s] : s \in Sessions}
      BY DEF Starts
    <3> QED
      BY <2>1, <2>2, <3>1 DEF StitchInv, PlainOK
  <2> QED
    BY <2>3, <2>4 DEF ClipsAreStitched
<1>2. ListInv /\ SealInv /\ OrderInv /\ KnownInv /\ CrashesOK /\ StitchInv /\ [PlaylistNext]_playlistVars =>
        (ListInv /\ SealInv)' /\ OrderInv' /\ KnownInv' /\ CrashesOK' /\ StitchInv'
  BY NextInv, NextOrder, NextKnown, NextCrashes, NextStitch
<1>3. PlaylistInit => CrashesOK
  BY DEF PlaylistInit, CrashesOK
<1> QED
  BY <1>1, <1>2, <1>3, InitInv, OrderInit, KnownInit, StitchInit, PTL DEF PlaylistSpec

----------------------------------------------------------------------------
(* The types of the recording.                                             *)

ListsTyped ==
  /\ start \in [Sessions -> Segs]
  /\ local \in [Sessions -> Playlists]
  /\ packager \in [pc : {"idle", "read", "download", "list", "put"}, list : Playlists]
BoundsTyped == failures \in 0 .. MaxFailures /\ crashes \in 0 .. MaxCrashes
NotesTyped ==
  /\ gone \subseteq Sessions /\ blind \subseteq Sessions
  /\ unlisted \subseteq Sessions /\ unmarked \subseteq Sessions
  /\ sealed \in BOOLEAN

RecordingTyped == ListsTyped /\ BoundsTyped /\ NotesTyped

----------------------------------------------------------------------------
\* What is made of playlists is a playlist.
LEMMA MergeTyped ==
  ASSUME NEW old \in Playlists, NEW new \in Playlists, NEW disc
  PROVE  Merge(old, new, disc) \in Playlists
<1>1. Boundary(old, new) \subseteq Segs
  BY DEF Boundary, Least, Playlists
<1> QED
  BY <1>1 DEF Merge, Playlists

LEMMA FilteredTyped ==
  ASSUME NEW p \in Playlists
  PROVE  Filtered(p) \in Playlists
BY DEF Filtered, Playlists

LEMMA SeededTyped ==
  ASSUME StoredOK
  PROVE  [OrEmpty(stored) EXCEPT !.end = FALSE] \in Playlists
BY OrEmptyIs DEF Playlists

LEMMA BoundsStay ==
  ASSUME BoundsTyped, UNCHANGED failures \/ Fails,
         UNCHANGED crashes \/ (crashes < MaxCrashes /\ crashes' = crashes + 1)
  PROVE  BoundsTyped'
BY PlaylistAssumption DEF BoundsTyped, Fails

\* A step of a session.
LEMMA SessionTypes ==
  ASSUME ListInv, OrderInv, RecordingTyped, NEW s \in Sessions, SessionStep(s)
  PROVE  RecordingTyped'
<1> USE DEF RecordingTyped
<1>1. UNCHANGED <<packager, crashes>> /\ (UNCHANGED failures \/ Fails)
  BY DEF SessionStep, Connect, CountSegments, Seed, WriteSegment, Announce, FfmpegEnds, StopSession,
         RemoveDir, FinalizeGet, FinalizePut, OnlySession
<1>2. BoundsTyped'
  BY <1>1, BoundsStay
<1>3. NotesTyped'
  <2>1. gone' \in {gone, gone \cup {s}} /\ blind' \in {blind, blind \cup {s}}
    BY DEF SessionStep, Connect, CountSegments, Seed, WriteSegment, Announce, FfmpegEnds, StopSession,
           RemoveDir, FinalizeGet, FinalizePut, history
  <2>2. unlisted' \in {unlisted, Sessions} /\ unmarked' \in {unmarked, unmarked \cup {s}, Sessions}
    BY DEF SessionStep, Connect, CountSegments, Seed, WriteSegment, Announce, FfmpegEnds, StopSession,
           RemoveDir, FinalizeGet, FinalizePut, history
  <2>3. sealed' \in BOOLEAN
    <3>1. CASE FinalizePut(s)
      BY <3>1 DEF FinalizePut, NotesTyped
    <3>2. CASE UNCHANGED sealed
      BY <3>2 DEF NotesTyped
    <3> QED
      BY <3>1, <3>2 DEF SessionStep, Connect, CountSegments, Seed, WriteSegment, Announce, FfmpegEnds,
           StopSession, RemoveDir, FinalizeGet, history
  <2> QED
    BY <2>1, <2>2, <2>3 DEF NotesTyped
<1>4. start' \in [Sessions -> Segs]
  <2>1. CASE CountSegments(s)
    <3>1. NextNumber \in Segs /\ 0 \in Segs
      BY NextIsNew, PlaylistAssumption DEF OrderInv, Segs
    <3> QED
      BY <2>1, <3>1 DEF CountSegments, ListsTyped
  <2>2. CASE UNCHANGED start
    BY <2>2 DEF ListsTyped
  <2> QED
    BY <2>1, <2>2 DEF SessionStep, Connect, Seed, WriteSegment, Announce, FfmpegEnds, StopSession,
                      RemoveDir, FinalizeGet, FinalizePut
<1>5. local' \in [Sessions -> Playlists]
  <2>1. CASE Seed(s)
    <3>1. PICK p \in Playlists : local' = [local EXCEPT ![s] = p] \/ local' = local
      BY <2>1, EmptyLike, SeededTyped DEF Seed, ListInv
    <3> QED
      BY <3>1 DEF ListsTyped
  <2>2. CASE WriteSegment(s)
    <3>1. PICK n \in Segs : local' = [local EXCEPT ![s].segs = @ \cup {n}]
      <4>1. start[s] \in Nat /\ made[s] \in Nat /\ MaxSegments \in Nat
        BY PlaylistAssumption DEF OrderInv, Typed
      <4>2. start[s] + made[s] \in Segs
        <5>1. start[s] + made[s] < MaxSegments
          BY <2>2, Zenon DEF WriteSegment
        <5>2. PICK a \in Nat, b \in Nat : a = start[s] /\ b = made[s]
          BY <4>1
        <5> QED
          BY <4>1, <5>1, <5>2 DEF Segs
      <4> QED
        BY <2>2, <4>2 DEF WriteSegment
    <3>2. PICK p \in Playlists : p = local[s]
      BY DEF ListsTyped
    <3>3. [p EXCEPT !.segs = p.segs \cup {n}] \in Playlists
      BY DEF Playlists
    <3>4. local' = [local EXCEPT ![s] = [p EXCEPT !.segs = p.segs \cup {n}]]
      BY <3>1, <3>2 DEF ListsTyped
    <3> QED
      BY <3>3, <3>4 DEF ListsTyped
  <2>3. CASE UNCHANGED local
    BY <2>3 DEF ListsTyped
  <2> QED
    BY <2>1, <2>2, <2>3 DEF SessionStep, Connect, CountSegments, Announce, FfmpegEnds, StopSession,
                            RemoveDir, FinalizeGet, FinalizePut
<1> QED
  BY <1>1, <1>2, <1>3, <1>4, <1>5 DEF ListsTyped

\* A step of hls-packager.
LEMMA PackagerTypes ==
  ASSUME ListInv, RecordingTyped, PackagerStep \/ PackagerCrashes
  PROVE  RecordingTyped'
<1> USE DEF RecordingTyped
<1> DEFINE Pcs == {"idle", "read", "download", "list", "put"}
<1>1. topic # <<>> /\ Event.session \in Sessions
  BY HeadEvent DEF PackagerStep, PackagerCrashes, UploadSegment, ReadLocal, FilesGone, Download,
       ListSegments, PutPlaylist, PackagerFails, ListInv, PackagerOK
<1>2. /\ UNCHANGED <<start, local, gone, blind>> /\ (UNCHANGED failures \/ Fails)
      /\ UNCHANGED crashes \/ (crashes < MaxCrashes /\ crashes' = crashes + 1)
  BY DEF PackagerStep, PackagerCrashes, UploadSegment, ReadLocal, FilesGone, Download, ListSegments,
         PutPlaylist, PackagerFails, GiveUp, OnlyPackager, Redelivered, workerVars, history
<1>3. BoundsTyped'
  BY <1>2, BoundsStay
<1>4. /\ unlisted' \in {unlisted, Sessions, unlisted \ {Event.session}, unlisted \cup {Event.session}}
      /\ unmarked' \in {unmarked, Sessions, unmarked \cup {Event.session}}
      /\ sealed' \in {sealed, FALSE}
  BY DEF PackagerStep, PackagerCrashes, UploadSegment, ReadLocal, FilesGone, Download, ListSegments,
         PutPlaylist, PackagerFails, GiveUp, OnlyPackager, Redelivered, history
<1>5. NotesTyped'
  BY <1>1, <1>2, <1>4 DEF NotesTyped
<1>6. \E pc \in Pcs, p \in Playlists : packager' = [pc |-> pc, list |-> p]
  <2>1. /\ packager.list \in Playlists /\ Empty \in Playlists /\ OrEmpty(stored) \in Playlists
        /\ local[Event.session] \in Playlists
    BY <1>1, EmptyLike, OrEmptyIs DEF ListsTyped, ListInv
  <2>2. /\ Filtered(packager.list) \in Playlists
        /\ Merge(OrEmpty(stored), packager.list, Event.disc) \in Playlists
        /\ Merge(Empty, packager.list, Event.disc) \in Playlists
    BY <2>1, FilteredTyped, MergeTyped
  <2>3. CASE packager' = Free
    BY <2>1, <2>3 DEF Free
  <2>4. CASE \/ Works("read", Empty) \/ Works("download", local[Event.session])
             \/ Works("list", Merge(OrEmpty(stored), packager.list, Event.disc))
             \/ Works("list", Merge(Empty, packager.list, Event.disc))
             \/ Works("put", Filtered(packager.list))
    BY <2>1, <2>2, <2>4 DEF Works
  <2> QED
    BY <2>3, <2>4 DEF PackagerStep, PackagerCrashes, UploadSegment, ReadLocal, FilesGone, Download,
                      ListSegments, PutPlaylist, PackagerFails, GiveUp, Finish, Redelivered
<1>7. ListsTyped'
  BY <1>2, <1>6 DEF ListsTyped
<1> QED
  BY <1>3, <1>5, <1>7

LEMMA RecordingTypesNext ==
  ASSUME ListInv, OrderInv, RecordingTyped, [PlaylistNext]_playlistVars
  PROVE  RecordingTyped'
<1>1. CASE UNCHANGED playlistVars
  BY <1>1 DEF playlistVars, workerVars, history, RecordingTyped, ListsTyped, BoundsTyped, NotesTyped
<1> QED
  BY <1>1, SessionTypes, PackagerTypes DEF PlaylistNext

LEMMA RecordingTypesInit == PlaylistInit => RecordingTyped
<1> SUFFICES ASSUME PlaylistInit PROVE RecordingTyped
  OBVIOUS
<1>1. 0 \in Segs /\ 0 \in 0 .. MaxFailures /\ 0 \in 0 .. MaxCrashes
  BY PlaylistAssumption DEF Segs
<1>2. ListsTyped
  BY <1>1, EmptyLike DEF PlaylistInit, ListsTyped, Free
<1> QED
  BY <1>1, <1>2 DEF PlaylistInit, RecordingTyped, BoundsTyped, NotesTyped

\* The numbers of the sessions' segments, and of the events about them, are within the bound.
LEMMA NumbersTyped ==
  ASSUME OrderInv
  PROVE  /\ made \in [Sessions -> 0 .. MaxSegments] /\ \A s \in Sessions : seen[s] \in 0 .. made[s]
         /\ topic \in Seq([session : Sessions, seg : Segs, disc : BOOLEAN])
         /\ objects \in [Segs -> 0 .. MaxSessions]
<1> DEFINE E == [session : Sessions, seg : Segs, disc : BOOLEAN]
<1>1. MaxSegments \in Nat /\ MaxSessions \in Nat
  BY PlaylistAssumption
<1>2. ASSUME NEW s \in Sessions PROVE made[s] \in 0 .. MaxSegments /\ seen[s] \in 0 .. made[s]
  <2>1. PICK a \in Nat, b \in Nat, c \in Nat : a = start[s] /\ b = seen[s] /\ c = made[s]
    BY DEF OrderInv, Typed
  <2>2. b <= c /\ (c # 0 => a + c <= MaxSegments)
    BY <2>1 DEF OrderInv, SessionsOK
  <2> QED
    BY <1>1, <2>1, <2>2
<1>3. made \in [Sessions -> 0 .. MaxSegments]
  BY <1>2 DEF OrderInv, Typed
<1>4. topic \in Seq(E)
  <2>1. topic \in Seq(Events) /\ Len(topic) \in Nat
    BY DEF OrderInv, Typed
  <2>2. ASSUME NEW i \in 1 .. Len(topic) PROVE topic[i] \in E
    <3>1. topic[i] \in Events
      BY <2>1
    <3>2. PICK s \in Sessions : s = topic[i].session
      BY <3>1 DEF Events
    <3>3. PICK a \in Nat, b \in Nat, c \in Nat : a = start[s] /\ b = seen[s] /\ c = made[s]
      BY DEF OrderInv, Typed
    <3>4. topic[i].seg \in Nat /\ a <= topic[i].seg /\ topic[i].seg < a + b /\ b <= c /\ (c # 0 => a + c <= MaxSegments)
      BY <3>1, <3>2, <3>3 DEF Events, OrderInv, TopicOK, EventOK, SessionsOK
    <3>5. topic[i].seg \in Segs
      <4>1. c # 0 /\ topic[i].seg < a + c
        BY <3>4
      <4> QED
        BY <1>1, <3>3, <3>4, <4>1 DEF Segs
    <3> QED
      BY <3>1, <3>5 DEF Events
  <2>3. topic \in [1 .. Len(topic) -> E]
    BY <2>1, <2>2
  <2> QED
    <3> HIDE DEF E
    <3>1. topic \in UNION {[1 .. n -> E] : n \in Nat}
      BY <2>1, <2>3
    <3> QED
      BY <3>1, SeqDef, Zenon
<1>5. objects \in [Segs -> 0 .. MaxSessions]
  <2>1. Sessions \cup {0} \subseteq 0 .. MaxSessions
    BY <1>1 DEF Sessions
  <2> QED
    BY <2>1 DEF OrderInv, Typed
<1> QED
  BY <1>2, <1>3, <1>4, <1>5

\* Every variable of the recording keeps its type: segments, events and clips are numbered within
\* the bound, nothing is announced that was not written, and whatever hls-packager, a finalize
\* pass and the bucket hold is a playlist.
THEOREM PlaylistTypeCorrect == PlaylistSpec => []PlaylistTypeOK
<1>1. ListInv /\ OrderInv /\ RecordingTyped => PlaylistTypeOK
  <2> SUFFICES ASSUME ListInv, OrderInv, RecordingTyped PROVE PlaylistTypeOK
    OBVIOUS
  <2>1. stored \in Playlists \cup {None}
    BY DEF ListInv, StoredOK, InBucket
  <2>2. held \in [Sessions -> Playlists]
    BY DEF ListInv, HeldOK, InBucket
  <2>3. phase \in [Sessions -> Phases]
    BY DEF OrderInv, Typed
  <2> QED
    BY <2>1, <2>2, <2>3, NumbersTyped DEF RecordingTyped, ListsTyped, BoundsTyped, NotesTyped, PlaylistTypeOK
<1>2. PlaylistInit => ListInv /\ SealInv /\ OrderInv /\ RecordingTyped
  BY InitInv, OrderInit, RecordingTypesInit
<1>3. (ListInv /\ SealInv /\ OrderInv /\ RecordingTyped) /\ [PlaylistNext]_playlistVars
        => (ListInv /\ SealInv /\ OrderInv /\ RecordingTyped)'
  BY NextInv, NextOrder, RecordingTypesNext
<1> QED
  BY <1>1, <1>2, <1>3, PTL DEF PlaylistSpec

----------------------------------------------------------------------------
(* The player and the ladder.                                              *)

\* A run of the effect that is not cancelled is of what is selected now.
RunsOK == \A i \in importing : ~i.cancelled => open /\ i.url = ActiveUrl

\* The inductive invariant of the player.
PlayInv == RunsOK /\ PlaysWhatIsSelected

\* What the two predicates depend on.
PlayVars == <<studio, open, page, selected, importing, hls>>

----------------------------------------------------------------------------

\* The cleanup leaves cancelled runs only.
LEMMA CancelledRuns == \A i \in Cancelled : i.cancelled
BY DEF Cancelled

\* The effect starts again with what is selected then.
LEMMA RestartInv ==
  ASSUME PlayInv, NEW url, Restart(url), open', url = ActiveUrl'
  PROVE  PlayInv'
<1>1. RunsOK'
  BY CancelledRuns DEF Restart, RunsOK
<1>2. PlaysWhatIsSelected'
  BY DEF Restart, PlaysWhatIsSelected
<1> QED
  BY <1>1, <1>2 DEF PlayInv

LEMMA SamePlayer == PlayInv /\ UNCHANGED PlayVars => PlayInv'
BY DEF PlayInv, PlayVars, RunsOK, PlaysWhatIsSelected, ActiveUrl, Url, ViewerUrl, StudioUrl

\* The page mounts the player, takes it away, or is told something else.
LEMMA MountInv ==
  ASSUME PlayInv, NEW told, Mount(told)
  PROVE  PlayInv'
<1>1. Restart(IF studio THEN StudioUrl(told, AutoRung) ELSE ViewerUrl(told, AutoRung))
  BY DEF Mount, ViewerRun, StudioRun
<1>2. (IF studio THEN StudioUrl(told, AutoRung) ELSE ViewerUrl(told, AutoRung)) = ActiveUrl'
  BY DEF Mount, ActiveUrl, Url, StudioUrl, ViewerUrl
<1> QED
  BY <1>1, <1>2, RestartInv DEF Mount

LEMMA ToldInv ==
  ASSUME PlayInv, NEW told, Told(told)
  PROVE  PlayInv'
<1>1. Restart(IF studio THEN StudioUrl(told, selected) ELSE ViewerUrl(told, selected))
  BY DEF Told, ViewerTold, StudioTold, ViewerRun, StudioRun
<1>2. (IF studio THEN StudioUrl(told, selected) ELSE ViewerUrl(told, selected)) = ActiveUrl'
  BY DEF Told, ActiveUrl, Url, StudioUrl, ViewerUrl
<1> QED
  BY <1>1, <1>2, RestartInv DEF Told

LEMMA UnmountInv ==
  ASSUME PlayInv, Unmount
  PROVE  PlayInv'
<1>1. RunsOK'
  BY CancelledRuns DEF Unmount, Cleanup, RunsOK
<1>2. PlaysWhatIsSelected'
  BY DEF Unmount, Cleanup, PlaysWhatIsSelected
<1> QED
  BY <1>1, <1>2 DEF PlayInv

\* The quality menus.
LEMMA PicksInv ==
  ASSUME PlayInv, NEW q, ViewerPicks(q) \/ StudioPicks(q)
  PROVE  PlayInv'
<1>1. open' /\ Restart(IF studio THEN StudioUrl(page, q) ELSE ViewerUrl(page, q))
  BY DEF ViewerPicks, StudioPicks, Picked, ViewerRun, StudioRun
<1>2. (IF studio THEN StudioUrl(page, q) ELSE ViewerUrl(page, q)) = ActiveUrl'
  BY DEF ViewerPicks, StudioPicks, Picked, ActiveUrl, Url, StudioUrl, ViewerUrl
<1> QED
  BY <1>1, <1>2, RestartInv

\* hls.js is there: for a run that was cancelled it is too late.
LEMMA ImportedInv ==
  ASSUME PlayInv, NEW i, Imported(i)
  PROVE  PlayInv'
<1>1. ActiveUrl' = ActiveUrl /\ open' = open
  BY DEF Imported, NoOtherPage, ActiveUrl, Url, StudioUrl, ViewerUrl
<1>2. RunsOK'
  BY <1>1 DEF Imported, PlayInv, RunsOK
<1>3. PlaysWhatIsSelected'
  BY <1>1 DEF Imported, Wanted, PlayInv, RunsOK, PlaysWhatIsSelected
<1> QED
  BY <1>2, <1>3 DEF PlayInv

\* A missing rung: the viewer's player goes back to AutoRung.
LEMMA NetworkErrorInv ==
  ASSUME PlayInv, NEW url, ViewerNetworkError(url) \/ StudioNetworkError(url)
  PROVE  PlayInv'
<1>1. url \in hls /\ NoOtherPage
  BY DEF ViewerNetworkError, StudioNetworkError, NetworkError
<1>2. CASE ViewerNetworkError(url) /\ FallsBack
  <2>1. Restart(ViewerUrl(page, AutoRung)) /\ ~studio /\ selected' = AutoRung
    BY <1>2 DEF ViewerNetworkError, ViewerRun
  <2>2. ViewerUrl(page, AutoRung) = ActiveUrl'
    BY <1>1, <2>1 DEF NoOtherPage, ActiveUrl, Url, ViewerUrl
  <2>3. open'
    BY <1>1 DEF NoOtherPage, PlayInv, PlaysWhatIsSelected
  <2> QED
    BY <2>1, <2>2, <2>3, RestartInv
<1>3. CASE ~(ViewerNetworkError(url) /\ FallsBack)
  <2>1. LoadAgain
    BY <1>3 DEF ViewerNetworkError, StudioNetworkError
  <2> QED
    BY <1>1, <2>1, SamePlayer DEF LoadAgain, NoOtherPage, PlayVars
<1> QED
  BY <1>2, <1>3

\* An instance is destroyed, by an error or by a forced refresh.
LEMMA DestroyedInv ==
  ASSUME PlayInv, hls' \in SUBSET hls, UNCHANGED <<studio, open, page, selected, importing>>
  PROVE  PlayInv'
<1>1. ActiveUrl' = ActiveUrl
  BY DEF ActiveUrl, Url, StudioUrl, ViewerUrl
<1> QED
  BY <1>1 DEF PlayInv, RunsOK, PlaysWhatIsSelected

----------------------------------------------------------------------------
LEMMA PlayerInv ==
  ASSUME PlayInv, PlayerNext
  PROVE  PlayInv'
<1>1. CASE Unmount
  BY <1>1, UnmountInv
<1>2. CASE Retry
  BY <1>2, SamePlayer DEF Retry, NoOtherPage, PlayVars
<1>3. CASE ForceRefresh
  BY <1>3, DestroyedInv DEF ForceRefresh, NoOtherPage
<1>4. CASE \E q \in page.menu \cup {AutoRung} : ViewerPicks(q) \/ StudioPicks(q)
  BY <1>4, PicksInv
<1>5. CASE \E i \in importing : ViewerImported(i) \/ StudioImported(i)
  BY <1>5, ImportedInv DEF ViewerImported, StudioImported
<1>6. CASE \E t \in timers : ViewerGivesUp(t) \/ StudioGivesUp(t)
  BY <1>6, SamePlayer DEF ViewerGivesUp, StudioGivesUp, Fires, NoOtherPage, PlayVars
<1>7. ASSUME NEW url \in hls,
             \/ ViewerReady(url) \/ ViewerNetworkError(url) \/ ViewerBroken(url)
             \/ StudioReady(url) \/ StudioNetworkError(url) \/ StudioBroken(url)
      PROVE  PlayInv'
  <2>1. CASE ViewerReady(url) \/ StudioReady(url)
    BY <2>1, SamePlayer DEF ViewerReady, StudioReady, MarkReady, NoOtherPage, PlayVars
  <2>2. CASE ViewerNetworkError(url) \/ StudioNetworkError(url)
    BY <2>2, NetworkErrorInv
  <2>3. CASE ViewerBroken(url) \/ StudioBroken(url)
    BY <2>3, DestroyedInv DEF ViewerBroken, StudioBroken, Broken, NoOtherPage
  <2> QED
    BY <1>7, <2>1, <2>2, <2>3
<1> QED
  BY <1>1, <1>2, <1>3, <1>4, <1>5, <1>6, <1>7 DEF PlayerNext

\* The steps that are not the player's.
LEMMA OthersLeavePlayer ==
  ASSUME \/ ChangePlan \/ Entitlements \/ Submit \/ Bootstrap \/ NewKey \/ Disconnect \/ PackageMaster
         \/ \E q \in 1 .. Top : Toggle(q) \/ Package(q)
         \/ \E k \in Keys : RevokeKey(k) \/ Publish(k) \/ CacheExpires(k)
         \/ UNCHANGED vars
  PROVE  UNCHANGED playerState
BY DEF ChangePlan, Entitlements, Submit, Bootstrap, NewKey, Disconnect, PackageMaster, Toggle,
       Package, RevokeKey, Publish, CacheExpires, vars, playerVars

LEMMA PlayInvStep == PlayInv /\ [Next]_vars => PlayInv'
<1> SUFFICES ASSUME PlayInv, [Next]_vars PROVE PlayInv'
  OBVIOUS
<1>1. CASE Visit
  BY <1>1, MountInv DEF Visit
<1>2. CASE Poll
  BY <1>2, ToldInv DEF Poll
<1>3. CASE PlayerNext
  BY <1>3, PlayerInv
<1>4. CASE UNCHANGED playerState
  BY <1>4, SamePlayer DEF playerState, run, PlayVars
<1> QED
  BY <1>1, <1>2, <1>3, <1>4, OthersLeavePlayer DEF Next

\* However quality changes, polls, imports of hls.js and unmounts overlap, at most one
\* instance is left, it plays what is selected, and none outlives the player.
THEOREM PlaysWhatIsSelectedHolds == Spec => []PlaysWhatIsSelected
<1>1. Init => PlayInv
  BY DEF Init, PlayerInit, PlayInv, RunsOK, PlaysWhatIsSelected
<1>2. PlayInv => PlaysWhatIsSelected
  BY DEF PlayInv
<1> QED
  BY <1>1, <1>2, PlayInvStep, PTL DEF Spec
----------------------------------------------------------------------------
(* What is offered is encoded.                                             *)

Validated == [rungs : SUBSET (1 .. Top), plan : Plans]

\* Before there is a stream there is no key, no broadcast and no page to watch it on.
BeforeStream ==
  keys = 0 =>
    /\ ~open /\ onAir = OffAir
    /\ qualities = {} /\ valid = {} /\ \A k \in Keys : cache[k] = Unknown

\* The wizard's selection; until it knows the plan it is within FREE's ladder.
WizardOK ==
  /\ offered = {} => chosen \subseteq 1 .. FreeTop /\ ~refused
  /\ ~moved => chosen \subseteq Allowed(plan) /\ Offered \subseteq Allowed(plan) /\ ~refused

\* A ladder that was validated under plan p, and is still what validation answers while the
\* plan has not changed.
Permitted(rungs, p) == rungs # {} /\ rungs \subseteq Allowed(p) /\ (~moved => rungs = Clamped)

StreamOK ==
  /\ qualities \subseteq 1 .. Top
  /\ ~moved => qualities \subseteq Allowed(plan)
  /\ open /\ ~studio => page.menu = ViewerMenu

BroadcastOK ==
  /\ cache \in [Keys -> Validated]
  /\ \A k \in Keys : cache[k] # Unknown => Permitted(cache[k].rungs, cache[k].plan)
  /\ onAir # OffAir => Permitted(onAir.rungs, onAir.plan)

\* The inductive invariant.
LadderInv == plan \in Plans /\ BeforeStream /\ WizardOK /\ StreamOK /\ BroadcastOK

----------------------------------------------------------------------------
\* FREE's ladder is part of every plan's, which is part of the whole.
LEMMA AllowedFacts ==
  \A p \in Plans : 1 \in Allowed(p) /\ 1 .. FreeTop \subseteq Allowed(p) /\ Allowed(p) \subseteq 1 .. Top
BY LadderAssumption DEF Plans, Allowed, PlanMaxQuality

\* A plan's ladder has its highest rungs.
LEMMA TopTwoFacts ==
  /\ \A rungs : TopTwo(rungs) \subseteq rungs
  /\ \A p \in Plans : TopTwo(Allowed(p)) # {}
<1>1. \A rungs : TopTwo(rungs) \subseteq rungs
  BY DEF TopTwo
<1>2. ASSUME NEW p \in Plans PROVE PlanMaxQuality(p) \in TopTwo(Allowed(p))
  <2>1. PlanMaxQuality(p) \in Allowed(p)
    BY LadderAssumption DEF Plans, Allowed, PlanMaxQuality
  <2>2. {r \in Allowed(p) : r > PlanMaxQuality(p)} = {}
    BY LadderAssumption DEF Plans, Allowed, PlanMaxQuality
  <2>3. Cardinality({r \in Allowed(p) : r > PlanMaxQuality(p)}) < 2
    BY <2>2, FS_EmptySet
  <2> QED
    BY <2>1, <2>3 DEF TopTwo
<1> QED
  BY <1>1, <1>2

\* Validation answers with something, and with nothing above the plan.
LEMMA ClampedFacts ==
  ASSUME plan \in Plans
  PROVE  Clamped # {} /\ Clamped \subseteq Allowed(plan)
BY TopTwoFacts DEF Clamped

\* The player and the packager leave all of this alone.
LEMMA SameLadder ==
  ASSUME LadderInv, UNCHANGED ladderVars, studio' = studio, open' => open /\ page' = page
  PROVE  LadderInv'
BY DEF LadderInv, BeforeStream, WizardOK, StreamOK, BroadcastOK, Permitted, ladderVars, wizard, stream,
       Validated, Offered, Clamped, ViewerMenu

LEMMA PlayerKeepsPage ==
  ASSUME PlayerNext
  PROVE  studio' = studio /\ (open' => open /\ page' = page)
BY DEF PlayerNext, Unmount, Retry, ForceRefresh, ViewerPicks, StudioPicks, Picked, ViewerImported,
       StudioImported, Imported, ViewerGivesUp, StudioGivesUp, Fires, ViewerReady, StudioReady,
       MarkReady, ViewerNetworkError, StudioNetworkError, NetworkError, ViewerBroken, StudioBroken,
       Broken, NoOtherPage

\* What the wizard, the keys and the broadcast do leaves the page as it is.
LEMMA SamePage ==
  ASSUME UNCHANGED playerState
  PROVE  studio' = studio /\ open' = open /\ page' = page
BY DEF playerState

----------------------------------------------------------------------------
LEMMA ChangePlanInv ==
  ASSUME LadderInv, ChangePlan
  PROVE  LadderInv'
<1> USE DEF ChangePlan, LadderInv, wizard, stream
<1>1. plan' \in Plans
  OBVIOUS
<1>2. BeforeStream'
  BY SamePage DEF BeforeStream
<1>3. WizardOK'
  BY DEF WizardOK
<1>4. StreamOK'
  BY SamePage DEF StreamOK, ViewerMenu
<1>5. BroadcastOK'
  BY DEF BroadcastOK, Permitted, Validated
<1> QED
  BY <1>1, <1>2, <1>3, <1>4, <1>5

LEMMA EntitlementsInv ==
  ASSUME LadderInv, Entitlements
  PROVE  LadderInv'
<1> USE DEF LadderInv, stream, playerVars
<1>1. plan' = plan /\ UNCHANGED <<qualities, keys, valid, cache, onAir, refused>> /\ UNCHANGED playerState
      /\ keys = 0 /\ offered = {}
  BY DEF Entitlements
<1>2. BeforeStream'
  BY <1>1, SamePage DEF BeforeStream
<1>3. WizardOK'
  <2>1. ~refused' /\ chosen \subseteq 1 .. FreeTop
    BY <1>1 DEF WizardOK
  <2>2. CASE /\ offered' = Allowed(plan) /\ chosen' \subseteq Allowed(plan)
    BY <1>1, <2>1, <2>2, AllowedFacts DEF WizardOK, Offered
  <2>3. CASE offered' = 1 .. FreeTop /\ chosen' = chosen
    BY <1>1, <2>1, <2>3, AllowedFacts DEF WizardOK, Offered
  <2> QED
    BY <2>2, <2>3, TopTwoFacts DEF Entitlements
<1>4. StreamOK'
  BY <1>1, SamePage DEF StreamOK, BeforeStream
<1>5. BroadcastOK'
  BY <1>1 DEF BroadcastOK, BeforeStream
<1> QED
  BY <1>1, <1>2, <1>3, <1>4, <1>5

LEMMA ToggleInv ==
  ASSUME LadderInv, NEW q, Toggle(q)
  PROVE  LadderInv'
<1> USE DEF LadderInv, stream, playerVars
<1>1. plan' = plan /\ UNCHANGED <<qualities, keys, valid, cache, onAir, offered, refused, moved>>
      /\ UNCHANGED playerState /\ chosen' \subseteq chosen \cup Offered
  BY DEF Toggle, Toggled
<1>2. BeforeStream'
  BY <1>1, SamePage DEF BeforeStream
<1>3. WizardOK'
  BY <1>1 DEF WizardOK, Offered
<1>4. StreamOK'
  BY <1>1, SamePage DEF StreamOK, ViewerMenu
<1>5. BroadcastOK'
  BY <1>1 DEF BroadcastOK, Permitted, Validated, Clamped
<1> QED
  BY <1>1, <1>2, <1>3, <1>4, <1>5

\* The stream is created, by the wizard or by the keys page.
LEMMA CreatedInv ==
  ASSUME LadderInv, keys = 0, NEW picked \in SUBSET Allowed(plan), Created(picked),
         UNCHANGED <<plan, cache, onAir>>, UNCHANGED playerState
  PROVE  LadderInv'
<1> USE DEF LadderInv
<1>1. BeforeStream'
  BY DEF BeforeStream, Created
<1>2. WizardOK'
  BY AllowedFacts DEF WizardOK, Offered, Created
<1>3. StreamOK'
  BY AllowedFacts, SamePage DEF StreamOK, BeforeStream, Created
<1>4. BroadcastOK'
  BY DEF BroadcastOK, BeforeStream
<1> QED
  BY <1>1, <1>2, <1>3, <1>4

LEMMA SubmitInv ==
  ASSUME LadderInv, Submit
  PROVE  LadderInv'
<1> USE DEF stream, playerVars
<1>1. CASE Accepted
  BY <1>1, CreatedInv DEF Submit, Accepted
<1>2. CASE ~Accepted
  <2>1. moved /\ offered # {}
    BY <1>2, AllowedFacts DEF Accepted, LadderInv, WizardOK
  <2>2. UNCHANGED <<plan, offered, chosen, qualities, keys, valid, moved, cache, onAir>> /\ UNCHANGED playerState
    BY <1>2 DEF Submit
  <2>3. BeforeStream' /\ StreamOK'
    BY <2>2, SamePage DEF LadderInv, BeforeStream, StreamOK, ViewerMenu
  <2>4. WizardOK'
    BY <2>1, <2>2 DEF WizardOK
  <2>5. BroadcastOK'
    BY <2>2 DEF LadderInv, BroadcastOK, Permitted, Validated, Clamped
  <2> QED
    BY <2>2, <2>3, <2>4, <2>5 DEF LadderInv
<1> QED
  BY <1>1, <1>2

LEMMA BootstrapInv ==
  ASSUME LadderInv, Bootstrap
  PROVE  LadderInv'
BY CreatedInv DEF Bootstrap, playerVars

\* Keys are issued and revoked.
LEMMA KeysInv ==
  ASSUME LadderInv, NewKey \/ \E k \in Keys : RevokeKey(k)
  PROVE  LadderInv'
<1> USE DEF LadderInv, wizard
<1>1. UNCHANGED <<plan, offered, chosen, refused, qualities, cache, onAir, moved>> /\ UNCHANGED playerState
  BY DEF NewKey, RevokeKey
<1>2. BeforeStream'
  <2>1. CASE NewKey
    BY <2>1 DEF NewKey, BeforeStream
  <2>2. CASE \E k \in Keys : RevokeKey(k)
    BY <1>1, <2>2, SamePage DEF RevokeKey, BeforeStream
  <2> QED
    BY <2>1, <2>2
<1>3. WizardOK'
  BY <1>1 DEF WizardOK, Offered
<1>4. StreamOK'
  BY <1>1, SamePage DEF StreamOK, ViewerMenu
<1>5. BroadcastOK'
  BY <1>1 DEF BroadcastOK, Permitted, Validated, Clamped
<1> QED
  BY <1>1, <1>2, <1>3, <1>4, <1>5

\* A broadcast starts, with what validation answers or answered.
LEMMA PublishInv ==
  ASSUME LadderInv, NEW k \in Keys, Publish(k)
  PROVE  LadderInv'
<1> USE DEF LadderInv, wizard, stream
<1> DEFINE validated == IF cache[k] # Unknown THEN cache[k] ELSE [rungs |-> Clamped, plan |-> plan]
<1>1. UNCHANGED <<plan, offered, chosen, refused, qualities, keys, valid, moved>> /\ UNCHANGED playerState
  BY DEF Publish
<1>2. /\ cache[k] # Unknown \/ k \in valid
      /\ cache' = [cache EXCEPT ![k] = validated]
      /\ onAir' = [key |-> k, rungs |-> Profiles(validated.rungs), plan |-> validated.plan]
  BY DEF Publish
<1>3. validated \in Validated /\ Permitted(validated.rungs, validated.plan)
  <2>1. CASE cache[k] # Unknown
    BY <2>1 DEF BroadcastOK
  <2>2. CASE cache[k] = Unknown
    BY <2>2, ClampedFacts, AllowedFacts DEF Permitted, Validated
  <2> QED
    BY <2>1, <2>2
<1> HIDE DEF validated
<1>4. BeforeStream'
  BY <1>1, <1>2 DEF BeforeStream
<1>5. WizardOK'
  BY <1>1 DEF WizardOK, Offered
<1>6. StreamOK'
  BY <1>1, SamePage DEF StreamOK, ViewerMenu
<1>7. \A rungs, p : Permitted(rungs, p) => Permitted(rungs, p)'
  BY <1>1 DEF Permitted, Clamped
<1>8. BroadcastOK'
  <2>1. cache' \in [Keys -> Validated]
    BY <1>2, <1>3 DEF BroadcastOK
  <2>2. \A l \in Keys : cache'[l] # Unknown => Permitted(cache'[l].rungs, cache'[l].plan)
    BY <1>2, <1>3 DEF BroadcastOK
  <2>3. Permitted(onAir'.rungs, onAir'.plan)
    BY <1>2, <1>3 DEF Profiles, Permitted
  <2> QED
    BY <1>7, <2>1, <2>2, <2>3 DEF BroadcastOK, Validated
<1> QED
  BY <1>1, <1>4, <1>5, <1>6, <1>8

\* A broadcast ends, or a validation is forgotten.
LEMMA ForgetInv ==
  ASSUME LadderInv, Disconnect \/ \E k \in Keys : CacheExpires(k)
  PROVE  LadderInv'
<1> USE DEF LadderInv, wizard, stream, playerVars
<1>1. /\ UNCHANGED <<plan, offered, chosen, refused, qualities, keys, valid, moved>> /\ UNCHANGED playerState
      /\ onAir' \in {onAir, OffAir}
      /\ cache' = cache \/ \E k \in Keys : cache' = [cache EXCEPT ![k] = Unknown]
  BY DEF Disconnect, CacheExpires
<1>2. \A l \in Keys : cache'[l] \in {cache[l], Unknown}
  BY <1>1 DEF BroadcastOK
<1>3. Unknown \in Validated
  BY DEF Unknown, Validated, Plans
<1>4. cache' \in [Keys -> Validated]
  BY <1>1, <1>3 DEF BroadcastOK
<1>5. BeforeStream'
  BY <1>1, <1>2, SamePage DEF BeforeStream
<1>6. WizardOK'
  BY <1>1 DEF WizardOK, Offered
<1>7. StreamOK'
  BY <1>1, SamePage DEF StreamOK, ViewerMenu
<1>8. BroadcastOK'
  BY <1>1, <1>2, <1>4 DEF BroadcastOK, Permitted, Validated, Clamped
<1> QED
  BY <1>1, <1>5, <1>6, <1>7, <1>8

\* The page is told the menu of the stream there is.
LEMMA PageInv ==
  ASSUME LadderInv, Visit \/ Poll
  PROVE  LadderInv'
<1> USE DEF LadderInv, ladderVars, wizard, stream
<1>1. UNCHANGED <<plan, offered, chosen, refused, qualities, keys, valid, cache, onAir, moved>> /\ keys > 0
  BY DEF Visit, Poll
<1>2. studio' = studio /\ page' = Answer
  BY DEF Visit, Poll, Mount, Told
<1>3. BeforeStream'
  BY <1>1 DEF BeforeStream
<1>4. WizardOK'
  BY <1>1 DEF WizardOK, Offered
<1>5. StreamOK'
  BY <1>1, <1>2 DEF StreamOK, ViewerMenu, Answer
<1>6. BroadcastOK'
  BY <1>1 DEF BroadcastOK, Permitted, Validated, Clamped
<1> QED
  BY <1>1, <1>3, <1>4, <1>5, <1>6

----------------------------------------------------------------------------
LEMMA LadderInvStep == LadderInv /\ [Next]_vars => LadderInv'
<1> SUFFICES ASSUME LadderInv, [Next]_vars PROVE LadderInv'
  OBVIOUS
<1>1. CASE ChangePlan
  BY <1>1, ChangePlanInv
<1>2. CASE Entitlements
  BY <1>2, EntitlementsInv
<1>3. CASE Submit
  BY <1>3, SubmitInv
<1>4. CASE Bootstrap
  BY <1>4, BootstrapInv
<1>5. CASE NewKey \/ \E k \in Keys : RevokeKey(k)
  BY <1>5, KeysInv
<1>6. CASE Disconnect \/ \E k \in Keys : CacheExpires(k)
  BY <1>6, ForgetInv
<1>7. CASE Visit \/ Poll
  BY <1>7, PageInv
<1>8. CASE PackageMaster \/ \E q \in 1 .. Top : Package(q)
  BY <1>8, SameLadder, SamePage DEF PackageMaster, Package, playerVars
<1>9. CASE \E q \in 1 .. Top : Toggle(q)
  BY <1>9, ToggleInv
<1>10. CASE \E k \in Keys : Publish(k)
  BY <1>10, PublishInv
<1>11. CASE PlayerNext /\ UNCHANGED ladderVars
  BY <1>11, SameLadder, PlayerKeepsPage
<1>12. CASE UNCHANGED vars
  BY <1>12, SameLadder, SamePage DEF vars, playerVars
<1> QED
  BY <1>1, <1>2, <1>3, <1>4, <1>5, <1>6, <1>7, <1>8, <1>9, <1>10, <1>11, <1>12 DEF Next

LEMMA LadderInvInit == Init => LadderInv
<1> SUFFICES ASSUME Init PROVE LadderInv
  OBVIOUS
<1>1. plan \in Plans /\ BeforeStream
  BY DEF Init, PlayerInit, BeforeStream
<1>2. WizardOK
  BY TopTwoFacts, AllowedFacts DEF Init, WizardOK, Offered
<1>3. StreamOK
  BY DEF Init, PlayerInit, StreamOK
<1>4. BroadcastOK
  <2>1. Unknown \in Validated
    BY DEF Unknown, Validated, Plans
  <2> QED
    BY <2>1 DEF Init, BroadcastOK
<1> QED
  BY <1>1, <1>2, <1>3, <1>4 DEF LadderInv

LEMMA LadderInvImplies == LadderInv => OfferedIsEncoded
<1> SUFFICES ASSUME LadderInv PROVE OfferedIsEncoded
  OBVIOUS
<1>1. onAir # OffAir => onAir.rungs # {} /\ onAir.rungs \subseteq Allowed(onAir.plan)
  BY DEF LadderInv, BroadcastOK, Permitted
<1>2. ASSUME ~moved, onAir # OffAir, open, ~studio PROVE page.menu \subseteq onAir.rungs
  <2>1. page.menu = ViewerMenu /\ onAir.rungs = Clamped /\ qualities \subseteq Allowed(plan)
    BY <1>2 DEF LadderInv, StreamOK, BroadcastOK, Permitted
  <2>2. ViewerMenu \subseteq Clamped
    BY <2>1, AllowedFacts DEF LadderInv, ViewerMenu, Clamped
  <2> QED
    BY <2>1, <2>2
<1> QED
  BY <1>1, <1>2 DEF LadderInv, WizardOK, OfferedIsEncoded

\* Whatever the ladder and the plans' shares of it: what one part offers another accepts, unless
\* the plan has changed in between, and nothing is encoded that the plan did not allow when
\* validateStreamKey was asked.
THEOREM OfferedIsEncodedHolds == Spec => []OfferedIsEncoded
BY LadderInvInit, LadderInvStep, LadderInvImplies, PTL DEF Spec

----------------------------------------------------------------------------
(* The types of the player and of the ladder.                              *)

Urls == Nat \X Nat
Answers == [key : Nat, live : BOOLEAN, menu : SUBSET Nat]

\* What a run of the effect sets, and the rest of the player.
RunTyped ==
  /\ importing \subseteq [url : Urls, cancelled : BOOLEAN] /\ hls \subseteq Urls
  /\ ready \in BOOLEAN /\ connecting \in BOOLEAN /\ timers \subseteq {"connect", "network"}
PageTyped ==
  /\ written \subseteq Urls
  /\ studio \in BOOLEAN /\ open \in BOOLEAN /\ error \in BOOLEAN
  /\ page \in Answers /\ selected \in Nat
TurnsTyped == turns \in 0 .. MaxTurns
PlayerTyped == RunTyped /\ PageTyped /\ TurnsTyped

\* The wizard and the keys; there is a valid key as soon as there is a stream.
RungsTyped ==
  /\ offered \subseteq 1 .. Top /\ chosen \subseteq 1 .. Top /\ qualities \subseteq 1 .. Top
  /\ moved \in BOOLEAN /\ refused \in BOOLEAN
KeysTyped ==
  /\ keys \in 0 .. MaxKeys /\ valid \subseteq 1 .. keys
  /\ keys > 0 => valid # {}
OnAirTyped == onAir \in [key : 0 .. MaxKeys, rungs : SUBSET (1 .. Top), plan : Plans]

LadderTyped == RungsTyped /\ KeysTyped /\ OnAirTyped

----------------------------------------------------------------------------
LEMMA UrlsTyped ==
  ASSUME NEW told \in Answers, NEW q \in Nat
  PROVE  ViewerUrl(told, q) \in Urls /\ StudioUrl(told, q) \in Urls
BY DEF Answers, Urls, ViewerUrl, StudioUrl, AutoRung

LEMMA CancelledTyped ==
  ASSUME RunTyped
  PROVE  Cancelled \subseteq [url : Urls, cancelled : BOOLEAN]
<1>1. ASSUME NEW i \in importing
      PROVE  [url |-> i.url, cancelled |-> TRUE] \in [url : Urls, cancelled : BOOLEAN]
  BY DEF RunTyped
<1> QED
  BY <1>1 DEF Cancelled

LEMMA RestartTypes ==
  ASSUME RunTyped, NEW url \in Urls, Restart(url)
  PROVE  RunTyped'
<1>1. [url |-> url, cancelled |-> FALSE] \in [url : Urls, cancelled : BOOLEAN]
  OBVIOUS
<1>2. importing' \subseteq [url : Urls, cancelled : BOOLEAN]
  BY <1>1, CancelledTyped DEF Restart
<1> QED
  BY <1>2 DEF RunTyped, Restart

LEMMA TurnTypes ==
  ASSUME TurnsTyped, Turn \/ UNCHANGED turns
  PROVE  TurnsTyped'
BY HlsPlayerAssumption DEF TurnsTyped, Turn

\* The page mounts the player, takes it away, or is told something else.
LEMMA MountTypes ==
  ASSUME PlayerTyped, NEW told \in Answers, Mount(told) \/ Told(told), UNCHANGED written
  PROVE  PlayerTyped'
<1> USE DEF PlayerTyped
<1>1. PICK q \in Nat : q = selected
  BY DEF PageTyped
<1>2. AutoRung \in Nat /\ told.live \in BOOLEAN
  BY DEF AutoRung, Answers
<1>3. RunTyped'
  BY <1>1, <1>2, UrlsTyped, RestartTypes DEF Mount, Told, ViewerTold, StudioTold, ViewerRun, StudioRun
<1>4. error' \in BOOLEAN
  BY <1>2 DEF PageTyped, Mount, Told, ViewerTold, StudioTold, ViewerRun, StudioRun
<1>5. page' = told /\ studio' = studio /\ open' \in BOOLEAN /\ selected' \in Nat
  BY <1>2 DEF PageTyped, Mount, Told
<1>6. TurnsTyped'
  BY TurnTypes DEF Mount, Told
<1> QED
  BY <1>3, <1>4, <1>5, <1>6 DEF PageTyped

LEMMA UnmountTypes ==
  ASSUME PlayerTyped, Unmount
  PROVE  PlayerTyped'
<1>1. Closed \in Answers /\ AutoRung \in Nat
  BY DEF Closed, Answers, AutoRung
<1>2. RunTyped'
  BY CancelledTyped DEF PlayerTyped, RunTyped, Unmount, Cleanup
<1> QED
  BY <1>1, <1>2, TurnTypes DEF PlayerTyped, PageTyped, Unmount, Cleanup

LEMMA PicksTypes ==
  ASSUME PlayerTyped, NEW q \in page.menu \cup {AutoRung}, ViewerPicks(q) \/ StudioPicks(q)
  PROVE  PlayerTyped'
<1>1. q \in Nat /\ page \in Answers
  BY DEF PlayerTyped, PageTyped, Answers, AutoRung
<1>2. RunTyped'
  BY <1>1, UrlsTyped, RestartTypes DEF PlayerTyped, ViewerPicks, StudioPicks, ViewerRun, StudioRun
<1>3. error' \in BOOLEAN
  BY DEF PlayerTyped, PageTyped, ViewerPicks, StudioPicks, ViewerRun
<1>4. Picked(q)
  BY DEF ViewerPicks, StudioPicks
<1> QED
  BY <1>1, <1>2, <1>3, <1>4, TurnTypes DEF PlayerTyped, PageTyped, Picked

LEMMA ImportedTypes ==
  ASSUME PlayerTyped, NEW i \in importing, Imported(i)
  PROVE  PlayerTyped'
<1>1. i.url \in Urls
  BY DEF PlayerTyped, RunTyped
<1> QED
  BY <1>1, TurnTypes DEF PlayerTyped, RunTyped, PageTyped, Imported, NoOtherPage

\* The events of hls.js.
LEMMA EventTypes ==
  ASSUME PlayerTyped, NEW url \in hls,
         \/ ViewerReady(url) \/ ViewerNetworkError(url) \/ ViewerBroken(url)
         \/ StudioReady(url) \/ StudioNetworkError(url) \/ StudioBroken(url)
  PROVE  PlayerTyped'
<1> USE DEF PlayerTyped
<1>1. CASE ViewerReady(url) \/ StudioReady(url)
  <2>1. page.live \in BOOLEAN
    BY DEF PageTyped, Answers
  <2> QED
    BY <1>1, <2>1, TurnTypes DEF ViewerReady, StudioReady, MarkReady, NoOtherPage, RunTyped, PageTyped
<1>2. CASE ViewerNetworkError(url) \/ StudioNetworkError(url)
  <2>1. TurnsTyped' /\ NoOtherPage
    BY <1>2, TurnTypes DEF ViewerNetworkError, StudioNetworkError, NetworkError
  <2>2. CASE LoadAgain
    BY <2>1, <2>2 DEF LoadAgain, NoOtherPage, RunTyped, PageTyped
  <2>3. CASE selected' = AutoRung /\ ViewerRun(ViewerUrl(page, AutoRung))
    <3>1. AutoRung \in Nat
      BY DEF AutoRung
    <3>2. RunTyped'
      BY <2>3, <3>1, UrlsTyped, RestartTypes DEF ViewerRun, PageTyped
    <3> QED
      BY <2>1, <2>3, <3>1, <3>2 DEF ViewerRun, NoOtherPage, PageTyped
  <2> QED
    BY <1>2, <2>2, <2>3 DEF ViewerNetworkError, StudioNetworkError
<1>3. CASE ViewerBroken(url) \/ StudioBroken(url)
  <2>1. Broken(url)
    BY <1>3 DEF ViewerBroken, StudioBroken
  <2> QED
    BY <2>1, TurnTypes DEF Broken, NoOtherPage, RunTyped, PageTyped
<1> QED
  BY <1>1, <1>2, <1>3

LEMMA PlayerTypes ==
  ASSUME PlayerTyped, PlayerNext
  PROVE  PlayerTyped'
<1>1. CASE Retry \/ ForceRefresh
  BY <1>1, TurnTypes DEF Retry, ForceRefresh, NoOtherPage, PlayerTyped, RunTyped, PageTyped
<1>2. ASSUME NEW t \in timers, ViewerGivesUp(t) \/ StudioGivesUp(t) PROVE PlayerTyped'
  <2>1. Fires(t) /\ error' \in BOOLEAN
    BY <1>2 DEF PlayerTyped, PageTyped, ViewerGivesUp, StudioGivesUp
  <2> QED
    BY <2>1, TurnTypes DEF Fires, NoOtherPage, PlayerTyped, RunTyped, PageTyped
<1> QED
  BY <1>1, <1>2, UnmountTypes, PicksTypes, ImportedTypes, EventTypes
     DEF PlayerNext, ViewerImported, StudioImported

----------------------------------------------------------------------------
LEMMA RungFacts ==
  /\ 1 .. FreeTop \subseteq 1 .. Top /\ 1 .. StudioTop \subseteq 1 .. Top /\ 1 .. Top \subseteq Nat
  /\ MaxKeys \in Nat /\ 1 \in 1 .. MaxKeys
BY LadderAssumption

\* The newest of the valid keys, which is what the pages are told of.
LEMMA NewestKey ==
  ASSUME KeysTyped, keys > 0
  PROVE  Newest \in valid /\ Newest \in Nat
<1>1. valid \subseteq 1 .. keys /\ valid # {} /\ keys \in Nat
  BY DEF KeysTyped
<1>2. PICK n \in valid : \A l \in valid : l <= n
  <2> DEFINE Above == {m \in Nat : \A l \in valid : l <= m}
  <2>1. keys \in Above
    BY <1>1
  <2>2. PICK m \in Above : \A j \in Above : m <= j
    BY <2>1, LeastNatural
  <2>3. CASE m \in valid
    BY <2>2, <2>3
  <2>4. CASE m \notin valid
    <3>1. \A l \in valid : l <= m - 1
      BY <1>1, <2>2, <2>4
    <3>2. m \in Nat /\ \A l \in valid : l \in Nat \ {0} /\ l <= m
      BY <1>1, <2>2
    <3>3. m - 1 \in Nat
      <4>1. PICK l \in valid : TRUE
        BY <1>1
      <4>2. l \in Nat \ {0} /\ l <= m
        BY <3>2
      <4> QED
        BY <3>2, <4>2
    <3>4. m - 1 \in Above
      BY <3>1, <3>3
    <3> QED
      BY <2>2, <3>2, <3>4
  <2> QED
    BY <2>3, <2>4
<1>3. Newest \in valid
  BY <1>2 DEF Newest
<1> QED
  BY <1>1, <1>3

LEMMA AnswerTyped ==
  ASSUME KeysTyped, RungsTyped, keys > 0, studio \in BOOLEAN
  PROVE  Answer \in Answers
<1>1. ViewerMenu \subseteq Nat /\ StudioMenu \subseteq Nat
  BY RungFacts DEF RungsTyped, ViewerMenu, StudioMenu
<1>2. (onAir # OffAir) \in BOOLEAN
  OBVIOUS
<1> QED
  BY <1>1, <1>2, NewestKey DEF Answer, Answers

\* The wizard.
LEMMA WizardTypes ==
  ASSUME LadderTyped, plan \in Plans,
         ChangePlan \/ Entitlements \/ Submit \/ Bootstrap \/ \E q \in 1 .. Top : Toggle(q)
  PROVE  LadderTyped'
<1> USE DEF LadderTyped
<1>1. Allowed(plan) \subseteq 1 .. Top /\ 1 .. FreeTop \subseteq 1 .. Top
  BY AllowedFacts
<1>2. CASE ChangePlan
  BY <1>2 DEF ChangePlan, wizard, stream, RungsTyped, KeysTyped, OnAirTyped
<1>3. CASE Entitlements
  <2>1. chosen' \subseteq 1 .. Top /\ offered' \subseteq 1 .. Top /\ moved' \in BOOLEAN
    BY <1>1, <1>3, TopTwoFacts DEF Entitlements, RungsTyped
  <2> QED
    BY <1>3, <2>1 DEF Entitlements, stream, RungsTyped, KeysTyped, OnAirTyped
<1>4. CASE Submit \/ Bootstrap
  <2>1. \/ \E picked \in {chosen, {}} : Created(picked)
        \/ refused' = TRUE /\ UNCHANGED <<offered, chosen, stream, moved>>
    BY <1>4 DEF Submit, Bootstrap
  <2>2. onAir' = onAir
    BY <1>4 DEF Submit, Bootstrap
  <2>3. CASE \E picked \in {chosen, {}} : Created(picked)
    <3>1. chosen \subseteq 1 .. Top /\ 1 \in 0 .. MaxKeys /\ 1 \in 1 .. 1
      BY RungFacts DEF RungsTyped
    <3>2. RungsTyped'
      BY <2>3, <3>1 DEF Created, RungsTyped
    <3>3. KeysTyped'
      BY <2>3, <3>1 DEF Created, KeysTyped
    <3> QED
      BY <2>2, <3>2, <3>3 DEF OnAirTyped
  <2>4. CASE refused' = TRUE /\ UNCHANGED <<offered, chosen, stream, moved>>
    BY <2>2, <2>4 DEF stream, RungsTyped, KeysTyped, OnAirTyped
  <2> QED
    BY <2>1, <2>3, <2>4
<1>5. ASSUME NEW q \in 1 .. Top, Toggle(q) PROVE LadderTyped'
  <2>1. chosen' \subseteq 1 .. Top
    BY <1>5 DEF Toggle, Toggled, RungsTyped
  <2> QED
    BY <1>5, <2>1 DEF Toggle, stream, RungsTyped, KeysTyped, OnAirTyped
<1> QED
  BY <1>2, <1>3, <1>4, <1>5

\* The keys: the last one is never revoked.
LEMMA KeyTypes ==
  ASSUME LadderTyped, NewKey \/ \E k \in Keys : RevokeKey(k)
  PROVE  LadderTyped'
<1> USE DEF LadderTyped
<1>1. CASE NewKey
  <2>1. keys' \in 1 .. MaxKeys /\ valid' \subseteq 1 .. keys' /\ valid' # {}
    <3>1. keys' = keys + 1 /\ keys \in 1 .. MaxKeys - 1 /\ valid' \in {valid \cup {keys'}, {keys'}}
      BY <1>1 DEF NewKey
    <3>2. keys' \in 1 .. MaxKeys /\ keys' \in 1 .. keys' /\ 1 .. keys \subseteq 1 .. keys'
      BY <3>1, RungFacts
    <3> QED
      BY <3>1, <3>2 DEF KeysTyped
  <2> QED
    BY <1>1, <2>1, RungFacts DEF NewKey, wizard, RungsTyped, KeysTyped, OnAirTyped
<1>2. ASSUME NEW k \in Keys, RevokeKey(k) PROVE LadderTyped'
  <2>1. valid \ {k} # {}
    <3>1. SUFFICES ASSUME valid = {k} PROVE FALSE
      BY <1>2 DEF RevokeKey
    <3>2. Cardinality(valid) = 1
      BY <3>1, FS_Singleton
    <3> QED
      BY <1>2, <3>2 DEF RevokeKey
  <2> QED
    BY <1>2, <2>1 DEF RevokeKey, wizard, RungsTyped, KeysTyped, OnAirTyped
<1> QED
  BY <1>1, <1>2

LEMMA PublishTypes ==
  ASSUME LadderInv, LadderTyped, NEW k \in Keys, Publish(k)
  PROVE  LadderTyped'
<1> USE DEF LadderTyped
<1>1. PICK v : /\ v \in {cache[k], [rungs |-> Clamped, plan |-> plan]}
               /\ onAir' = [key |-> k, rungs |-> Profiles(v.rungs), plan |-> v.plan]
  BY DEF Publish
<1>2. v.rungs \subseteq 1 .. Top /\ v.plan \in Plans
  BY <1>1, ClampedFacts, AllowedFacts DEF LadderInv, BroadcastOK, Validated
<1>3. Profiles(v.rungs) \subseteq 1 .. Top /\ k \in 0 .. MaxKeys
  BY <1>2, TopTwoFacts, LadderAssumption DEF Profiles, Keys
<1>4. OnAirTyped'
  BY <1>1, <1>2, <1>3 DEF OnAirTyped
<1> QED
  BY <1>4 DEF Publish, wizard, stream, RungsTyped, KeysTyped

LEMMA OtherTypes ==
  ASSUME LadderTyped, UNCHANGED <<wizard, stream, moved>>, onAir' \in {onAir, OffAir}
  PROVE  LadderTyped'
<1>1. OffAir \in [key : 0 .. MaxKeys, rungs : SUBSET (1 .. Top), plan : Plans]
  BY LadderAssumption DEF OffAir, Plans
<1> QED
  BY <1>1 DEF wizard, stream, LadderTyped, RungsTyped, KeysTyped, OnAirTyped

\* What the packager writes are URLs.
LEMMA PackageTypes ==
  ASSUME LadderTyped, PlayerTyped, PackageMaster \/ \E q \in 1 .. Top : Package(q)
  PROVE  PlayerTyped'
<1>1. onAir.key \in Nat /\ AutoRung \in Nat /\ 1 .. Top \subseteq Nat
  BY DEF LadderTyped, OnAirTyped, AutoRung
<1>2. written' \subseteq Urls
  <2>1. \A q \in Nat : <<onAir.key, q>> \in Urls
    BY <1>1 DEF Urls
  <2>2. PICK q \in Nat : written' = written \cup {<<onAir.key, q>>}
    BY <1>1 DEF PackageMaster, Package
  <2> QED
    BY <2>1, <2>2 DEF PlayerTyped, PageTyped
<1> QED
  BY <1>2 DEF PackageMaster, Package, playerVars, playerState, run, PlayerTyped, RunTyped, PageTyped,
              TurnsTyped

LEMMA LadderTypesNext ==
  ASSUME LadderInv, LadderTyped, PlayerTyped, [Next]_vars
  PROVE  LadderTyped' /\ PlayerTyped'
<1>1. ASSUME UNCHANGED <<written, playerState>>, Turn \/ UNCHANGED turns PROVE PlayerTyped'
  BY <1>1, TurnTypes DEF playerState, run, PlayerTyped, RunTyped, PageTyped
<1>2. CASE ChangePlan \/ Entitlements \/ Submit \/ Bootstrap \/ \E q \in 1 .. Top : Toggle(q)
  <2>1. UNCHANGED <<written, playerState>> /\ (Turn \/ UNCHANGED turns)
    BY <1>2 DEF ChangePlan, Entitlements, Submit, Bootstrap, Toggle, playerVars
  <2> QED
    BY <1>1, <1>2, <2>1, WizardTypes DEF LadderInv
<1>3. CASE NewKey \/ \E k \in Keys : RevokeKey(k)
  <2>1. UNCHANGED <<written, playerState>> /\ (Turn \/ UNCHANGED turns)
    BY <1>3 DEF NewKey, RevokeKey
  <2> QED
    BY <1>1, <1>3, <2>1, KeyTypes
<1>4. CASE \E k \in Keys : Publish(k)
  <2>1. UNCHANGED <<written, playerState>> /\ (Turn \/ UNCHANGED turns)
    BY <1>4 DEF Publish
  <2> QED
    BY <1>1, <1>4, <2>1, PublishTypes
<1>5. CASE Disconnect \/ \E k \in Keys : CacheExpires(k)
  <2>1. /\ UNCHANGED <<written, playerState, turns>>
        /\ UNCHANGED <<wizard, stream, moved>> /\ onAir' \in {onAir, OffAir}
    BY <1>5 DEF Disconnect, CacheExpires, playerVars
  <2> QED
    BY <1>1, <2>1, OtherTypes
<1>6. CASE Visit \/ Poll
  <2>1. Answer \in Answers
    BY <1>6, AnswerTyped DEF Visit, Poll, LadderTyped, PlayerTyped, PageTyped
  <2>2. PlayerTyped'
    BY <1>6, <2>1, MountTypes DEF Visit, Poll
  <2> QED
    BY <1>6, <2>2, OtherTypes DEF Visit, Poll, ladderVars
<1>7. CASE PackageMaster \/ \E q \in 1 .. Top : Package(q)
  <2>1. UNCHANGED ladderVars
    BY <1>7 DEF PackageMaster, Package
  <2> QED
    BY <1>7, <2>1, PackageTypes, OtherTypes DEF ladderVars
<1>8. CASE PlayerNext /\ UNCHANGED ladderVars
  BY <1>8, PlayerTypes, OtherTypes DEF ladderVars
<1>9. CASE UNCHANGED vars
  BY <1>1, <1>9, OtherTypes DEF vars, playerVars, ladderVars
<1> QED
  BY <1>2, <1>3, <1>4, <1>5, <1>6, <1>7, <1>8, <1>9 DEF Next

LEMMA LadderTypesInit == Init => LadderTyped /\ PlayerTyped
<1> SUFFICES ASSUME Init PROVE LadderTyped /\ PlayerTyped
  OBVIOUS
<1>1. RungsTyped
  BY TopTwoFacts, RungFacts DEF Init, RungsTyped
<1>2. KeysTyped
  BY LadderAssumption DEF Init, KeysTyped
<1>3. OnAirTyped
  BY LadderAssumption DEF Init, OnAirTyped, OffAir, Plans
<1>4. RunTyped /\ TurnsTyped
  <2>1. 0 \in 0 .. MaxTurns
    BY HlsPlayerAssumption
  <2> QED
    BY <2>1 DEF Init, PlayerInit, RunTyped, TurnsTyped
<1>5. PageTyped
  BY DEF Init, PlayerInit, PageTyped, Closed, Answers, AutoRung
<1> QED
  BY <1>1, <1>2, <1>3, <1>4, <1>5 DEF LadderTyped, PlayerTyped

\* Every variable of the player and the ladder keeps its type: a page is told of a key that was
\* issued and of rungs there are, and what plays is a URL of one.
THEOREM LadderTypeCorrect == Spec => []TypeOK
<1>1. LadderInv /\ LadderTyped /\ PlayerTyped => TypeOK
  <2> SUFFICES ASSUME LadderInv, LadderTyped, PlayerTyped PROVE TypeOK
    OBVIOUS
  <2>1. PlayerTypeOK
    BY DEF PlayerTyped, RunTyped, PageTyped, TurnsTyped, PlayerTypeOK, Urls, Answers
  <2> QED
    BY <2>1 DEF LadderInv, BroadcastOK, Validated, LadderTyped, RungsTyped, KeysTyped, OnAirTyped, TypeOK
<1>2. Init => LadderInv /\ LadderTyped /\ PlayerTyped
  BY LadderInvInit, LadderTypesInit
<1>3. (LadderInv /\ LadderTyped /\ PlayerTyped) /\ [Next]_vars => (LadderInv /\ LadderTyped /\ PlayerTyped)'
  BY LadderInvStep, LadderTypesNext
<1> QED
  BY <1>1, <1>2, <1>3, PTL DEF Spec

----------------------------------------------------------------------------
(* The deletion of a recording.                                            *)

Objects == Prefixes \X Nat
Steps == {"idle", "list", "remove", "row"}
Call == [at : Steps, todo : SUBSET Prefixes, names : SUBSET Objects, removed : {0, 1}, errors : {0, 1}]

StoreOK == files \subseteq Objects /\ late \subseteq ClipsOf(BroadcastKeys) /\ thumbnail \in Nat /\ sent \in Nat
CallsOK == call \in [Calls -> Call]

\* What a request has still to go through covers what is left of the recording.
Covered(r) ==
  /\ r.at = "list" => \A o \in files : o[1] \in r.todo
  /\ r.at = "remove" => \A o \in files : o[1] \in r.todo \/ o \in r.names
  /\ r.at = "row" => Hopeless(r) \/ files = {}

AllCovered == ~touched => \A c \in Calls : Covered(call[c])
GoneOK == ~vod /\ ~touched => files = {}

\* Whoever has taken something away is going to delete the row.
IntactOK == vod /\ ~failed => clips \subseteq files \/ \E c \in Calls : call[c].removed = 1

\* The inductive invariant.
DeleteInv == StoreOK /\ CallsOK /\ AllCovered /\ GoneOK /\ IntactOK

----------------------------------------------------------------------------
LEMMA IdleFacts ==
  /\ Idle \in Call /\ Idle.at = "idle" /\ Idle.removed = 0
  /\ Covered(Idle)
BY DEF Idle, Call, Steps, Covered

LEMMA CleanedAll == Cleaned = Prefixes
BY RecordingsAssumption DEF Cleaned, Prefixes

LEMMA ClipsAreObjects == ClipsOf(BroadcastKeys) \subseteq Objects
BY RecordingsAssumption DEF ClipsOf, Objects, Prefixes

\* A step that adds to the store, with no request under way or taken down as touched.
LEMMA GrowInv ==
  ASSUME DeleteInv, UNCHANGED <<vod, call, failed>>,
         files \subseteq files', files' \subseteq Objects,
         late' \subseteq late, clips' \subseteq clips \cup files',
         touched' = (touched \/ Busy # {} \/ ~vod), thumbnail' \in Nat, sent' \in Nat
  PROVE  DeleteInv'
<1> USE DEF DeleteInv
<1>1. StoreOK' /\ CallsOK'
  BY DEF StoreOK, CallsOK
<1>2. AllCovered'
  <2> SUFFICES ASSUME ~touched', NEW c \in Calls PROVE Covered(call[c])'
    BY DEF AllCovered
  <2>1. call[c] = Idle
    BY DEF Busy
  <2> QED
    BY <2>1, IdleFacts DEF Covered
<1>3. GoneOK' /\ IntactOK'
  BY DEF GoneOK, IntactOK
<1> QED
  BY <1>1, <1>2, <1>3

\* A request takes a step, and the store loses nothing or what the request has removed.
LEMMA RequestInv ==
  ASSUME DeleteInv, NEW c \in Calls, NEW r \in Call, call' = [call EXCEPT ![c] = r],
         UNCHANGED <<late, clips, thumbs>>, files' \subseteq files,
         touched => touched', failed => failed', vod' => vod,
         ~touched' => Covered(r)',
         ~touched' /\ vod /\ ~vod' => files' = {},
         vod' /\ ~failed' => \/ r.removed = 1
                             \/ files' = files /\ call[c].removed = 0
  PROVE  DeleteInv'
<1> USE DEF DeleteInv
<1>1. \A d \in Calls : call'[d] = IF d = c THEN r ELSE call[d]
  BY DEF CallsOK
<1>2. StoreOK' /\ CallsOK'
  BY DEF StoreOK, CallsOK, thumbs
<1>3. AllCovered'
  <2> SUFFICES ASSUME ~touched', NEW d \in Calls PROVE Covered(call[d])'
    BY DEF AllCovered
  <2>1. CASE d = c
    BY <1>1, <2>1
  <2>2. CASE d # c
    BY <1>1, <2>2 DEF AllCovered, Covered, Hopeless
  <2> QED
    BY <2>1, <2>2
<1>4. GoneOK'
  BY DEF GoneOK
<1>5. IntactOK'
  BY <1>1 DEF IntactOK
<1> QED
  BY <1>2, <1>3, <1>4, <1>5

----------------------------------------------------------------------------
LEMMA LateClipInv ==
  ASSUME DeleteInv, NEW o \in late, Upload(o)
  PROVE  DeleteInv'
BY GrowInv, ClipsAreObjects DEF Upload, DeleteInv, StoreOK, thumbs

LEMMA SendThumbnailInv ==
  ASSUME DeleteInv, SendThumbnail
  PROVE  DeleteInv'
<1>1. PICK n \in 1 .. MaxThumbs : sent' = n /\ files' = files \cup {<<Thumbs, n>>}
  BY DEF SendThumbnail
<1>2. n \in Nat /\ <<Thumbs, n>> \in Objects
  BY RecordingsAssumption DEF Objects, Prefixes
<1> QED
  BY <1>1, <1>2, GrowInv DEF SendThumbnail, DeleteInv, StoreOK

LEMMA SaveThumbnailInv ==
  ASSUME DeleteInv, SaveThumbnail
  PROVE  DeleteInv'
BY DEF DeleteInv, SaveThumbnail, store, StoreOK, CallsOK, AllCovered, Covered, Hopeless, GoneOK, IntactOK

LEMMA AskInv ==
  ASSUME DeleteInv, NEW c \in Calls, Ask(c)
  PROVE  DeleteInv'
<1>1. UNCHANGED <<late, clips, thumbs, files, touched, failed, vod>> /\ call[c] = Idle
  BY DEF Ask, store
<1>2. CASE call' = [call EXCEPT ![c] = [Idle EXCEPT !.at = "list", !.todo = Cleaned]]
  <2>1. PICK r : r = [Idle EXCEPT !.at = "list", !.todo = Cleaned]
    OBVIOUS
  <2>2. r \in Call /\ r.at = "list" /\ r.todo = Prefixes
    BY <2>1, CleanedAll, IdleFacts DEF Call, Steps
  <2>3. Covered(r)'
    BY <1>1, <2>2 DEF DeleteInv, StoreOK, Objects, Covered
  <2>4. files' = files /\ call[c].removed = 0
    BY <1>1, IdleFacts
  <2> QED
    BY <1>1, <1>2, <2>1, <2>2, <2>3, <2>4, RequestInv
<1>3. CASE call' = [call EXCEPT ![c] = [Idle EXCEPT !.at = "row", !.errors = 1]]
  <2>1. PICK r : r = [Idle EXCEPT !.at = "row", !.errors = 1]
    OBVIOUS
  <2>2. r \in Call /\ r.at = "row" /\ r.errors = 1 /\ r.removed = 0
    BY <2>1, IdleFacts DEF Call, Steps
  <2>3. Covered(r)'
    BY <2>2 DEF Covered, Hopeless
  <2>4. files' = files /\ call[c].removed = 0
    BY <1>1, IdleFacts
  <2> QED
    BY <1>1, <1>3, <2>1, <2>2, <2>3, <2>4, RequestInv
<1> QED
  BY <1>2, <1>3 DEF Ask

LEMMA NotFoundInv ==
  ASSUME DeleteInv, NEW c \in Calls, NotFound(c)
  PROVE  DeleteInv'
BY DEF DeleteInv, NotFound, store, thumbs, StoreOK, CallsOK, AllCovered, Covered, Hopeless, GoneOK, IntactOK

LEMMA FilesListInv ==
  ASSUME DeleteInv, NEW c \in Calls, NEW p \in Prefixes, List(c, p)
  PROVE  DeleteInv'
<1>1. /\ UNCHANGED <<late, clips, thumbs, files, failed, vod>>
      /\ call[c].at = "list" /\ call[c] \in Call /\ call[c].removed \in {0, 1}
  BY DEF List, store, DeleteInv, CallsOK, Call
<1>2. ASSUME NEW found \in SUBSET Objects, found = {o \in files : o[1] = p}, touched' = touched,
             call' = [call EXCEPT ![c] = [call[c] EXCEPT !.at = "remove", !.todo = @ \ {p}, !.names = found]]
      PROVE  DeleteInv'
  <2>1. PICK r : r = [call[c] EXCEPT !.at = "remove", !.todo = @ \ {p}, !.names = found]
    OBVIOUS
  <2>2. /\ r \in Call /\ r.at = "remove" /\ r.todo = call[c].todo \ {p}
        /\ r.names = found /\ r.removed = call[c].removed
    BY <1>1, <2>1 DEF Call, Steps
  <2>3. call' = [call EXCEPT ![c] = r]
    BY <1>2, <2>1, Zenon
  <2>4. ~touched' => Covered(r)'
    BY <1>1, <1>2, <2>2 DEF DeleteInv, AllCovered, Covered
  <2> QED
    BY <1>1, <1>2, <2>2, <2>3, <2>4, RequestInv
<1>3. ASSUME touched', call' = [call EXCEPT ![c] = [call[c] EXCEPT !.todo = @ \ {p}, !.errors = 1]]
      PROVE  DeleteInv'
  <2>1. PICK r : r = [call[c] EXCEPT !.todo = @ \ {p}, !.errors = 1]
    OBVIOUS
  <2>2. r \in Call /\ r.removed = call[c].removed
    BY <1>1, <2>1 DEF Call, Steps
  <2>3. call' = [call EXCEPT ![c] = r]
    BY <1>3, <2>1, Zenon
  <2> QED
    BY <1>1, <1>3, <2>2, <2>3, RequestInv
<1>4. {o \in files : o[1] = p} \in SUBSET Objects
  BY DEF DeleteInv, StoreOK
<1> QED
  BY <1>2, <1>3, <1>4, Zenon DEF List

LEMMA RemoveInv ==
  ASSUME DeleteInv, NEW c \in Calls, Remove(c)
  PROVE  DeleteInv'
<1>1. PICK kept \in SUBSET call[c].names :
        /\ kept # {} => touched'
        /\ kept = {} => touched' = touched
        /\ files' = files \ (call[c].names \ kept)
        /\ call' = [call EXCEPT ![c] = [call[c] EXCEPT !.at = "list", !.names = {},
                                          !.removed = IF call[c].names = kept THEN @ ELSE 1]]
  BY DEF Remove
<1>2. /\ UNCHANGED <<late, clips, thumbs, failed, vod>> /\ call[c].at = "remove"
      /\ call[c] \in Call /\ call[c].removed \in {0, 1}
  BY DEF Remove, DeleteInv, CallsOK, Call
<1>3. PICK r : r = [call[c] EXCEPT !.at = "list", !.names = {},
                                   !.removed = IF call[c].names = kept THEN @ ELSE 1]
  OBVIOUS
<1>4. /\ r \in Call /\ r.at = "list" /\ r.todo = call[c].todo
      /\ r.removed = IF call[c].names = kept THEN call[c].removed ELSE 1
  BY <1>2, <1>3 DEF Call, Steps
<1>5. call' = [call EXCEPT ![c] = r]
  BY <1>1, <1>3, Zenon
<1>6. /\ kept # {} => touched'
      /\ kept = {} => touched' = touched
      /\ files' = files \ (call[c].names \ kept)
  BY <1>1, Zenon
<1>7. (touched => touched') /\ (~touched' => Covered(r)')
  BY <1>2, <1>4, <1>6 DEF DeleteInv, AllCovered, Covered
<1>8. r.removed = 1 \/ (files' = files /\ call[c].removed = 0)
  <2>1. CASE call[c].names = kept
    <3>1. call[c].names \ kept = {}
      BY <2>1
    <3>2. files' = files
      BY <1>6, <3>1
    <3> QED
      BY <1>2, <1>4, <2>1, <3>2
  <2> QED
    BY <1>4, <2>1
<1> QED
  BY <1>2, <1>4, <1>5, <1>6, <1>7, <1>8, RequestInv

LEMMA ListedInv ==
  ASSUME DeleteInv, NEW c \in Calls, NamesListed(c)
  PROVE  DeleteInv'
<1>1. /\ UNCHANGED <<late, clips, thumbs, files, touched, failed, vod>>
      /\ call[c].at = "list" /\ call[c].todo = {} /\ call[c] \in Call /\ call[c].removed \in {0, 1}
  BY DEF NamesListed, store, DeleteInv, CallsOK, Call
<1>2. PICK r : r = [call[c] EXCEPT !.at = "row"]
  OBVIOUS
<1>3. r \in Call /\ r.at = "row" /\ r.removed = call[c].removed
  BY <1>1, <1>2 DEF Call, Steps
<1>4. call' = [call EXCEPT ![c] = r]
  BY <1>2, Zenon DEF NamesListed
<1>5. ~touched' => Covered(r)'
  BY <1>1, <1>3 DEF DeleteInv, AllCovered, Covered
<1> QED
  BY <1>1, <1>3, <1>4, <1>5, RequestInv

LEMMA RefuseInv ==
  ASSUME DeleteInv, NEW c \in Calls, Refuse(c)
  PROVE  DeleteInv'
<1>1. UNCHANGED <<late, clips, thumbs, files, touched, failed, vod>>
      /\ call' = [call EXCEPT ![c] = Idle] /\ call[c].removed = 0
  BY DEF Refuse, store, Hopeless
<1>2. Covered(Idle)'
  BY IdleFacts DEF Covered
<1> QED
  BY <1>1, <1>2, IdleFacts, RequestInv

LEMMA DeleteRowInv ==
  ASSUME DeleteInv, NEW c \in Calls, Delete(c)
  PROVE  DeleteInv'
<1>1. UNCHANGED <<late, clips, thumbs, files, touched, failed>>
      /\ call' = [call EXCEPT ![c] = Idle] /\ ~vod'
      /\ call[c].at = "row" /\ ~Hopeless(call[c])
  BY DEF Delete, store
<1>2. Covered(Idle)'
  BY IdleFacts DEF Covered
<1>3. ~touched' => files' = {}
  BY <1>1 DEF DeleteInv, AllCovered, Covered
<1> QED
  BY <1>1, <1>2, <1>3, IdleFacts, RequestInv

LEMMA CutOffInv ==
  ASSUME DeleteInv, NEW c \in Calls, CutOff(c)
  PROVE  DeleteInv'
<1>1. UNCHANGED <<late, clips, thumbs, files, vod>>
      /\ call' = [call EXCEPT ![c] = Idle] /\ touched' /\ failed'
  BY DEF CutOff, store
<1> QED
  BY <1>1, IdleFacts, RequestInv

----------------------------------------------------------------------------
LEMMA DeleteInvStep == DeleteInv /\ [RecordingsNext]_recordingsVars => DeleteInv'
<1> SUFFICES ASSUME DeleteInv, [RecordingsNext]_recordingsVars PROVE DeleteInv'
  OBVIOUS
<1>1. CASE \E o \in late : Upload(o)
  BY <1>1, LateClipInv
<1>2. CASE SendThumbnail \/ SaveThumbnail
  BY <1>2, SendThumbnailInv, SaveThumbnailInv
<1>3. CASE \E c \in Calls : Request(c)
  BY <1>3, AskInv, NotFoundInv, RemoveInv, ListedInv, RefuseInv, DeleteRowInv, CutOffInv DEF Request
<1>4. CASE \E c \in Calls, p \in Prefixes : List(c, p)
  BY <1>4, FilesListInv
<1>5. CASE UNCHANGED recordingsVars
  BY <1>5 DEF recordingsVars, store, thumbs, DeleteInv, StoreOK, CallsOK, AllCovered, Covered, Hopeless, GoneOK, IntactOK
<1> QED
  BY <1>1, <1>2, <1>3, <1>4, <1>5 DEF RecordingsNext

LEMMA DeleteInvInit == RecordingsInit => DeleteInv
<1> SUFFICES ASSUME RecordingsInit PROVE DeleteInv
  OBVIOUS
<1>1. StoreOK
  <2>1. {<<Thumbs, n>> : n \in {thumbnail} \ {0}} \subseteq Objects
    BY DEF RecordingsInit, Objects, Prefixes
  <2> QED
    BY <2>1, ClipsAreObjects DEF RecordingsInit, StoreOK
<1>2. CallsOK /\ AllCovered
  BY IdleFacts DEF RecordingsInit, CallsOK, AllCovered
<1>3. GoneOK /\ IntactOK
  BY DEF RecordingsInit, GoneOK, IntactOK
<1> QED
  BY <1>1, <1>2, <1>3 DEF DeleteInv

\* Once a recording is deleted nothing is left of it, whatever other tabs delete, the order in
\* which prefixes are listed, and the requests that fail: unless the store failed or was written
\* to meanwhile.
THEOREM DeletedIsGoneHolds == RecordingsSpec => []DeletedIsGone
<1>1. DeleteInv => DeletedIsGone
  BY DEF DeleteInv, GoneOK, DeletedIsGone
<1> QED
  BY <1>1, DeleteInvInit, DeleteInvStep, PTL DEF RecordingsSpec

\* A recording that is still listed, with no request under way, has all its clips: no mixture of
\* refused deletes leaves one that cannot be played.
THEOREM ListedIsIntactHolds == RecordingsSpec => []ListedIsIntact
<1>1. DeleteInv => ListedIsIntact
  <2> SUFFICES ASSUME DeleteInv, vod, Busy = {}, ~failed PROVE clips \subseteq files
    BY DEF ListedIsIntact
  <2>1. \A c \in Calls : call[c].removed = 0
    BY IdleFacts DEF Busy
  <2> QED
    BY <2>1 DEF DeleteInv, IntactOK
<1> QED
  BY <1>1, DeleteInvInit, DeleteInvStep, PTL DEF RecordingsSpec

----------------------------------------------------------------------------
\* The names objects can have.
Names == Prefixes \X (1 .. MaxClips + MaxThumbs)

LEMMA ClipNames ==
  /\ ClipsOf(BroadcastKeys) \subseteq Names
  /\ \A n \in 1 .. MaxThumbs : <<Thumbs, n>> \in Names
BY RecordingsAssumption DEF ClipsOf, Names, Prefixes

LEMMA RecordingsTypeInit == RecordingsInit => RecordingsTypeOK
<1> SUFFICES ASSUME RecordingsInit PROVE RecordingsTypeOK
  OBVIOUS
<1>1. thumbnail \in 0 .. MaxThumbs /\ sent \in 0 .. MaxThumbs /\ faults \in 0 .. MaxFaults
  BY RecordingsAssumption DEF RecordingsInit
<1>2. clips \subseteq ClipsOf(BroadcastKeys) /\ late \subseteq ClipsOf(BroadcastKeys)
  BY DEF RecordingsInit
<1>3. files \subseteq Names
  <2>1. {<<Thumbs, n>> : n \in {thumbnail} \ {0}} \subseteq Names
    BY <1>1, ClipNames
  <2> QED
    BY <1>2, <2>1, ClipNames DEF RecordingsInit
<1>4. {vod, touched, failed} \subseteq BOOLEAN /\ tab \in [Calls -> BOOLEAN]
  BY DEF RecordingsInit
<1>5. \A c \in Calls : call[c].todo \subseteq Prefixes /\ call[c].names \subseteq Names
  BY DEF RecordingsInit, Idle
<1> QED
  BY <1>1, <1>2, <1>3, <1>4, <1>5 DEF RecordingsTypeOK, Names

\* A request takes a step.
LEMMA RequestTypes ==
  ASSUME CallsOK, RecordingsTypeOK, NEW c \in Calls, NEW r, call' = [call EXCEPT ![c] = r],
         r.todo \subseteq Prefixes, r.names \subseteq Names,
         UNCHANGED <<late, clips, thumbs>>, files' \subseteq files,
         {vod', touched', failed'} \subseteq BOOLEAN, tab' \in [Calls -> BOOLEAN],
         faults' = faults \/ Fault
  PROVE  RecordingsTypeOK'
<1>1. \A d \in Calls : call'[d] = IF d = c THEN r ELSE call[d]
  BY DEF CallsOK
<1>2. \A d \in Calls : call'[d].todo \subseteq Prefixes /\ call'[d].names \subseteq Names
  BY <1>1 DEF RecordingsTypeOK, Names
<1>3. faults' \in 0 .. MaxFaults
  BY RecordingsAssumption DEF RecordingsTypeOK, Fault
<1>4. files' \subseteq Names /\ late' \subseteq ClipsOf(BroadcastKeys) /\ clips' \subseteq ClipsOf(BroadcastKeys)
      /\ thumbnail' \in 0 .. MaxThumbs /\ sent' \in 0 .. MaxThumbs
  BY DEF RecordingsTypeOK, Names, thumbs
<1> QED
  BY <1>2, <1>3, <1>4 DEF RecordingsTypeOK, Names

LEMMA RecordingsTypeNext ==
  ASSUME DeleteInv, RecordingsTypeOK, [RecordingsNext]_recordingsVars
  PROVE  RecordingsTypeOK'
<1>1. /\ CallsOK /\ \A c \in Calls : call[c].todo \subseteq Prefixes /\ call[c].names \subseteq Names
      /\ files \subseteq Names /\ {vod, touched, failed} \subseteq BOOLEAN /\ tab \in [Calls -> BOOLEAN]
  BY DEF DeleteInv, RecordingsTypeOK, Names
<1>2. ASSUME NEW o \in late, Upload(o) PROVE RecordingsTypeOK'
  <2>1. files' \subseteq Names /\ o \in ClipsOf(BroadcastKeys)
    BY <1>1, <1>2, ClipNames DEF Upload, RecordingsTypeOK
  <2>2. touched' \in BOOLEAN
    BY <1>2 DEF Upload
  <2> QED
    BY <1>2, <2>1, <2>2 DEF Upload, RecordingsTypeOK, Names, thumbs
<1>3. CASE SendThumbnail
  <2>1. files' \subseteq Names /\ sent' \in 0 .. MaxThumbs
    BY <1>1, <1>3, ClipNames DEF SendThumbnail
  <2>2. touched' \in BOOLEAN
    BY <1>3 DEF SendThumbnail
  <2> QED
    BY <1>3, <2>1, <2>2, RecordingsAssumption DEF SendThumbnail, RecordingsTypeOK, Names
<1>4. CASE SaveThumbnail
  BY <1>4, RecordingsAssumption DEF SaveThumbnail, RecordingsTypeOK, store
<1>5. ASSUME NEW c \in Calls, NEW p \in Prefixes, List(c, p) PROVE RecordingsTypeOK'
  <2>1. PICK r : /\ call' = [call EXCEPT ![c] = r]
                 /\ \/ r = [call[c] EXCEPT !.at = "remove", !.todo = @ \ {p},
                                           !.names = {o \in files : o[1] = p}]
                    \/ r = [call[c] EXCEPT !.todo = @ \ {p}, !.errors = 1]
    BY <1>5 DEF List
  <2>2. r.todo \subseteq Prefixes /\ r.names \subseteq Names
    BY <1>1, <2>1 DEF CallsOK, Call
  <2>3. touched' \in BOOLEAN /\ (faults' = faults \/ Fault)
    BY <1>1, <1>5 DEF List
  <2>4. UNCHANGED <<late, clips, thumbs, files, vod, failed, tab>>
    BY <1>5 DEF List, store
  <2> QED
    BY <1>1, <2>1, <2>2, <2>3, <2>4, RequestTypes
<1>6. ASSUME NEW c \in Calls, Remove(c) PROVE RecordingsTypeOK'
  <2>1. PICK r : /\ call' = [call EXCEPT ![c] = r]
                 /\ \E n : r = [call[c] EXCEPT !.at = "list", !.names = {}, !.removed = n]
    BY <1>6 DEF Remove
  <2>2. r.todo \subseteq Prefixes /\ r.names \subseteq Names
    BY <1>1, <2>1 DEF CallsOK, Call
  <2>3. touched' \in BOOLEAN /\ (faults' = faults \/ Fault) /\ files' \subseteq files
    BY <1>1, <1>6 DEF Remove
  <2>4. UNCHANGED <<late, clips, thumbs, vod, failed, tab>>
    BY <1>6 DEF Remove
  <2> QED
    BY <1>1, <2>1, <2>2, <2>3, <2>4, RequestTypes
<1>7. ASSUME NEW c \in Calls, Ask(c) PROVE RecordingsTypeOK'
  <2>1. PICK r : /\ call' = [call EXCEPT ![c] = r]
                 /\ \/ r = [Idle EXCEPT !.at = "list", !.todo = Cleaned]
                    \/ r = [Idle EXCEPT !.at = "row", !.errors = 1]
    BY <1>7 DEF Ask
  <2>2. r.todo \subseteq Prefixes /\ r.names \subseteq Names
    BY <2>1, CleanedAll DEF Idle
  <2>3. faults' = faults \/ Fault
    BY <1>7 DEF Ask
  <2>4. UNCHANGED <<late, clips, files, thumbs, vod, touched, failed, tab>>
    BY <1>7 DEF Ask, store
  <2> QED
    BY <1>1, <2>1, <2>2, <2>3, <2>4, RequestTypes
<1>8. ASSUME NEW c \in Calls, NotFound(c) PROVE RecordingsTypeOK'
  <2>1. tab' \in [Calls -> BOOLEAN]
    BY <1>1, <1>8 DEF NotFound
  <2> QED
    BY <1>8, <2>1 DEF NotFound, RecordingsTypeOK, store, thumbs
<1>9. ASSUME NEW c \in Calls, NamesListed(c) PROVE RecordingsTypeOK'
  <2>1. PICK r : r = [call[c] EXCEPT !.at = "row"]
    OBVIOUS
  <2>2. r.todo \subseteq Prefixes /\ r.names \subseteq Names /\ call' = [call EXCEPT ![c] = r]
    BY <1>1, <1>9, <2>1 DEF CallsOK, Call, NamesListed
  <2>3. UNCHANGED <<late, clips, files, thumbs, vod, touched, failed, tab, faults>>
    BY <1>9 DEF NamesListed, store
  <2> QED
    BY <1>1, <2>2, <2>3, RequestTypes
<1>10. ASSUME NEW c \in Calls, Refuse(c) \/ Delete(c) \/ CutOff(c) PROVE RecordingsTypeOK'
  <2>1. Idle.todo \subseteq Prefixes /\ Idle.names \subseteq Names /\ call' = [call EXCEPT ![c] = Idle]
    BY <1>10 DEF Refuse, Delete, CutOff, Idle
  <2>2. /\ UNCHANGED <<late, clips, files, thumbs>> /\ (faults' = faults \/ Fault)
        /\ tab' \in [Calls -> BOOLEAN] /\ {vod', touched', failed'} \subseteq BOOLEAN
    BY <1>1, <1>10 DEF Refuse, Delete, CutOff, store
  <2> QED
    BY <1>1, <2>1, <2>2, RequestTypes
<1>11. CASE UNCHANGED recordingsVars
  BY <1>11 DEF recordingsVars, store, thumbs, RecordingsTypeOK
<1> QED
  BY <1>2, <1>3, <1>4, <1>5, <1>6, <1>7, <1>8, <1>9, <1>10, <1>11 DEF RecordingsNext, Request

\* Every variable keeps its type: a request names only prefixes and objects of the recording, and
\* no upload takes a clip or a thumbnail the broadcast does not have.
THEOREM RecordingsTypeCorrect == RecordingsSpec => []RecordingsTypeOK
BY RecordingsTypeInit, RecordingsTypeNext, DeleteInvInit, DeleteInvStep, PTL DEF RecordingsSpec
=============================================================================

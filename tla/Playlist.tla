------------------------------- MODULE Playlist -------------------------------
(***************************************************************************)
(* The HLS playlist of one stream key in one quality, and its segments, in *)
(* MinIO.  Two services rewrite the playlist without a lock: hls-packager, *)
(* once for every video.segment.ready event, and transcoding-service, in   *)
(* the two passes of finalizePlaylists after a broadcast.  Each of them    *)
(* reads the object in one request and writes it in another.               *)
(*                                                                         *)
(* A session is the life of one StreamWorker of the key.  OBS may connect  *)
(* again, so there are several, one after the other.  A playlist is what   *)
(* matters to a player: the segments listed, those with a discontinuity    *)
(* before them, and whether it has EXT-X-ENDLIST.                          *)
(***************************************************************************)
EXTENDS Naturals, Sequences, Functions

CONSTANTS
  MaxSessions,  \* bound: connections of OBS
  MaxSegments,  \* bound: segments FFmpeg writes in all sessions, and their numbers
  MaxFailures,  \* bound: requests to MinIO or Kafka that fail
  MaxCrashes,   \* bound: crashes of hls-packager
  None          \* no playlist

ASSUME PlaylistAssumption ==
  {MaxSessions, MaxSegments, MaxFailures, MaxCrashes} \subseteq Nat

Sessions == 1 .. MaxSessions
Segs == 0 .. MaxSegments

VARIABLES
  phase,     \* phase[s]: how far the worker of session s is
  start,     \* start[s]: FFmpeg's -start_number
  local,     \* local[s]: index.m3u8 in the temp directory of s
  made,      \* made[s]: segments FFmpeg wrote
  seen,      \* seen[s]: those the watcher has announced
  gone,      \* sessions whose temp directory is removed
  topic,     \* video.segment.ready: the events not yet consumed
  packager,  \* the handler of hls-packager: [pc, list], at the head of topic
  objects,   \* objects[n]: the session whose upload is segment n, 0 if there is none
  stored,    \* index.m3u8 in the bucket
  held,      \* held[s]: the playlist a finalize pass of s has read
  failures,  \* failures so far
  crashes,   \* crashes so far
  blind,     \* history: sessions that counted the segments too early, or could not
  unlisted,  \* history: sessions with a segment whose listing failed or was undone
  unmarked,  \* history: sessions whose discontinuity was not or is no longer asked for
  sealed     \* history: a finalize pass has seen everything

workerVars == <<phase, start, local, made, seen, gone, held>>
history == <<blind, unlisted, unmarked, sealed>>
playlistVars == <<workerVars, topic, packager, objects, stored, failures, crashes, history>>

Playlists == [segs : SUBSET Segs, disc : SUBSET Segs, end : BOOLEAN]
Empty == [segs |-> {}, disc |-> {}, end |-> FALSE]
ASSUME NoneIsNoPlaylist == None \notin Playlists

\* Before start(), in it (list, seed), on air, after FFmpeg has ended by itself, in
\* the 2.5 s of stop(), in its finalize pass, stopped, in the delayed pass, after it.
Phases == {"off", "list", "seed", "encode", "ended", "settle", "finalize",
           "done", "delayed", "over"}

PlaylistTypeOK ==
  /\ phase \in [Sessions -> Phases]
  /\ start \in [Sessions -> Segs]
  /\ local \in [Sessions -> Playlists]
  /\ made \in [Sessions -> 0 .. MaxSegments]
  /\ \A s \in Sessions : seen[s] \in 0 .. made[s]
  /\ topic \in Seq([session : Sessions, seg : Segs, disc : BOOLEAN])
  /\ packager \in [pc : {"idle", "read", "download", "list", "put"}, list : Playlists]
  /\ objects \in [Segs -> 0 .. MaxSessions]
  /\ stored \in Playlists \cup {None}
  /\ held \in [Sessions -> Playlists]
  /\ failures \in 0 .. MaxFailures /\ crashes \in 0 .. MaxCrashes
  /\ gone \cup blind \cup unlisted \cup unmarked \subseteq Sessions
  /\ sealed \in BOOLEAN

Free == [pc |-> "idle", list |-> Empty]

PlaylistInit ==
  /\ phase = [s \in Sessions |-> "off"]
  /\ start = [s \in Sessions |-> 0]
  /\ local = [s \in Sessions |-> Empty]
  /\ made = [s \in Sessions |-> 0]
  /\ seen = [s \in Sessions |-> 0]
  /\ gone = {}
  /\ topic = <<>>
  /\ packager = Free
  /\ objects = [n \in Segs |-> 0]
  /\ stored = None
  /\ held = [s \in Sessions |-> Empty]
  /\ failures = 0 /\ crashes = 0
  /\ blind = {} /\ unlisted = {} /\ unmarked = {} /\ sealed = FALSE

----------------------------------------------------------------------------
(* Playlists.                                                              *)

Present == {n \in Segs : objects[n] # 0}
Least(S) == {n \in S : \A m \in S : n <= m}
OrEmpty(p) == IF p = None THEN Empty ELSE p

\* getNextSegmentStartNumber.  Mutant: the largest number itself.
LastNumber == CHOOSE n \in Present \cup {0} : \A m \in Present : m <= n
NextNumber ==
  CHOOSE n \in Segs : (\A m \in Present : m < n) /\ (n = 0 \/ n - 1 \in Present)

\* The segment that starts a reconnected session: the first one that is new to
\* a playlist that is not empty.  Mutant: the last one.
LastNew(old, new) == {n \in new.segs \ old.segs : \A m \in new.segs \ old.segs : m <= n}
Boundary(old, new) == IF old.segs = {} THEN {} ELSE Least(new.segs \ old.segs)

\* mergeHlsPlaylists, with the finalized mark uploadPlaylistFromDisk keeps.
\* Mutants: FFmpeg's playlist replaces the old one; ENDLIST is dropped.
Replace(old, new, disc) == [new EXCEPT !.end = old.end]
Reopen(old, new, disc) ==
  [segs |-> old.segs \cup new.segs, disc |-> old.disc \cup new.disc, end |-> FALSE]
Merge(old, new, disc) ==
  [segs |-> old.segs \cup new.segs,
   disc |-> old.disc \cup new.disc \cup (IF disc THEN Boundary(old, new) ELSE {}),
   end |-> old.end]

\* filterPlaylistToExistingSegs.  Mutant: rows without an object stay.
Unfiltered(p) == p
Filtered(p) == [p EXCEPT !.segs = @ \cap Present, !.disc = @ \cap Present]

----------------------------------------------------------------------------
(* The session: StreamWorker and FFmpeg.                                   *)

Goes(s, p) == phase' = [phase EXCEPT ![s] = p]
Fails == failures < MaxFailures /\ failures' = failures + 1
OnlySession == UNCHANGED <<packager, objects, crashes>>

\* addStream, once stop() of the session before has returned.
Connect(s) ==
  /\ phase[s] = "off"
  /\ s > 1 => phase[s - 1] \in {"done", "delayed", "over"}
  /\ Goes(s, "list")
  /\ OnlySession
  /\ UNCHANGED <<start, local, made, seen, gone, held, topic, stored, failures, history>>

\* The start number: from the objects there are, or 0 if they cannot be listed.
CountSegments(s) ==
  /\ phase[s] = "list"
  /\ Goes(s, "seed")
  /\ \/ /\ start' = [start EXCEPT ![s] = NextNumber]
        /\ blind' = IF topic = <<>> THEN blind ELSE blind \cup {s}
        /\ UNCHANGED failures
     \/ /\ Fails
        /\ start' = [start EXCEPT ![s] = 0]
        /\ blind' = blind \cup {s}
  /\ OnlySession
  /\ UNCHANGED <<local, made, seen, gone, held, topic, stored, unlisted, unmarked, sealed>>

\* A reconnected session starts from the playlist in the bucket, less ENDLIST, or
\* from nothing if it cannot be read.  Then FFmpeg is started.
Seed(s) ==
  /\ phase[s] = "seed"
  /\ Goes(s, "encode")
  /\ \/ /\ local' = [local EXCEPT ![s] = IF start[s] = 0 THEN Empty
                                         ELSE [OrEmpty(stored) EXCEPT !.end = FALSE]]
        /\ UNCHANGED failures
     \/ start[s] > 0 /\ Fails /\ UNCHANGED local
  /\ OnlySession
  /\ UNCHANGED <<start, made, seen, gone, held, topic, stored, history>>

\* FFmpeg writes its next segment and lists it in its playlist.
WriteSegment(s) ==
  LET n == start[s] + made[s] IN
  /\ phase[s] = "encode"
  /\ n < MaxSegments /\ FoldFunction(+, 0, made) < MaxSegments
  /\ made' = [made EXCEPT ![s] = @ + 1]
  /\ local' = [local EXCEPT ![s].segs = @ \cup {n}]
  /\ OnlySession
  /\ UNCHANGED <<phase, start, seen, gone, held, topic, stored, failures, history>>

\* The watcher polls the directory: a segment it has not announced yet.
Unannounced(s) == seen[s] < made[s]

\* The first segment after a reconnect asks for a discontinuity.
PendingDiscontinuity(s) == start[s] > 0 /\ seen[s] = 0

\* The segment's number is the one in its file name.
SegmentReady(s) == [session |-> s, seg |-> start[s] + seen[s], disc |-> PendingDiscontinuity(s)]

\* The watcher finds the segment and its event is published.  A publish that fails is logged.
Announce(s) ==
  /\ phase[s] = "encode" /\ Unannounced(s)
  /\ seen' = [seen EXCEPT ![s] = @ + 1]
  /\ \/ /\ topic' = Append(topic, SegmentReady(s))
        /\ UNCHANGED <<failures, unmarked>>
     \/ /\ Fails
        /\ unmarked' = IF PendingDiscontinuity(s) THEN unmarked \cup {s} ELSE unmarked
        /\ UNCHANGED topic
  /\ OnlySession
  /\ UNCHANGED <<phase, start, local, made, gone, held, stored, blind, unlisted, sealed>>

\* FFmpeg ends by itself: cleanup(false) closes the watcher.
FfmpegEnds(s) ==
  /\ phase[s] = "encode"
  /\ Goes(s, "ended")
  /\ OnlySession
  /\ UNCHANGED <<start, local, made, seen, gone, held, topic, stored, failures, history>>

\* stop(): FFmpeg exits and the watcher is closed, whatever it has not found yet.
StopSession(s) ==
  /\ phase[s] \in {"encode", "ended"}
  /\ Goes(s, "settle")
  /\ OnlySession
  /\ UNCHANGED <<start, local, made, seen, gone, held, topic, stored, failures, history>>

\* The temp directory is removed 5 s after cleanup.
RemoveDir(s) ==
  /\ phase[s] \in {"ended", "done", "delayed", "over"}
  /\ s \notin gone
  /\ gone' = gone \cup {s}
  /\ OnlySession
  /\ UNCHANGED <<phase, start, local, made, seen, held, topic, stored, failures, history>>

\* finalizePlaylists reads the playlist: 2.5 s after the stop, and 8 s later
\* again.  There may be none, or the request fails; the pass is then over.
AfterPass(s) == IF phase[s] \in {"settle", "finalize"} THEN "done" ELSE "over"
FinalizeGet(s) ==
  /\ phase[s] \in {"settle", "done"}
  /\ \/ /\ stored # None
        /\ held' = [held EXCEPT ![s] = stored]
        /\ Goes(s, IF phase[s] = "settle" THEN "finalize" ELSE "delayed")
        /\ UNCHANGED failures
     \/ /\ \/ stored = None /\ UNCHANGED failures
           \/ Fails
        /\ Goes(s, AfterPass(s))
        /\ UNCHANGED held
  /\ OnlySession
  /\ UNCHANGED <<start, local, made, seen, gone, topic, stored, history>>

\* It writes back what it has read, with ENDLIST.  What hls-packager wrote in the
\* meantime is lost.
FinalizePut(s) ==
  /\ phase[s] \in {"finalize", "delayed"}
  /\ Goes(s, AfterPass(s))
  /\ held' = [held EXCEPT ![s] = Empty]
  /\ \/ /\ stored' = [held[s] EXCEPT !.end = TRUE]
        /\ sealed' = (sealed \/ (topic = <<>> /\ phase[s] = "delayed"))
        /\ IF stored.segs = held[s].segs /\ stored.disc = held[s].disc
             THEN UNCHANGED <<unlisted, unmarked>>
             ELSE unlisted' = Sessions /\ unmarked' = Sessions
        /\ UNCHANGED failures
     \/ Fails /\ UNCHANGED <<stored, sealed, unlisted, unmarked>>
  /\ OnlySession
  /\ UNCHANGED <<start, local, made, seen, gone, topic, blind>>

----------------------------------------------------------------------------
(* processSegment of hls-packager.                                         *)

Event == Head(topic)
Works(pc, p) == packager' = [pc |-> pc, list |-> p]
OnlyPackager == UNCHANGED <<workerVars, crashes, blind>>

\* The handler returns and the event's offset is resolved.
Finish == packager' = Free /\ topic' = Tail(topic)

\* An error is logged ("will retry on next event") and the event is over.
GiveUp ==
  /\ Finish
  /\ unlisted' = unlisted \cup {Event.session}
  /\ unmarked' = IF Event.disc THEN unmarked \cup {Event.session} ELSE unmarked
  /\ UNCHANGED <<stored, sealed>>
  /\ OnlyPackager

\* uploadSegment: the file may be gone.
UploadSegment ==
  /\ packager.pc = "idle" /\ topic # <<>>
  /\ Event.session \notin gone
  /\ objects' = [objects EXCEPT ![Event.seg] = Event.session]
  /\ Works("read", Empty)
  /\ OnlyPackager
  /\ UNCHANGED <<topic, stored, failures, unlisted, unmarked, sealed>>

\* The playlist FFmpeg has written so far.
ReadLocal ==
  /\ packager.pc = "read"
  /\ Event.session \notin gone
  /\ Works("download", local[Event.session])
  /\ OnlyPackager
  /\ UNCHANGED <<topic, objects, stored, failures, unlisted, unmarked, sealed>>

FilesGone ==
  /\ packager.pc = "read" \/ (packager.pc = "idle" /\ topic # <<>>)
  /\ Event.session \in gone
  /\ GiveUp
  /\ UNCHANGED <<objects, failures>>

\* downloadPlaylistText and the merge.  A failing request counts as no playlist.
Download ==
  /\ packager.pc = "download"
  /\ \/ /\ Works("list", Merge(OrEmpty(stored), packager.list, Event.disc))
        /\ UNCHANGED <<failures, unlisted, unmarked, sealed>>
     \/ /\ Fails
        /\ Works("list", Merge(Empty, packager.list, Event.disc))
        /\ unlisted' = Sessions /\ unmarked' = Sessions /\ sealed' = FALSE
  /\ OnlyPackager
  /\ UNCHANGED <<topic, objects, stored>>

ListSegments ==
  /\ packager.pc = "list"
  /\ Works("put", Filtered(packager.list))
  /\ OnlyPackager
  /\ UNCHANGED <<topic, objects, stored, failures, unlisted, unmarked, sealed>>

\* hls-packager restarts before the event's offset is committed.
Redelivered ==
  /\ crashes < MaxCrashes
  /\ crashes' = crashes + 1
  /\ packager' = Free
  /\ UNCHANGED topic

\* The put.  (FFmpeg's playlist has listed every segment of the session so far.)
PutPlaylist ==
  /\ packager.pc = "put"
  /\ stored' = packager.list
  /\ unlisted' = unlisted \ {Event.session}
  /\ (Finish /\ UNCHANGED crashes) \/ Redelivered
  /\ UNCHANGED <<workerVars, objects, failures, blind, unmarked, sealed>>

\* A request to MinIO other than the download fails.
PackagerFails ==
  /\ packager.pc \in {"list", "put"} \/ (packager.pc = "idle" /\ topic # <<>>)
  /\ Fails
  /\ GiveUp
  /\ UNCHANGED objects

PackagerCrashes ==
  /\ packager.pc # "idle"
  /\ Redelivered
  /\ UNCHANGED <<workerVars, objects, stored, failures, history>>

----------------------------------------------------------------------------
SessionStep(s) ==
  \/ Connect(s) \/ CountSegments(s) \/ Seed(s) \/ WriteSegment(s) \/ Announce(s)
  \/ FfmpegEnds(s) \/ StopSession(s) \/ RemoveDir(s) \/ FinalizeGet(s) \/ FinalizePut(s)

PackagerStep ==
  \/ UploadSegment \/ ReadLocal \/ FilesGone \/ Download \/ ListSegments \/ PutPlaylist
  \/ PackagerFails

PlaylistNext == (\E s \in Sessions : SessionStep(s)) \/ PackagerStep \/ PackagerCrashes

PlaylistSpec == PlaylistInit /\ [][PlaylistNext]_playlistVars

----------------------------------------------------------------------------
(* Properties.                                                             *)

\* A player is never pointed at a segment that is not in the bucket, however
\* uploads fail and the two writers of the playlist interleave
\* (filterPlaylistToExistingSegs).
ListedExists == stored # None => stored.segs \subseteq Present

\* With no event left, every segment in the bucket is in the playlist, whatever
\* session it is from and whatever failed before, unless the last listing of its
\* session failed or was overwritten (mergeHlsPlaylists keeps the clips of
\* earlier sessions, the next event repairs the playlist).
AllListed ==
  topic = <<>> =>
    \A n \in Present : objects[n] \notin unlisted => stored # None /\ n \in stored.segs

\* Where the clips of two sessions meet there is a discontinuity, unless the later one or
\* one after it counted the segments too early, and, as long as no event was delivered
\* twice, nowhere else.
ClipsAreStitched ==
  stored # None =>
    /\ \A s \in Sessions \ unmarked :
         /\ \A t \in blind : t < s
         /\ start[s] \in stored.segs /\ objects[start[s]] = s
         /\ \E n \in stored.segs : n < start[s]
         => start[s] \in stored.disc
    /\ crashes = 0 /\ blind \cup unmarked = {} => stored.disc \subseteq {start[s] : s \in Sessions}

\* No session overwrites a segment of an earlier one, unless it counted the
\* segments while some were still on their way (getNextSegmentStartNumber).
CountedClipsKept ==
  [][\A n \in Segs : objects[n] \notin {0, objects'[n]} => objects'[n] \in blind]_playlistVars

\* Once the delayed pass has run with no event left, the recording stays final:
\* late events and reconnects keep ENDLIST, unless the playlist could not be read.
SealedStaysFinal == sealed => stored.end

\* "Strips EXT-X-ENDLIST so a reconnect can continue the same media playlist"
\* (minio.ts): while a session is on air its segments are in an open playlist.
ReconnectIsOpen ==
  \A s \in Sessions :
    phase[s] = "encode" /\ stored # None /\ (\E n \in stored.segs : objects[n] = s)
      => ~stored.end
=============================================================================

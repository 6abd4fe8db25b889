# Castify, modelled in TLA+

Castify is a live-streaming platform: OBS publishes RTMP to nginx, `rtmp-ingest`
admits the stream, `transcoding-service` runs one FFmpeg per stream, `hls-packager`
puts segments and playlists into MinIO, `auth-service` keeps users, streams, keys,
recordings, plans and invites in PostgreSQL, `chat-service` runs the live chat,
`api-gateway` and the Next.js `web` app sit in front.  The services talk through
HTTP calls and three Kafka topics: `stream.started`, `stream.ended` (ingest to
transcoder) and `video.segment.ready` (transcoder to packager).

The project is about what happens when their steps interleave: the code has no unit
tests (`apps/hls-packager/scripts/verify-reconnect.mjs` is a manual check), almost
every handler reads, awaits and writes, and the pages of the web app set their state
from whatever answer comes last.

Contents: [inventory](#1-inventory), [plan](#2-plan), [modules](#3-modules),
[runs](#4-runs), [fairness](#5-fairness), [proofs](#6-proofs),
[where code and comments disagree](#7-where-code-and-comments-disagree),
[what the exceptions say about the code](#8-what-the-exceptions-say-about-the-code),
[not modelled](#9-what-is-not-modelled).

## 1. Inventory

Paths are relative to `src/apps/` unless they say otherwise.  "Hard" lists what a
test would hardly reach; PROJECT.json `hazards` has the lines.

| Component | State | Operations | Hard | Correct when | Module |
|---|---|---|---|---|---|
| `transcoding-service/src/worker/workerPool.ts` | map key -> worker, overflow queue | `addStream`, `removeStream`, `drainQueue`, `drainAll` | reconnects at the cap, duplicates in the queue, failed starts, shutdown | at most the cap encodes; the queue is FIFO and never idle beside a free slot; a finished stream holds nothing | WorkerPool, SlotQueue |
| `.../worker/streamWorker.ts`, `.../ffmpeg/process.ts` | worker state, child process, temp directory | `start`, `stop`, `cleanup`, exit and error callbacks | exit racing SIGINT and the 8 s kill; timers that fire later | every stop returns; a removed worker's process and directory are released | WorkerPool, Playlist |
| `.../watcher/segmentWatcher.ts`, `.../storage/minio.ts` | files seen; start number; playlist in MinIO | poll, `getNextSegmentStartNumber`, `seedTempPlaylistsFromMinio`, `finalizePlaylists` | reconnect while uploads are pending; two writers of one object | clips of earlier sessions survive; the playlist ends up complete and final | Playlist |
| `.../ffmpeg/builder.ts`, `.../profiles.ts` | - | the rungs of one FFmpeg | a plan or a ladder that changed since the wizard | what is offered is encoded, what is encoded was allowed | Ladder |
| `hls-packager/src` | segments and `index.m3u8` in MinIO | `processSegment`: upload, download, merge, filter, put | read-modify-write with no lock; redelivery; failed requests | a playlist lists only existing segments and in the end all of them | Playlist |
| `rtmp-ingest/src` | `validationCache`, `activeStreams` | `onPublish`, `onPublishDone`, `validateStreamKey` | done overtaking publish; the 30 s cache; unchecked answers | events balance; a revoked key is refused | StreamSession, Ladder |
| `auth-service`: stream keys, sessions, auto-end | Stream, StreamKey, Vod rows | validate, start, end, create, regenerate, rotate, revoke, `finalizeStream`, `autoEndInactiveStreams` | writes without a transaction, counts that are used later, from many callers | live means on air; ended means keys revoked and one Vod; limits hold; a creator keeps a key | StreamSession, KeyTable |
| `auth-service`: invites, private streams | StreamInvite, StreamAccess rows | create, revoke, `redeemInviteCode`, `canViewStream` | `maxUses` checked before the transaction | no more are admitted than `maxUses`; revoked, nobody is | Audience |
| `auth-service`: viewer presence | maps of heartbeats and counted views | `heartbeat`, `leave`, `markViewCounted`, prune; peak viewers | a map detached by pruning; lost and late leaves; check-then-set peak | who is counted is watching; one view per visit; the peak is the peak | Audience |
| `auth-service`: billing, plans | BillingSubscription, payments, webhook events, `user.plan` | checkout, verify, cancel, webhook, `syncUserPlanFromBilling` | duplicate and reordered webhooks; failure after the dedupe row | rows say what Razorpay says; the plan is what the rows stand for; one subscription is paid for | Billing |
| `auth-service`: recordings, thumbnails | Vod rows, objects | `deleteMyVod`, `deleteRecordingStorage`, thumbnail upload | two stores, partial failures, uploads that come late | what is deleted is gone, what is listed is whole | Recordings |
| `auth-service`: accounts, OAuth, follows | cookie, one row per follow | sign-in, sign-up, sign-out, OAuth return, follow | answers older than the cookie | the tab shows who is signed in | WebSession, BrowsePages |
| `chat-service/src` | rooms, sockets, buckets, bans, timeouts | join, leave, message, reaction, ban, timeout, sweep | awaits between the checks and the broadcast; close during join | a banned user is in no room and posts nothing; a socket is in one room | ChatRoom |
| `web/`: session, chat hook | user, chat token, one socket, timers | boot, login, logout, connect, retry | calls answered out of order, panels that close meanwhile | one socket, as who is shown; offline is said | WebSession |
| `web/`: the two HLS players | Hls instance, spinner, error, timers | effect, cleanup, quality, retry | an import that ends after the cleanup | one instance, of the selected rung | HlsPlayer |
| `web/`: dashboard and viewer pages | what they show | loads, polls, changes | loads overtaking each other, answers lost | at rest a page shows what is stored; polls catch up | KeysPage, StudioPage, StudioPanels, BillingPage, BrowsePages, Dashboard |
| `api-gateway` | rate-limit windows | proxy | none | - | no |
| `src/packages/*` | - | Kafka wrappers, Prisma client, config, types | one handler at a time | - | through their users |
| `src/infrastructure/` | - | nginx-rtmp callbacks, compose | one publisher per key | - | external, in StreamSession |

Interactions.  nginx calls `on_publish`/`on_publish_done` of rtmp-ingest (HTTP);
rtmp-ingest calls validate, start and end of auth-service (HTTP) and publishes two
topics; transcoding-service consumes them one handler at a time and publishes
`video.segment.ready`; hls-packager consumes that and reads the transcoder's temp
directory (a shared volume).  hls-packager and transcoding-service share one MinIO
object per quality, `index.m3u8`; auth-service deletes both.  auth-service derives
the recording's URL from the key.  The chat asks auth-service's tables who may read a
private stream.  The web app calls auth-service and chat-service, and Razorpay's
dialog and webhooks meet in `user.plan`, which clamps the ladder of a broadcast.

## 2. Plan

Done, in order of importance:

1. **WorkerPool** with **SlotQueue** as its abstract specification, and the proofs.
2. **StreamSession**: the broadcast between ingest and database, and proofs.
3. **Playlist**: the recording between transcoder, packager and MinIO, and proofs.
4. **ChatRoom**: bans against joins and messages in flight, and proofs.
5. **Billing**: checkout, verification, cancellation and webhooks against `user.plan`,
   and proofs.
6. **Audience**: presence, views, peak and the invite of a private stream, and proofs.
7. **Recordings**: the deletion of a recording, and proofs.
8. **Ladder** on **HlsPlayer**: the quality ladder from the wizard to the player, and proofs.
9. **WebSession**: who is signed in in a tab and its chat socket, and proofs.
10. **Dashboard**: the pages and the key table they share, composed of **KeyTable**,
    **KeysPage**, **StudioPage**, **StudioPanels**, **BillingPage**, **BrowsePages**, and
    proofs.

Every safety property of a run is proved.  Left: the liveness properties, which only TLC
can check.

## 3. Modules

### SlotQueue
What the pool promises: `active`, `waiting`, and `excused`, set once a start has
failed.  A newcomer takes a free slot only if nobody waits, or waits at the end;
the head is dispatched into a free slot.  No workers, processes or messages.

### WorkerPool
One transcoding-service.  `pool` and `queue` are the pool's map and queue;
`state`, `proc`, `cleanup`, `dir` describe each worker ever made; `handler` is the
program counter of the single Kafka handler in flight (`replace`, `remove`,
`drainAll` await a stop, `spawn` and `drainSpawn` await a start).  `published`,
`gotStarted` and `gotEnded` count the messages of a key.

| Action | Code |
|---|---|
| `AddStream`, `FinishReplace` | `addStream` before and after `await existing.stop()` |
| `StartSucceeds`, `StartFails` | the await in `spawnWorker` and its catch |
| `RemoveStream`, `FinishRemove`, `DrainQueue` | `removeStream`, `drainQueue`, one round per step |
| `Shutdown`, `FinishShutdown` | SIGTERM: disconnect, then `drainAll` |
| `FfmpegEnds`, `FfmpegFails` | the child's exit, the two callbacks |
| `ForceKill`, `Settle` | the 8 s timer of `FfmpegProcess.stop`; the rest of `cleanup(true)` |
| `Broadcast`, `LoseMessage` | rtmp-ingest: events in turn per key; events dropped |

Assumptions on kafkajs: `eachMessage` runs one handler at a time over both topics;
a partition is FIFO, two topics have no order; a redelivered `stream.started` may
come at any later time; `disconnect` waits for the handler in flight.
`MaxWorkers` bounds the workers ever made, not those alive.

### StreamSession
The Stream, StreamKey and Vod tables of one creator, and rtmp-ingest's two maps.
Every handler is split at its awaits.  `pub[k]` is the `on_publish` handler of key
`k` (nginx admits one publisher per name, so there is one); `fin[f]` is a call of
`finalizeStream`: "ingest" from `on_publish_done`, the others from "End
Broadcast" or the auto-end job; `studio` is one key-management request.  Callbacks
of a key arrive in order but may overlap: `on_publish_done` may run while
`on_publish` waits.  Merged reads, each without loss: `CountLive` counts and
answers (the start request counts again); `FinalizeFindVod` reads key and Vod;
`CreateKey` counts keys and reads the newest.  Keys are numbered by `createdAt`; a
Vod is the key its `playlistUrl` names.

The history variables name the situations in which the code gives no guarantee:
`lateKeys`, `overtaken`, `broken`, `contended`, `crowded`.  Properties exclude
exactly these, so the run shows that nothing else breaks them.  `contended` has the
pairs of a stream and the write that two finalizers of it came to at once: "create",
which may leave two Vods, and "repoint", where the finalizer that read the keys first
may write last.

### Playlist
One key, one quality: the qualities are handled by the same loop and share nothing
but the events.  A session is one StreamWorker; sessions follow one another (the
pool awaits the stop), but the delayed finalize pass and the removal of the temp
directory of one reach into the next.  A playlist is `[segs, disc, end]`: the
segments listed, those after a discontinuity, `EXT-X-ENDLIST`.  A session with the
same key after another is reachable when the end request failed or the key was
still cached: `finalizeStream` revokes it otherwise.

| Action | Code |
|---|---|
| `Connect`, `CountSegments`, `Seed` | `StreamWorker.start`, `getNextSegmentStartNumber`, `seedTempPlaylistsFromMinio` |
| `WriteSegment`, `Announce` | FFmpeg, `SegmentWatcher` and the publish |
| `FfmpegEnds`, `StopSession`, `RemoveDir` | exit, `stop`, the 5 s timer |
| `FinalizeGet`, `FinalizePut` | `finalizePlaylists`, both passes |
| `UploadSegment` ... `PutPlaylist` | `processSegment`, one action per request to MinIO |
| `FilesGone`, `PackagerFails`, `PackagerCrashes` | missing file, failing request, restart before the offset commit |

Abstracted: FFmpeg writes a segment and its playlist in one step and its own
`append_list` discontinuity is left out; target duration, media sequence, playlist
type and the master playlist carry no property; one event in flight is redelivered
after a crash (`autoCommit` after each message).

### ChatRoom
One chat-service.  `rooms`, `members` and `log` are the manager's map, and the
clients and number of messages of each ChatRoom; `socket`, `room`, `words` belong to
a SocketClient; `req[h]` is a handler of a join or a message at an await, and
`bans` the ChannelBan rows.  `onMessage` is not awaited, so the handlers of one
socket overlap as freely as those of two, and a handler outlives its socket.

| Action | Code |
|---|---|
| `Connect`, `Disconnect` | `onConnection`, the close event |
| `ReceiveJoin`, `ReadAccess`, `ReadBan`, `SweepBan`, `EnterRoom` | `handleJoin`, cut at the queries of `canAccessStreamChat` and `isChannelBanned` |
| `ReceiveMessage`, `TimedOut`, `FetchWords`, `PostCached`, `PostFetched` | `handleChatMessage`, cut at `isTimedOut` and `getBannedWords` |
| `RequestFails`, `WordsExpire` | the catch of `onMessage`; the 30 s of the word cache |
| `Ban`, `DisconnectUser`, `Unban`, `BanExpires` | the owner's requests, before and after the upsert; time |

Abstracted: messages are counted; the answers of the invite, timeout and word
queries are free, so their rows need no state; a `close()` starts a handshake during
which messages still arrive (`closing`); one moderation request at a time.

The history variables name the races: `overlapped` (two joins of one socket in
flight put it into two rooms), `late` (a join enters for a socket that has closed),
`overtaken` (a join had read the bans before `disconnectUser` ran), `lifted` (an
expired ban renewed while a join is about to delete it by id), `moved` (a message in
flight of a socket that entered another room, so that `cacheBannedWords` may cache
the old room's words).  The properties hold outside these.

### Billing
The subscriptions of one user.  `rows`, `made`, `touched`, `payments` and `seen` are
the BillingSubscription rows, their order by `createdAt` and by `updatedAt`, the
BillingPayment and the BillingWebhookEvent rows; `remote` is Razorpay's side.  A
request is a list of steps (`job[h].todo`), one per query or call of Razorpay, so that
any two requests interleave at every await: "apply" is `applySubscriptionEntity`,
"sync", "rest", "set" the two reads and the write of `syncUserPlanFromBilling`,
"force" and "grant" the two writes of `verifySubscriptionPayment`, and so on.

| Action | Code |
|---|---|
| `ReceiveCheckout`, `Create`, `Insert` | `createSubscriptionCheckout` |
| `ReceiveVerify`, `Fetch`, `ForceStatus`, `Grant`, `Record` | `verifySubscriptionPayment`, `recordBillingPayment` |
| `ReceiveCancel`, `Cancel`, `Close` | `cancelMySubscription` |
| `ReceiveEvent`, `Duplicate`, `DedupeFails`, `Apply` | `razorpayWebhook` |
| `SyncRead`, `RestRead`, `SetPlan` | `syncUserPlanFromBilling` |
| `RequestFails` | a query that throws; auth-service restarts |
| `Pay`, `Charge`, `ChargeFails`, `Halt`, `Pause`, `Resume`, `CancelNow`, `Complete`, `PeriodEnds` | Razorpay, external |

Abstracted: `currentEnd` is the number of periods charged; a valid signature is given
once per payment; events carry an id (the fallback id, made of the time, is never
seen twice); finding the row and inserting the dedupe row are one step; a checkout that
finds a subscription in "CREATED" shows it again and changes nothing, so it is no
action.  Histories: `lost`, `disordered`, `unsynced`, and `doubled`: two checkouts were at
work at once, or one that passed over a paused row whose subscription Razorpay resumes,
before the checkout (and tells of it late) or after.

### Audience
One stream in auth-service and the watch pages on it.  `mapped`, `present`, `stale`,
`counted` are the presence map of the stream: whether it is in the outer map, its
entries, those older than `STALE_MS`, those counted; it changes without awaits, as
in the code.  `req[r]` is a heartbeat ("read", "beat", "view", "peak": the awaits of
`streamHeartbeat`), a leave or a redemption ("redeem", "grant": before and in the
transaction).  `Prune` is `pruneStream`, which `Look` runs for the lists and polls.
Histories: `ghosts`, `astray`, `raced`, `contested`, `admitted`.

### Recordings
`deleteMyVod` and `deleteRecordingStorage`, one step per request to the store (a
listing, a removal in part or in whole) and to the database, while the last clips of
the broadcast and a thumbnail are uploaded and another tab deletes too.

### HlsPlayer and Ladder
HlsPlayer is both players (`studio` tells which): `importing` are the runs of the
effect that wait for `import("hls.js")`, with the flag their cleanup sets; `hls` the
instances not destroyed; `timers` the timeouts.  The actions of the two players are
named apart (`ViewerGivesUp`, `StudioGivesUp`, ...) where they differ.  Ladder extends
it with the path of the ladder: wizard (`Entitlements`, `Toggle`, `Submit`),
`createStream` (`Accepted`), `validateStreamKey` (`Clamped`), the cache of rtmp-ingest
(`Publish`, `CacheExpires`), the transcoder (`Profiles`, `Package`, `PackageMaster`),
`buildPlayback` and the studio (`Answer`).  A rung is its rank.  The players' network
and media errors, timers and retries are all actions; whatever plays natively (Safari),
plays a finished recording, or only measures, is left out.

### WebSession
One browser tab: `cookie`, AuthProvider's `shown` and `loading`, `cached` (the chat
token in memory), the calls in flight, and the refs of `useStreamChat`: `session`,
`sockets`, `ws`, `timer`, `attempts`, `failed`, `error`.  A call carries the cookie of
the moment it is sent, its cookie is stored when the response arrives, its
continuation runs later.  A full page load (OAuth) drops all but the cookie.
Abstracted: the login page does not ask who is signed in; a logout that fails on the
server leaves the cookie.

### KeyTable, KeysPage, StudioPage, StudioPanels, BillingPage, BrowsePages, Dashboard
KeyTable is stream-key.controller for one creator, with every request cut at its
queries; two of them run at a time.  A page is a module: KeysPage and StudioPage issue
KeyTable's requests and draw their answers, StudioPanels loads invites, bans and
words after every change, BillingPage is `handleSubscribe`, `handleCancel`, `load`
and `loadRazorpayScript`, BrowsePages the four viewer pages.  Dashboard puts pages
together in scenes: pages that share nothing need no common scene.  What a request
does to rows that only its own service reads is one step (`finalizeStream` here, the
billing requests): StreamSession and Billing have their steps.

Abstracted: confirmation dialogs but the billing page's; creating a stream and its first
key is one step; the list of the keys page is a bag (a key could be listed twice),
the other lists are sets; what is found is a number (`listing`) and a query is a number; the
401 redirect of the watch page and the failing load of a profile, which shows no
button, are left out.

## 4. Runs

| Run | Shows | Bounds and why they are enough | States |
|---|---|---|---|
| `mc_pool` | cap, FIFO and no idle slot, agreement with the air, release of removed workers, handlers return, refinement of SlotQueue | 2 keys for 1 slot: k1 reconnects while k2 waits; 1 redelivery; 4 workers, one for each message consumed | 224,445 |
| `mc_session` | tables, cache and events agree at rest; limit on live streams; abandoned sessions end | 1 stream, 2 keys, 2 connections, 1 studio request or 1 failure, one finalizer beside `on_publish_done`: every pair of handlers meets; or 2 streams and a plan for 1 live (`FewRequests`) | 674,513 |
| `session_end` | finding | 1 stream, nothing fails | violation |
| `mc_playlist` | listed segments exist, all get listed, stitching, final stays final, clips kept | 2 sessions, 3 segments in all and with numbers below 3 (a session may have 0 to 3), 1 failure, 1 crash: both writers and both passes overlap the next session | 3,918,163 |
| `playlist_reopen` | finding | 2 sessions, 2 segments, nothing fails | violation |
| `mc_chat` | rooms and sockets agree, one socket per user, bans empty rooms, words of the right stream | 2 sockets of one user, 2 streams (one her own, one private), 2 handlers at a time, 3 joins, 2 messages, 2 bans, 6 of these in all (`FewInputs`): a socket can join, post, move on and post again, with a join, a message or a ban in between; symmetry of sockets and of handlers, which no property tells apart | 1,395,229 |
| `mc_billing` | rows follow Razorpay, the plan follows the rows, one live subscription | 2 subscriptions, 2 requests at a time, 3 events, 1 cancellation, 1 failure, 5 inputs in all, a failure counting twice; 4 events and 6 inputs for one subscription nobody touches (`FewInputs`): a period can be paid, cancelled, over, and its events overtake each other; symmetry of the requests | 2,432,674 |
| `mc_audience` | who is counted watches, views and peak, the invite | 3 tabs of 2 viewers, 2 requests at a time, an invite for one, 3 page loads, 3 heartbeats, 2 redemptions, 1 mishap, 6 of these in all: two tabs of one viewer, and two viewers, overlap | 1,166,720 |
| `mc_web` | one socket, as who is shown; offline is said | 2 users, 2 calls at a time, 2 attempts to reconnect, 1 failing call, 5 connects and disconnects | 341,074 |
| `mc_ladder` | what is offered is encoded and allowed; one player instance; a missing rung is left | 3 rungs, 2 for FREE, 2 keys, 3 turns (broadcasts, changes of plan, clicks, failures) | 401,500 |
| `mc_dashboard` | keys within the plan, a key is left, pages show what is stored, polls catch up | 9 scenes, 2 requests at a time, 2 active keys of 3 ever made, 1 failure, 2 polls in flight, queries and lists that change once or twice (`FewEvents`) | 908,238 |
| `mc_recordings` | deleted is gone, listed is whole | 2 keys of 1 clip, 2 thumbnails, 2 tabs that delete, 2 faults: one request fails in part while another succeeds | 1,087,943 |

State constraints bound inputs only.  Under `mc_session` and `mc_dashboard` there are
liveness properties too; the states they cut off lie behind one more studio request or
one more change of a row, which take nothing from the fairness of what is under way.

Deadlock is not checked: the transcoder exits after `Shutdown`, OBS need not
connect again, the last session is over after its delayed pass, and every input of the
other runs may run out.  "Nothing hangs" is stated by the liveness properties instead.

Properties.  The ones with a condition say when the code keeps its promise; the
conditions are history variables, never guards:

- `OrderedEncodersWithinCap`: processes stay within the cap as long as no key's
  messages were reordered, lost or repeated.
- `PoolTracksBroadcasts`: once a key's messages are consumed in order, it has a slot
  or a place in the queue exactly if it is on air.
- `RemovedIsReleased`: a worker out of the map has no live FFmpeg (but one that
  ignores SIGINT and has been sent SIGKILL) and its directory is due for removal.
- `LiveMeansOnAir`, `EndedIsFinalized`, `OneVod`, `EventsBalance`: see the comments
  in StreamSession; they hold at rest, when no handler works on the stream.
- `AllListed`, `ClipsAreStitched`: the read-modify-write of two services loses no
  segment for good, except those named by `unlisted`, and no discontinuity, except those
  named by `unmarked` and those before which a later session puts clips because it
  counted the segments too early (`blind`).
- `CountsAgree` is `VisitsCountOnce` and `PeakIsReached`; `SignedInAgrees` is
  `ShownIsSignedIn` and `ChatAsSignedIn`; `ShownIsStored` has one part per page
  (`PlanAsShown`, `KeysAsShown`, `PanelsAsShown`, `BrowseAsShown`), and so has
  `PollsCatchUp` (`WatchCatchesUp`, `StudioCatchesUp`, `ExploreCatchesUp`,
  `CheckoutEnds`).

Every component has a `TypeOK`; it holds in every run but is no property of one, because it
is proved of every component (section 6).

## 5. Fairness

- WorkerPool: weak fairness of the handler's continuation and of the two timers.
  Nothing is assumed of FFmpeg, delivery or OBS; a handler returns even if FFmpeg
  ignores SIGINT.
- StreamSession: weak fairness of the steps of a request under way (a step that
  fails is a step); strong fairness of the auto-end job (`AutoEndJob`), which runs every
  five minutes and looks at all streams.  Strong, because the `Requests` slots it shares
  with the studio are a bound of the model: in the code the job waits for nobody.
- HlsPlayer: the import of hls.js ends, hls.js finds out that a playlist is not there,
  timers fire.  Nothing is assumed of users, the transcoder or the network.
- Dashboard: requests of the auth-service are answered or given up (`api.ts` aborts
  them after 12 s), timers of the polls fire (strong for the studio's, because the page's
  own clicks share the bound on `Calls` with it), and the browser ends the loading of a
  script (`BillingGoes`).  Not assumed: that a user answers a dialog, or that a request
  of the chat panels, whose `chatFetch` has no timeout, is answered.
- Playlist, ChatRoom, Billing, Audience, WebSession and Recordings have no liveness
  property.

## 6. Proofs

Checked by TLAPS for every value of the constants, from the assumption named in the
component's module (`PoolAssumption`: finite set of keys, positive cap, bounds natural,
`None` neither a key nor a number; `PlaylistAssumption`, `NoneIsNoPlaylist`;
`WebSessionAssumption`, `SessionAssumption`, `ChatAssumption`, `RecordingsAssumption`,
`LadderAssumption`, `BillingAssumption`, `AudienceAssumption`: every page has a viewer, the
viewers and the requests are finite sets; `KeyTableAssumption`, `PanelsAssumption`,
`BillingPageAssumption`, `BrowseAssumption`: the requests at a time are finite sets, the
bounds natural and the plan allows a key; `DashboardAssumption`: a scene is a set of the
eight pages, any of them together).

- **WorkerPool_proofs**: `TypeCorrect` and `CapacityHolds`.  The invariant `PoolInv`
  is the type invariant in parts (`BusOK`, `MapOK`, `WorkersOK`, `HandlerOK`) with
  `HandlerKey` (while a handler waits for a worker, it has a key and the map has a
  worker for it; otherwise `pool[handler.key]` would not be typed) and `CapOK`.
  `TypeOK` alone is not inductive, for that reason.  The cap needs three lemmas on
  the cardinality of the map (`ActiveFinite`, `DeleteShrinks`, `SetKeepsCap`).

  `WaitsOnlyWhenFullHolds` and `PoolRefinesSlotQueue`: `QueueInv` adds that between
  handlers a non-empty queue means a full map unless a start failed (`QueueOrder`), that
  the queue is empty during shutdown (`QueueCleared`), and that a handler that waits
  holds its key's slot (`HeldKey`).  Each step then maps to a step of SlotQueue or a
  stutter; `FinishReplace`, which frees and retakes one slot, maps to a stutter, and
  `FinishShutdown` empties every slot at once (`Close`).

  `RemovedIsReleasedHolds`, `OrderedEncodersHolds` and `PoolTracksHolds`: `RunInv` says of
  a key whose messages were consumed in order what the map, the queue and its workers
  have to do with the messages: it waits at most once and not beside a worker of its own,
  a worker is released at the moment it leaves the map, and the numbers of messages
  consumed tell whether the key is on air.  The processes are then no more than the keys
  of the map, because the workers of FFmpegs inject into them.
- **WebSession_proofs**: `OneSocketHolds`, `NeverSilentlyOfflineHolds`, `SignedInAgreesHolds` and
  `WebSessionTypeCorrect`, for any number of calls, users and sessions.  `PanelInv` says
  what `useStreamChat` relies on without saying so: at most one token call is awaited
  (`Awaited`: its session is the current one), and while it is there is no socket, no
  timer and no failure (`TokenOK`); a timer means an open panel without a socket; a
  failure is shown.  `SignInv` adds whose the chat token in memory and the one on its way
  are (`OwnerOK`, unless something of another user was `kept`), and that calls which
  write the cookie come one at a time and every call in flight knows the cookie there is,
  so that whoever is shown wrongly has a call that will correct it (`CookieOK`, unless
  they `raced`).
- **StreamSession_proofs**: `EventsBalanceHolds`, `LiveWithinLimitHolds`,
  `EndedIsFinalizedHolds`, `LiveMeansOnAirHolds`, `RevokedNotFromCacheHolds`,
  `OneVodHolds` and `SessionTypeCorrect`.  The
  properties speak of streams and keys at rest, so none is inductive; `SessionInv` says
  what holds of them meanwhile.  `KeysOK` follows a key that was never overtaken through
  its connection (a cached key is in `activeStreams`, which is why a new connection never
  finds it cached; an event is owed by the handler or by the finalizer that names the
  key), `LimitOK` keeps room for the one start that is past its count, `EndOK` and
  `LiveOK` say which finalizer still has to revoke, write the Vod or take the stream
  off the air.  Frame lemmas (`OneKey`, `EndFrame`, `AtStep`, ...) carry each part over
  the steps of the others.  `VodInv` adds for `OneVod` that at most one finalizer of a
  stream is about to create its Vod (`ListOK`), that a repointed Vod gets a later key
  (`PointOK`), and that the Vod of an ended stream points at the newest key, or some
  finalizer is going to make it, unless that key has never been on air (`AimOK`).
  The attempt to prove it found the crossing of two repoints, which takes a third key,
  one more than `mc_session` has: with the exception named, the theorem holds for any
  number of keys.  The types say that whatever the database, the cache, `activeStreams`, a
  finalizer or a Vod names is a row that was made.
- **ChatRoom_proofs**: `OneSocketPerUserHolds`, `RoomsAgreeHolds`, `BannedStayOutHolds`,
  `FilteredByOwnWordsHolds` and `ChatTypeCorrect`.  `ChatInv` adds what a join in flight has been told of
  the bans and of its socket (`JoinsOK`, `ClosedOK`, `SentencesOK`), and what the words
  of a socket are while it has messages in flight (`WordsOK`).
- **Audience_proofs**: `InviteHoldsHolds`, `CountsAgreeHolds`, `PresentHolds` and
  `AudienceTypeCorrect`, for any finite sets of viewers and requests.  `AudienceInv` adds that the uses counted leave
  room for the one redemption past its check (`InviteOK`), that a present viewer without
  a tab has a leave under way or is in `ghosts` (`PresentOK`), that every view made or on
  its way, and every viewer yet to be counted, has a visit of its own (`VisitOK`), and
  that the one heartbeat at work knows the peak (`PeakOK`).
- **Billing_proofs**: `RowsFollowHolds`, `PlanFollowsHolds`, `OneLiveHolds` and
  `BillingTypeCorrect`, for any
  number of subscriptions, requests at a time, events, cancellations and failures.
  `BaseHolds` is what they stand on: `BaseInv` says what the list of steps of a request may
  be (`StepsOK`: what changes a row or the plan has a sync behind it), what it knows of its
  subscription (`KnowsOK`), that no two requests are of one event (`JobsOK`), that what
  has not been paid for has no events (`UnpaidOK`), and that what has not come to an end is
  nowhere said to have (`EndedOK`).  On it `PaymentInv`: a charge is recorded, or its event
  is not begun, or a request is still to record it; `StatusInv`: the newest event nobody
  has begun says what Razorpay says, and without one the row does, or the one request of
  the subscription is about to write it; `PlanInv`: a sync that is not stale knows the plan
  and the rows, and if the plan does not fit the rows some request has a sync to do;
  `LiveInv`: a checkout that is about to create has found nothing that is live or can be paid for.
  A step of a request is first shown to be a `Progresses`, of which the invariants are
  proved once; `NextIs` is the split of `Next` into these and the other actions.
  `OneLiveSubscription` was false of an earlier model beyond the bounds of its run: a
  subscription that is paused does not keep a second from being made, and Razorpay may
  resume it.  The code allows this, and `doubled` now tells of it.

  `TypeInv` carries the types: `ListsOK`, the orders of `createdAt` and `updatedAt` list every
  row once (`MovedLastLists`: a row that is updated goes to the end of its list and no other
  is lost); `EndsOK`, nothing names a period of which no event has told, so that a payment is
  always of a period there is; `CountsOK`, the bounds and the histories.
- **Playback_proofs**, of Playlist: `ListedExistsHolds` and `SealedStaysFinalHolds`.  `ListedExists`
  says nothing of a playlist that has been read and is yet to be put, so it is not
  inductive; `ListInv` adds that the playlist the packager is about to put (`PackagerOK`)
  and those the finalize passes hold (`HeldOK`) are in the bucket too, which stays true
  because no step of Playlist takes an object out of it (`BucketGrows`; the deletion of an
  ended recording is in Recordings).  `SealInv` adds to `SealedStaysFinal` that the
  packager, between its read and its put, holds an ended playlist.

  `CountedClipsKeptHolds`: `OrderInv` adds that `topic` is in the order of sessions and
  numbers and that a session which counted the segments with no event left (not in
  `blind`) has every number from its start for itself (`CountOK`).  `AllListedHolds`:
  `KnownInv` adds that the local playlist has all clips of its session (`LocalOK`), and
  that a clip in the bucket is listed, or is of the session whose event is next
  (`KnownOK`).  `ClipsAreStitchedHolds`: `StitchInv` adds that the playlist has only grown
  while a discontinuity is still asked for (`GrownOK`), that a session's first clip has
  asked for its discontinuity before it is listed (`StitchOK`), and that nothing else asks
  for one (`PlainOK`).  "The first event of a session" is the least element of a set of
  numbers, which `LeastNatural` has from the well-foundedness of `<`.

  The attempt to prove `ClipsAreStitched` found an exception that two sessions cannot
  show: a third session that counted too early starts at 0 and puts its clip before the
  first clip of the second, which had found an empty playlist and asked for nothing.
  Of Ladder, `PlaysWhatIsSelectedHolds` and `OfferedIsEncodedHolds`:
  `PlayInv` adds that an import that is not cancelled is of `ActiveUrl`; `LadderInv` follows
  the ladder through the wizard, the stream row, the cached validation and the broadcast.

  Of Recordings, `DeletedIsGoneHolds` and `ListedIsIntactHolds`: `DeleteInv` adds
  that what a request has still to list or to remove covers all that is left
  (`AllCovered`), and that whoever has removed something is going to delete the row
  (`IntactOK`).  (Playlist and Recordings name their `PlaylistInit`, `RecordingsInit` and so
  on apart because this module extends all three.)

  `PlaylistTypeCorrect`, `LadderTypeCorrect` and `RecordingsTypeCorrect` prove the types of
  the three.  The attempts found what the types take of the bounds and nobody had said: a
  recording has a thumbnail only if the bound allows one (`RecordingsInit`), a stream is made
  with its first key, so there is one (`LadderAssumption`), and the turns of a player are
  counted to a number (`HlsPlayerAssumption`).
- **Dashboard_proofs**: `KeysWithinPlanHolds`, `LastKeyKeptHolds`, `ShownIsStoredHolds` and
  `DashboardTypeCorrect`, for any set of scenes, plan, number of keys, requests, handlers
  and loads at a time, failures and changes made elsewhere.  `PlanInv` says what a request
  knows that has counted and not been overtaken (`late`): there is room for one key more
  (`RoomOK`), or a key beside the one to be revoked (`LeftOK`).  `ShownIsStored` is about
  pages at rest; the invariants say what a page that is not at rest is still to be told:

  - `KeysInv`: the requests of the keys page either only patch the list (`PatchOK`: what
    is active is what is listed and the keys made of which the page is yet to be told,
    less the keys revoked of which it is yet to be told; no key is patched twice), or
    one of them replaces it (`ReplaceOK`: what it has read is what is active, or it is yet
    to read).  An answer that replaces the list comes alone, unless `crossed`.
  - `PanelsInv`: a handler that has read an old list is followed by one that will read it
    or has read the new one (`FollowedOK`), unless `outdated`; so is what is shown (`ShownOK`).
  - `BillsInv`: either a change of the plan is under way, or the load of its handler is the
    newest of those in flight and right (`NewestOK`), or what is shown is right or being
    loaded (`QuietOK`), unless `misled`.
  - `BrowseInv`: of the searches of the library the newest is in flight, or all in flight
    are known to be older than what is shown (`LibraryOK`); the profile has one request at a
    time, and knows the row or has changed it (`ProfileOK`).
  - `TypeInv` adds for the types who asks for what and that what a request has seen was made.

  The attempt to prove `KeysWithinPlan` found that it was false beyond the bounds of its
  run: when the keys of a stream are gone a rotation makes one that nobody has counted, and
  the second rotation put in its place a key that the history took for a counted one.
  The key of a rotation now counts only if it takes the place of one that was counted
  (`RevokeOfStream`); the code counts neither (`rotateStreamKeys`, section 8).

One action, one lemma; each lemma has one step per part of the invariant that the
action disturbs.

Model-checked only:

- The liveness properties `HandlerReturns`, `IdleSessionsEnd`, `LeavesMissingRung` and
  `PollsCatchUp`: fairness and ENABLED are beyond the prover.

No module uses RECURSIVE, and no operator is defined by recursion over data, so no proof
needs an induction over sequences or sets.  Where `FoldFunction` counts segments it is a
bound in a guard, of which no proof uses more than that it is there.

## 7. Where code and comments disagree

Each of these is a property that a run refutes:

| Run | Text | What the code does |
|---|---|---|
| `session_end` | "Permanent end" (stream-key.controller.ts:417) | a start that was validated before clears `endedAt` |
| `playlist_reopen` | "Strips EXT-X-ENDLIST so a reconnect can continue" (minio.ts:69; verify-reconnect.mjs:129 asserts it) | the packager keeps the stored ENDLIST, and the delayed pass adds it |

And these are named by the exceptions of properties that hold:

| Property and exception | Text | What the code does |
|---|---|---|
| `OrderedEncodersWithinCap`, ordered messages | "Hard concurrency cap" (workerPool.ts:11) | a key queued twice gets two workers; the first leaves the map and encodes on |
| `OneVod`, newest key on air | "Resolve ingest key used for this broadcast" (stream.utils.ts:58) | the newest key of the stream is taken, whether used or not; of two finalizers that repoint the Vod (line 89), the one that read the keys first may write last, an older key |
| `CountedClipsKept`, `blind` | "so reconnects do not overwrite prior clips" (minio.ts:27) | the start number ignores segments still in Kafka |
| `BannedStayOut`, `overtaken` | "Before chat-service broadcasts a message, it calls moderation-service to check: Is the sender banned" (README.md:199) | bans are read at the join only; a join that read them before the ban enters after it and posts |

## 8. What the exceptions say about the code

Found while the properties were made true; each is a behaviour the models have:

- Keys: `createStream`, `rotateStreamKeys` and the bootstrap of `getStreamKeys` make a
  key without counting (`uncounted`); two revocations may both find two keys.
- Billing: a webhook whose dedupe row could not be inserted, or that failed after it,
  is lost for good (`lost`); events out of order leave an older status (`disordered`);
  two checkouts at once make two subscriptions, and so does one that is begun while a
  subscription is paused, when Razorpay resumes that (`doubled`); a sync that had read before
  another's change writes what it read (`unsynced`).  After a cancelled period PRO stays
  until something else runs a sync, and a plan set to ENTERPRISE by hand is
  overwritten when a payment is verified after it.
- Audience: a map that a heartbeat prunes to nothing is detached, so that the viewer is
  missed and counted again (`astray`); two first heartbeats leave the lower peak
  (`raced`); two redemptions exceed `maxUses` (`contested`).
- Recordings: clips uploaded after the listing stay behind when the row is gone
  (`touched`); when the database fails after the files are gone the recording is listed
  and empty (`failed`).
- Session of a tab: a chat token that is on its way at the logout is cached after it
  (`kept`); answers older than the cookie are shown (`raced`).
- Players: a live page is given the URL of the newest key, on air or not; the studio's
  spinner may go on after a forced refresh.
- Pages: the library may show the results of an older query; a click on "Follow" may be
  undone by a poll; the billing page may show an overtaken plan; a failing `refreshUser`
  after a payment signs the tab out; after a failed load of Razorpay's script the next
  checkout waits for the tag that failed, for ever; the studio throws when its first load
  fails, because `useState` comes after two early returns.

## 9. What is not modelled

- The development mock of rtmp-ingest's validation; `markStreamOffline` and
  `streamOfflineInternal`, which have no caller; a crash of rtmp-ingest (its maps are
  lost) and of transcoding-service (its queue is).
- Stderr parsing, heartbeat logs, bit rates and filters of FFmpeg, the contents of the
  master playlist, health endpoints, connecting to Kafka and MinIO.
- Chat reactions and the token bucket: a counter per client and second.  `on_play`: it
  always answers 200.
- Accounts: hashing, the linking of OAuth accounts, the editing of a profile: one
  request, one row.  The gateway: a proxy without state, and a library's rate limiter.
- About half of the repository's implementation lines are the web application's markup;
  the UI kit (`components/ui`), the landing and legal pages, charts, formatting and
  styling have no state that outlives a click, and no call to a service.
- The services the repository's README names and does not contain (presence, reaction,
  notification, analytics, moderation, vod, metadata) have no code.

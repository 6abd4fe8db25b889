----------------------------- MODULE HlsPlayer -----------------------------
(***************************************************************************)
(* The two HLS players of the web application: HlsViewerPlayer of the      *)
(* watch page and StreamPlayerMonitor of the studio.  Each is a React      *)
(* effect that starts again when what it plays changes, an import of       *)
(* hls.js that ends later, a timer, and the events of hls.js, which is     *)
(* external.  The page it is on polls the API: see Ladder.                 *)
(*                                                                         *)
(* A rung of the quality ladder is its rank; 0 is Auto, the master         *)
(* playlist.  A URL is a stream key and a rung.                            *)
(***************************************************************************)
EXTENDS Naturals, FiniteSets

CONSTANTS
  MaxTurns  \* bound: what users do, and failures other than a missing playlist

ASSUME HlsPlayerAssumption == MaxTurns \in Nat

VARIABLES
  written,    \* URLs whose playlist is in storage
  studio,     \* which of the two players this is
  open,       \* the player is mounted
  page,       \* what the page was told: [key, live, menu]
  selected,   \* selectedQuality, resolution
  importing,  \* runs of the effect that wait for hls.js: [url, cancelled]
  hls,        \* URLs played by instances that are not destroyed
  ready,      \* of the last run: the playlist has been parsed
  timers,     \* of the last run, that are pending: "connect", "network"
  connecting, \* the spinner
  error,      \* viewer: an error and Retry; studio: ingestDown
  turns

run == <<importing, hls, ready, timers, connecting, error>>
playerState == <<studio, open, page, selected, run>>
playerVars == <<playerState, turns>>

AutoRung == 0
ViewerUrl(told, q) == <<told.key, IF q \in told.menu THEN q ELSE AutoRung>>
StudioUrl(told, q) == <<told.key, q>>
Url(told, q) == IF studio THEN StudioUrl(told, q) ELSE ViewerUrl(told, q)
ActiveUrl == Url(page, selected)
Closed == [key |-> 0, live |-> FALSE, menu |-> {}]

PlayerTypeOK ==
  /\ written \subseteq Nat \X Nat /\ hls \subseteq Nat \X Nat
  /\ {studio, open, ready, connecting, error} \subseteq BOOLEAN
  /\ timers \subseteq {"connect", "network"}
  /\ page \in [key : Nat, live : BOOLEAN, menu : SUBSET Nat]
  /\ selected \in Nat /\ importing \subseteq [url : Nat \X Nat, cancelled : BOOLEAN]
  /\ turns \in 0 .. MaxTurns

PlayerInit ==
  /\ written = {}
  /\ studio \in BOOLEAN
  /\ open = FALSE /\ page = Closed /\ selected = AutoRung
  /\ importing = {} /\ hls = {}
  /\ ready = FALSE /\ timers = {} /\ connecting = FALSE /\ error = FALSE
  /\ turns = 0

----------------------------------------------------------------------------
Turn == turns < MaxTurns /\ turns' = turns + 1

\* The cleanup of a run.
Cancelled == {[url |-> i.url, cancelled |-> TRUE] : i \in importing}

\* The effect: the cleanup, and a new run.
Restart(url) ==
  /\ importing' = Cancelled \cup {[url |-> url, cancelled |-> FALSE]}
  /\ hls' = {} /\ ready' = FALSE /\ timers' = {"connect"} /\ connecting' = TRUE
ViewerRun(url) == Restart(url) /\ error' = FALSE
StudioRun(url) == Restart(url)

\* The page mounts the player with what it was told.
Mount(told) ==
  /\ ~open /\ Turn
  /\ open' = TRUE /\ page' = told /\ selected' = AutoRung
  /\ IF studio THEN StudioRun(StudioUrl(told, AutoRung)) /\ error' = ~told.live
               ELSE ViewerRun(ViewerUrl(told, AutoRung))
  /\ UNCHANGED studio

Cleanup ==
  /\ importing' = Cancelled /\ hls' = {}
  /\ ready' = FALSE /\ timers' = {} /\ connecting' = FALSE /\ error' = FALSE

Unmount ==
  /\ open
  /\ open' = FALSE /\ page' = Closed /\ selected' = AutoRung
  /\ Cleanup
  /\ UNCHANGED <<written, studio, turns>>

\* The page is told something else; in the studio a change of isLive sets ingestDown.
ViewerTold(told) == ViewerRun(ViewerUrl(told, selected))
StudioTold(told) ==
  /\ StudioRun(StudioUrl(told, selected))
  /\ error' = IF told.live = page.live THEN error ELSE ~told.live
Told(told) ==
  /\ open /\ told # page
  /\ page' = told
  /\ IF studio THEN StudioTold(told) ELSE ViewerTold(told)
  /\ UNCHANGED <<studio, open, selected, turns>>

\* The quality menus.  The studio's is disabled unless the player is live.
Picked(q) ==
  /\ open /\ q \in page.menu \cup {AutoRung} /\ q # selected /\ Turn
  /\ selected' = q
  /\ UNCHANGED <<written, studio, open, page>>
ViewerPicks(q) == ~studio /\ Picked(q) /\ ViewerRun(ViewerUrl(page, q))
StudioPicks(q) ==
  /\ studio /\ page.live /\ ~error
  /\ Picked(q) /\ StudioRun(StudioUrl(page, q)) /\ UNCHANGED error

----------------------------------------------------------------------------
NoOtherPage == UNCHANGED <<written, studio, open, page>>

\* hls.js is there for run i.
\* Mutant of Wanted: a run that was cancelled goes on.
EvenCancelled(i) == open
Wanted(i) == ~i.cancelled
Imported(i) ==
  /\ i \in importing
  /\ importing' = importing \ {i}
  /\ hls' = IF Wanted(i) THEN {i.url} ELSE hls
  /\ NoOtherPage /\ UNCHANGED <<selected, ready, timers, connecting, error, turns>>
ViewerImported(i) == ~studio /\ Imported(i)
StudioImported(i) == studio /\ Imported(i)

\* MANIFEST_PARSED, FRAG_LOADED: markReady, once.
MarkReady(url) ==
  /\ url \in hls /\ url \in written
  /\ ~ready
  /\ ready' = TRUE
  /\ connecting' = FALSE
  /\ NoOtherPage /\ UNCHANGED <<selected, importing, hls, timers, turns>>
ViewerReady(url) == ~studio /\ MarkReady(url) /\ error' = FALSE
StudioReady(url) == studio /\ MarkReady(url) /\ error' = ~page.live

\* A fatal network error: the playlist is not there, or the network is down.
NetworkError(url) ==
  /\ url \in hls
  /\ IF url \in written THEN Turn ELSE UNCHANGED turns
  /\ NoOtherPage

\* hls.js loads again, and the player gives up if that takes too long.
LoadAgain ==
  /\ timers' = timers \cup {"network"}
  /\ UNCHANGED <<selected, importing, hls, ready, connecting, error>>

\* The viewer's player goes back to Auto.
\* Mutant of FallsBack: it loads again as the studio's does.
LoadsAgain == FALSE
FallsBack == selected # AutoRung
ViewerNetworkError(url) ==
  /\ ~studio /\ NetworkError(url)
  /\ IF FallsBack THEN selected' = AutoRung /\ ViewerRun(ViewerUrl(page, AutoRung)) ELSE LoadAgain
StudioNetworkError(url) == studio /\ NetworkError(url) /\ LoadAgain

\* A timer fires: 14 s (12 s in the studio) after the start of the run, or 5 s (4 s) after
\* a network error.
Fires(t) ==
  /\ t \in timers /\ timers' = timers \ {t}
  /\ connecting' = (connecting /\ ready)
  /\ NoOtherPage /\ UNCHANGED <<selected, importing, hls, ready, turns>>
ViewerGivesUp(t) == ~studio /\ Fires(t) /\ error' = (error \/ ~ready)
StudioGivesUp(t) ==
  studio /\ Fires(t) /\ error' = (error \/ (~ready /\ (page.live \/ t = "network")))

\* A media error that cannot be recovered, or another fatal error, which destroys hls.
Broken(url) ==
  /\ url \in hls
  /\ Turn
  /\ hls' \in {hls, hls \ {url}}
  /\ connecting' = FALSE /\ error' = TRUE
  /\ NoOtherPage /\ UNCHANGED <<selected, importing, ready, timers>>
ViewerBroken(url) == ~studio /\ Broken(url)
StudioBroken(url) == studio /\ Broken(url)

\* The buttons.  retry of the viewer loads again what there is.
Retry ==
  /\ open /\ ~studio /\ error /\ ~connecting /\ Turn
  /\ error' = FALSE /\ connecting' = TRUE
  /\ NoOtherPage /\ UNCHANGED <<selected, importing, hls, ready, timers>>

\* forceRefresh of the studio destroys it and asks the page to poll.
ForceRefresh ==
  /\ open /\ studio /\ ~connecting /\ Turn
  /\ hls' = {} /\ connecting' = TRUE
  /\ NoOtherPage /\ UNCHANGED <<selected, importing, ready, timers, error>>

PlayerNext ==
  \/ Unmount \/ Retry \/ ForceRefresh
  \/ \E q \in page.menu \cup {AutoRung} : ViewerPicks(q) \/ StudioPicks(q)
  \/ \E i \in importing : ViewerImported(i) \/ StudioImported(i)
  \/ \E t \in timers : ViewerGivesUp(t) \/ StudioGivesUp(t)
  \/ \E url \in hls :
       \/ ViewerReady(url) \/ ViewerNetworkError(url) \/ ViewerBroken(url)
       \/ StudioReady(url) \/ StudioNetworkError(url) \/ StudioBroken(url)

\* hls.js loads, and finds out about a playlist that is not there; timers fire.
PlayerFairness ==
  /\ WF_playerVars(\E i \in importing : Imported(i))
  /\ WF_playerVars(\E url \in hls \ written : ViewerNetworkError(url) \/ StudioNetworkError(url))
  /\ WF_playerVars(\E t \in timers : ViewerGivesUp(t) \/ StudioGivesUp(t))

----------------------------------------------------------------------------
(* Properties.                                                             *)

\* However quality changes, polls, imports of hls.js and unmounts overlap, at most one
\* instance is left, it plays what is selected now, and none outlives the player.
PlaysWhatIsSelected == hls # {} => open /\ hls = {ActiveUrl}

\* hls.js is there or on its way: it has not failed for good, which destroys it.
HasHls == hls # {} \/ \E i \in importing : ~i.cancelled

\* "Missing quality playlist (e.g. Pro UI shows 2k but transcoder never wrote that rung) -
\* fall back to Auto/master" (hls-viewer-player.tsx): a viewer does not stay on a rung that
\* nobody writes.
LeavesMissingRung ==
  (open /\ ~studio /\ selected # AutoRung /\ ActiveUrl \notin written)
    ~> (~open \/ selected = AutoRung \/ ActiveUrl \in written \/ ~HasHls)
=============================================================================

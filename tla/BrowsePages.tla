---------------------------- MODULE BrowsePages -----------------------------
(***************************************************************************)
(* Four pages of a viewer: Explore and the library, which search while the *)
(* viewer types, the profile of a creator, and the watch page, which asks  *)
(* every four seconds; both of these follow.  One of them is open.         *)
(*                                                                         *)
(* What a search finds depends on the query and on what is listed at that  *)
(* moment; both are numbers here.                                          *)
(***************************************************************************)
EXTENDS Naturals, FiniteSets

CONSTANTS
  Asks,       \* bound: requests at a time
  MaxTyped,   \* bound: changes of the query
  MaxChanges, \* bound: changes of what is listed
  MaxToggles, \* bound: clicks on Follow
  MaxMisses   \* bound: requests that fail or whose answer is lost

ASSUME BrowseAssumption ==
  IsFiniteSet(Asks) /\ {MaxTyped, MaxChanges, MaxToggles, MaxMisses} \subseteq Nat

VARIABLES
  open,     \* "explore", "library", "profile", "watch" or "none"
  listing,  \* what is listed: streams go live, end, are made private
  typed,    \* q and the filters, the latest of them
  due,      \* Explore: the timer of 200 ms runs
  results,  \* streams, live and vods, or the stream that is watched: what was found
  searching,
  failed,   \* Explore and watch page: the error that replaces the results
  follows,  \* the Subscription row of viewer and creator
  button,   \* isFollowing: the button says "Unfollow"
  followBusy,
  ask,      \* ask[a]: a request
  toggles,
  misses,
  excused   \* history: an answer was lost or overtaken, or the row changed elsewhere, since
            \* the page was last told

browse == <<open, listing, typed, due, results, searching, failed, follows, button, followBusy,
            ask, toggles, misses, excused>>
search == <<listing, typed, due, results, searching, failed>>
profile == <<follows, button, followBusy, toggles>>

NotAsked == [op |-> "none", at |-> "idle", q |-> 0, saw |-> 0, found |-> FALSE, newer |-> FALSE, left |-> {}]
Nil == [q |-> 0, saw |-> 0]
InFlight == {a \in Asks : ask[a] # NotAsked}

AskRecord ==
  [op : {"none", "search", "detail", "visit", "follow", "unfollow"},
   at : {"idle", "sent", "answered", "refused"}, q : Nat, saw : Nat, found : BOOLEAN,
   newer : BOOLEAN, left : SUBSET {"live", "vods"}]
BrowseTypeOK ==
  /\ open \in {"explore", "library", "profile", "watch", "none"}
  /\ {listing, typed, toggles, misses} \subseteq Nat
  /\ results \in [q : Nat, saw : Nat]
  /\ {due, searching, failed, follows, button, followBusy, excused} \subseteq BOOLEAN
  /\ ask \in [Asks -> AskRecord]

\* The newest load of the page is the one whose answer should be shown last.
Asked(a, op) ==
  /\ ask[a] = NotAsked
  /\ ask' = [x \in Asks |->
               IF x = a THEN [NotAsked EXCEPT !.op = op, !.at = "sent", !.q = typed] ELSE ask[x]]

Search(q) == [NotAsked EXCEPT !.op = "search", !.at = "sent", !.q = q, !.left = {"live", "vods"}]

BrowseInit(pages) ==
  /\ open \in pages
  /\ listing = 0 /\ typed = 1 /\ due = (open = "explore")
  /\ results = Nil /\ failed = FALSE
  /\ searching = (open # "none")
  /\ follows \in (IF open \in {"profile", "watch"} THEN BOOLEAN ELSE {FALSE})
  /\ button = FALSE /\ followBusy = FALSE
  /\ \E a \in Asks : ask = [x \in Asks |->
       CASE x = a /\ open = "library" -> Search(1)
         [] x = a /\ open = "watch" -> [NotAsked EXCEPT !.op = "detail", !.at = "sent", !.q = 1]
         [] x = a /\ open = "profile" -> [NotAsked EXCEPT !.op = "visit", !.at = "sent", !.q = 1]
         [] OTHER -> NotAsked]
  /\ toggles = 0 /\ misses = 0 /\ excused = FALSE

----------------------------------------------------------------------------
(* Explore and the library.                                                *)

Searching == open \in {"explore", "library", "watch"}

\* A letter is typed or a filter clicked.  Explore waits, and starts its timers anew.
Type ==
  /\ open = "explore" /\ typed < MaxTyped
  /\ typed' = typed + 1 /\ due' = TRUE
  /\ UNCHANGED <<open, listing, results, searching, failed, profile, ask, misses, excused>>

\* The library asks at every letter.
TypeInLibrary(a) ==
  /\ open = "library" /\ typed < MaxTyped
  /\ typed' = typed + 1
  /\ ask[a] = NotAsked
  /\ ask' = [ask EXCEPT ![a] = Search(typed')]
  /\ searching' = TRUE
  /\ UNCHANGED <<open, listing, due, results, failed, profile, misses, excused>>

\* load of Explore: 200 ms after the last letter, then every 12 s, or by "Retry".
LoadExplore(a) ==
  /\ open = "explore"
  /\ Asked(a, "search")
  /\ due' = FALSE /\ searching' = TRUE /\ failed' = FALSE
  /\ UNCHANGED <<open, listing, typed, results, profile, misses, excused>>

\* browseStreams.
FindStreams(a) ==
  /\ open = "explore" /\ ask[a].op = "search" /\ ask[a].at = "sent"
  /\ ask' = [ask EXCEPT ![a].at = "answered", ![a].saw = listing]
  /\ UNCHANGED <<open, search, profile, misses, excused>>

\* libraryLive and libraryVods, asked at once; what is live tells how new the answer is.
Found(a, part, saw) ==
  /\ ask[a].op = "search" /\ ask[a].at = "sent" /\ part \in ask[a].left
  /\ ask' = [ask EXCEPT ![a].left = @ \ {part}, ![a].saw = saw,
                         ![a].at = IF ask[a].left = {part} THEN "answered" ELSE "sent"]
  /\ UNCHANGED <<open, search, profile, misses, excused>>
FindLive(a) == Found(a, "live", listing)
FindVods(a) == Found(a, "vods", ask[a].saw)

\* A load that is answered overtakes the older ones: theirs should no longer be shown.
Newer(a) == [x \in Asks |->
  IF x = a THEN NotAsked ELSE [ask[x] EXCEPT !.newer = @ \/ (x \in InFlight /\ ask[x].q < ask[a].q)]]

ShowResults(a) ==
  /\ ask[a].op = "search" /\ ask[a].at = "answered"
  /\ results' = [q |-> ask[a].q, saw |-> ask[a].saw]
  /\ searching' = FALSE
  /\ ask' = Newer(a)
  /\ excused' = ask[a].newer
  /\ UNCHANGED <<open, listing, typed, due, failed, profile, misses>>

\* Explore shows the error in place of the results, the library a toast.
SearchFails(a) ==
  /\ ask[a].op = "search" /\ misses < MaxMisses
  /\ misses' = misses + 1
  /\ searching' = FALSE
  /\ IF open = "explore" THEN failed' = TRUE /\ results' = Nil ELSE UNCHANGED <<failed, results>>
  /\ ask' = Newer(a)
  /\ excused' = TRUE
  /\ UNCHANGED <<open, listing, typed, due, profile>>

\* Streams go live or end.
ListingChanges ==
  /\ Searching /\ listing < MaxChanges
  /\ listing' = listing + 1
  /\ UNCHANGED <<open, typed, due, results, searching, failed, profile, ask, misses, excused>>

----------------------------------------------------------------------------
(* The watch page.                                                         *)

\* load, again every four seconds.
Poll4s(a) ==
  /\ open = "watch"
  /\ Asked(a, "detail")
  /\ UNCHANGED <<open, search, profile, misses, excused>>

\* browseStreamById, for a viewer who is let in: see Audience.
FindStream(a) ==
  /\ ask[a].op = "detail" /\ ask[a].at = "sent"
  /\ ask' = [ask EXCEPT ![a].at = "answered", ![a].saw = listing, ![a].found = follows]
  /\ UNCHANGED <<open, search, profile, misses, excused>>
ShowStream(a) ==
  /\ ask[a].op = "detail" /\ ask[a].at = "answered"
  /\ results' = [q |-> ask[a].q, saw |-> ask[a].saw] /\ button' = ask[a].found
  /\ searching' = FALSE /\ failed' = FALSE
  /\ ask' = [ask EXCEPT ![a] = NotAsked]
  /\ UNCHANGED <<open, listing, typed, due, follows, followBusy, toggles, misses, excused>>

\* The page shows the error until the next answer.
StreamFails(a) ==
  /\ ask[a].op = "detail" /\ misses < MaxMisses
  /\ misses' = misses + 1
  /\ failed' = TRUE /\ searching' = FALSE
  /\ ask' = [ask EXCEPT ![a] = NotAsked]
  /\ UNCHANGED <<open, listing, typed, due, results, profile, excused>>

----------------------------------------------------------------------------
(* The profile of a creator.                                               *)

\* load: three requests at once; without followStatus the button says "Follow".
Status(a) ==
  /\ ask[a].op = "visit" /\ ask[a].at = "sent"
  /\ \/ ask' = [ask EXCEPT ![a].at = "answered", ![a].found = follows]
        /\ UNCHANGED <<misses, excused>>
     \/ /\ misses < MaxMisses /\ misses' = misses + 1
        /\ ask' = [ask EXCEPT ![a].at = "answered", ![a].found = FALSE]
        /\ excused' = (excused \/ follows)
  /\ UNCHANGED <<open, search, profile>>
Visited(a) ==
  /\ ask[a].op = "visit" /\ ask[a].at = "answered"
  /\ button' = ask[a].found /\ searching' = FALSE
  /\ ask' = [ask EXCEPT ![a] = NotAsked]
  /\ UNCHANGED <<open, listing, typed, due, results, failed, follows, followBusy, toggles, misses, excused>>

\* toggleFollow: what it asks for is what the button says.
OffersFollow == open \in {"profile", "watch"} /\ ~searching /\ ~failed /\ ~followBusy
ToggleFollow(a) ==
  /\ OffersFollow /\ toggles < MaxToggles
  /\ toggles' = toggles + 1 /\ followBusy' = TRUE
  /\ Asked(a, IF button THEN "unfollow" ELSE "follow")
  /\ UNCHANGED <<open, search, follows, button, misses, excused>>

\* follow: 409 if the row is there, else a row; unfollow: no row, whether there was one.
Follow(a) ==
  /\ ask[a].op = "follow" /\ ask[a].at = "sent"
  /\ ask' = [ask EXCEPT ![a].at = IF follows THEN "refused" ELSE "answered"]
  /\ follows' = TRUE /\ excused' = (excused /\ follows)
  /\ UNCHANGED <<open, search, button, followBusy, toggles, misses>>
Unfollow(a) ==
  /\ ask[a].op = "unfollow" /\ ask[a].at = "sent"
  /\ ask' = [ask EXCEPT ![a].at = "answered"]
  /\ follows' = FALSE /\ excused' = FALSE
  /\ UNCHANGED <<open, search, button, followBusy, toggles, misses>>

FollowAnswered(a) ==
  /\ ask[a].op \in {"follow", "unfollow"} /\ ask[a].at \in {"answered", "refused"}
  /\ button' = (IF ask[a].at = "answered" THEN ask[a].op = "follow" ELSE button)
  /\ followBusy' = FALSE
  /\ ask' = [ask EXCEPT ![a] = NotAsked]
  /\ UNCHANGED <<open, search, follows, toggles, misses, excused>>
FollowLost(a) ==
  /\ ask[a].op \in {"follow", "unfollow"} /\ misses < MaxMisses
  /\ misses' = misses + 1 /\ followBusy' = FALSE
  /\ excused' = (excused \/ ask[a].at = "answered")
  /\ ask' = [ask EXCEPT ![a] = NotAsked]
  /\ UNCHANGED <<open, search, follows, button, toggles>>

\* The viewer follows or unfollows in another tab.
FollowElsewhere ==
  /\ open \in {"profile", "watch"} /\ toggles < MaxToggles
  /\ toggles' = toggles + 1
  /\ follows' = ~follows /\ excused' = TRUE
  /\ UNCHANGED <<open, search, button, followBusy, ask, misses>>

BrowseStep(a) ==
  \/ TypeInLibrary(a) \/ LoadExplore(a) \/ FindStreams(a) \/ FindLive(a) \/ FindVods(a)
  \/ ShowResults(a) \/ SearchFails(a)
  \/ Poll4s(a) \/ FindStream(a) \/ ShowStream(a) \/ StreamFails(a)
  \/ Status(a) \/ Visited(a) \/ ToggleFollow(a) \/ Follow(a) \/ Unfollow(a)
  \/ FollowAnswered(a) \/ FollowLost(a)
=============================================================================

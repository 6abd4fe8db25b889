---------------------------- MODULE StudioPanels ----------------------------
(***************************************************************************)
(* The panels of the studio page that show lists of other services: the    *)
(* invites of the stream (auth-service), its banned users and words        *)
(* (chat-service).  A handler changes a row, then loads the list again;    *)
(* the handlers of a panel run at the same time, and so do their loads.    *)
(*                                                                         *)
(* A list is the set of what is in force: invites not revoked, users       *)
(* banned, words blocked.  An invite is never in force again; a user or a  *)
(* word may be.                                                            *)
(***************************************************************************)
EXTENDS Naturals, FiniteSets

CONSTANTS
  Tasks,     \* bound: handlers at a time
  MaxItems,  \* bound: invites, users and words
  MaxLapses  \* bound: requests that fail or whose answer is lost

ASSUME PanelsAssumption == IsFiniteSet(Tasks) /\ {MaxItems, MaxLapses} \subseteq Nat

VARIABLES
  store,    \* store[l]: list l in the database
  issued,   \* invites made so far
  shown,    \* shown[l]: list l in the panel
  waiting,  \* waiting[p]: panel p waits for its lists
  busy,     \* busy[p]: creating of the invites, busy of the moderation
  task,     \* task[t]: a handler
  lapses,
  outdated  \* history: panels that showed an older answer after a newer, or missed one

panels == <<store, issued, shown, waiting, busy, task, lapses, outdated>>

Lists == {"invites", "bans", "words"}
Panels == {"invites", "moderation"}
ListsOf(p) == IF p = "invites" THEN {"invites"} ELSE {"bans", "words"}
PanelOf(l) == IF l = "invites" THEN "invites" ELSE "moderation"
Items == 1 .. MaxItems
Nothing == [l \in Lists |-> {}]

\* A handler: what it changes, its next step, the lists it is still to read, what it has
\* read, the handlers that had read before it, and whether a later one was shown (history).
Free == [panel |-> "none", list |-> "none", add |-> FALSE, item |-> 0, at |-> "idle",
         todo |-> {}, saw |-> Nothing, after |-> {}, late |-> FALSE]
Stands(t, at) == task[t].at = at
HandlersOf(p) == {t \in Tasks : task[t].panel = p}

TaskRecord ==
  [panel : Panels \cup {"none"}, list : Lists \cup {"none"}, add : BOOLEAN, item : Nat,
   at : {"idle", "change", "changed", "load", "answered"}, todo : SUBSET Lists,
   saw : [Lists -> SUBSET Nat], after : SUBSET Tasks, late : BOOLEAN]
PanelsTypeOK ==
  /\ store \in [Lists -> SUBSET Nat] /\ shown \in [Lists -> SUBSET Nat]
  /\ waiting \in [Panels -> BOOLEAN] /\ busy \in [Panels -> BOOLEAN]
  /\ task \in [Tasks -> TaskRecord]
  /\ {issued, lapses} \subseteq Nat /\ outdated \subseteq Panels

Reading(p) == [Free EXCEPT !.panel = p, !.at = "load", !.todo = ListsOf(p)]

\* Both panels load when the page is opened.
PanelsInit(mounted) ==
  /\ store = Nothing /\ issued = 0 /\ shown = Nothing
  /\ waiting = [p \in Panels |-> mounted]
  /\ busy = [p \in Panels |-> FALSE]
  /\ \E t, u \in Tasks :
       /\ t # u
       /\ task = [x \in Tasks |-> IF mounted /\ x = t THEN Reading("invites")
                                  ELSE IF mounted /\ x = u THEN Reading("moderation") ELSE Free]
  /\ lapses = 0 /\ outdated = {}

Starts(t, j) == task[t] = Free /\ task' = [task EXCEPT ![t] = j]
Change(p, l, add, i) == [Free EXCEPT !.panel = p, !.list = l, !.add = add, !.item = i, !.at = "change"]

----------------------------------------------------------------------------
(* Handlers, and when their buttons are there.                             *)

\* create of the invite panel: a short code or a long token.
CreateInvite(t) ==
  /\ ~busy["invites"] /\ issued < MaxItems
  /\ Starts(t, Change("invites", "invites", TRUE, 0))
  /\ busy' = [busy EXCEPT !["invites"] = TRUE]
  /\ UNCHANGED <<store, issued, shown, waiting, lapses, outdated>>

\* revoke: each row that is not marked REVOKED has its own button.
OffersRevoked(i) == ~waiting["invites"] /\ i \in shown["invites"]
RevokeInvite(t, i) ==
  /\ OffersRevoked(i)
  /\ Starts(t, Change("invites", "invites", FALSE, i))
  /\ UNCHANGED <<store, issued, shown, waiting, busy, lapses, outdated>>

\* addWord, removeWord and unban set busy, which keeps all but removeWord from starting.
Moderate(t, l, add, i) ==
  /\ ~waiting["moderation"]
  /\ Starts(t, Change("moderation", l, add, i))
  /\ busy' = [busy EXCEPT !["moderation"] = TRUE]
  /\ UNCHANGED <<store, issued, shown, waiting, lapses, outdated>>
AddWord(t, i) == ~busy["moderation"] /\ Moderate(t, "words", TRUE, i)
RemoveWord(t, i) == i \in shown["words"] /\ Moderate(t, "words", FALSE, i)
Unban(t, i) == ~busy["moderation"] /\ i \in shown["bans"] /\ Moderate(t, "bans", FALSE, i)

\* The button "Refresh".
Refresh(t) ==
  /\ ~busy["moderation"]
  /\ Starts(t, Reading("moderation"))
  /\ waiting' = [waiting EXCEPT !["moderation"] = TRUE]
  /\ UNCHANGED <<store, issued, shown, busy, lapses, outdated>>

\* banFromChat: a button beside a message of the chat; refreshKey then has the panel load.
BanFromChat(t, i) ==
  /\ Starts(t, Change("moderation", "bans", TRUE, i))
  /\ UNCHANGED <<store, issued, shown, waiting, busy, lapses, outdated>>

----------------------------------------------------------------------------
(* The services.                                                           *)

IsBan(t) == task[t].list = "bans" /\ task[t].add

Applied(t, l, items) ==
  /\ Stands(t, "change") /\ task[t].list = l
  /\ store' = [store EXCEPT ![l] = items]
  /\ task' = [task EXCEPT ![t].at = "changed"]
  /\ UNCHANGED <<shown, waiting, busy, lapses, outdated>>
Plus(t, l) == store[l] \cup {task[t].item}
Less(t, l) == store[l] \ {task[t].item}

\* createStreamInvite, revokeStreamInvite.
StoreInvite(t) ==
  /\ task[t].add /\ issued' = issued + 1
  /\ Applied(t, "invites", store["invites"] \cup {issued + 1})
WithdrawInvite(t) == ~task[t].add /\ Applied(t, "invites", Less(t, "invites")) /\ UNCHANGED issued

\* POST and DELETE of a ban and of a word: an upsert, a deleteMany.
StoreBan(t) == task[t].add /\ Applied(t, "bans", Plus(t, "bans")) /\ UNCHANGED issued
LiftBan(t) == ~task[t].add /\ Applied(t, "bans", Less(t, "bans")) /\ UNCHANGED issued
StoreWord(t) == task[t].add /\ Applied(t, "words", Plus(t, "words")) /\ UNCHANGED issued
\* (By its row, which is another if the word was blocked anew since it was shown.)
DropWord(t) ==
  /\ ~task[t].add /\ UNCHANGED issued
  /\ Applied(t, "words", Less(t, "words")) \/ Applied(t, "words", store["words"])

\* The change is answered: await load().  Mutant of Reload: the panel is left as it is.
NoReload(t) == [task[t] EXCEPT !.at = "answered", !.saw = shown]
Reload(t) == [task[t] EXCEPT !.at = "load", !.todo = ListsOf(task[t].panel)]
Changed(t) ==
  /\ Stands(t, "changed")
  /\ task' = [task EXCEPT ![t] = Reload(t)]
  /\ waiting' = IF IsBan(t) THEN [waiting EXCEPT !["moderation"] = TRUE] ELSE waiting
  /\ UNCHANGED <<store, issued, shown, busy, lapses, outdated>>

\* One of the requests of a load, listStreamInvites, GET of the bans, of the words: the
\* list as it is now.
Listed(t, l) ==
  /\ Stands(t, "load") /\ l \in task[t].todo
  /\ task' = [task EXCEPT ![t].saw[l] = store[l],
                ![t].todo = @ \ {l},
                ![t].at = IF task[t].todo = {l} THEN "answered" ELSE "load",
                ![t].after = @ \cup {x \in HandlersOf(task[t].panel) \ {t} :
                                       x \notin @ /\ (Stands(x, "answered") \/ (Stands(x, "load") /\ l \notin task[x].todo))}]
  /\ UNCHANGED <<store, issued, shown, waiting, busy, lapses, outdated>>

ReadInvites(t) == Listed(t, "invites")
ReadBans(t) == Listed(t, "bans")
ReadWords(t) == Listed(t, "words")

\* The load is answered: what it read is shown, and its handler is over.
Over(t) == [x \in Tasks |->
  IF x = t THEN Free
  ELSE [task[x] EXCEPT !.after = @ \ {t}, !.late = @ \/ x \in task[t].after]]
Idles(t) == busy' = IF task[t].list # "none" /\ ~IsBan(t) /\ ~(task[t].list = "invites" /\ ~task[t].add)
                    THEN [busy EXCEPT ![task[t].panel] = FALSE] ELSE busy
Show(t) ==
  LET p == task[t].panel IN
  /\ Stands(t, "answered")
  /\ shown' = [l \in Lists |-> IF l \in ListsOf(p) THEN task[t].saw[l] ELSE shown[l]]
  /\ waiting' = [waiting EXCEPT ![p] = FALSE]
  /\ outdated' = IF task[t].late THEN outdated \cup {p} ELSE outdated
  /\ task' = Over(t) /\ Idles(t)
  /\ UNCHANGED <<store, issued, lapses>>

\* A request fails or its answer is lost: a toast, and no load; a load shows nothing new.
Lapse(t) ==
  LET p == task[t].panel IN
  /\ task[t] # Free /\ lapses < MaxLapses
  /\ lapses' = lapses + 1
  /\ waiting' = IF Stands(t, "load") \/ Stands(t, "answered") THEN [waiting EXCEPT ![p] = FALSE] ELSE waiting
  /\ outdated' = IF Stands(t, "change") THEN outdated ELSE outdated \cup {p}
  /\ task' = [Over(t) EXCEPT ![t] = Free] /\ Idles(t)
  /\ UNCHANGED <<store, issued, shown>>

ServiceStep(t) ==
  \/ StoreInvite(t) \/ WithdrawInvite(t) \/ StoreBan(t) \/ LiftBan(t) \/ StoreWord(t) \/ DropWord(t)
  \/ ReadInvites(t) \/ ReadBans(t) \/ ReadWords(t)
PanelStep(t) ==
  \/ CreateInvite(t) \/ Refresh(t) \/ ServiceStep(t) \/ Changed(t) \/ Show(t) \/ Lapse(t)
  \/ \E i \in Items : RevokeInvite(t, i) \/ AddWord(t, i) \/ RemoveWord(t, i)
                        \/ Unban(t, i) \/ BanFromChat(t, i)
=============================================================================

------------------------------ MODULE ChatRoom ------------------------------
(***************************************************************************)
(* One instance of chat-service: its rooms, its sockets and the tables it  *)
(* asks before it lets somebody in or passes a message on.                 *)
(*                                                                         *)
(* Node runs one callback at a time, but onMessage is not awaited by the   *)
(* socket: the handlers of one socket, and of different ones, interleave   *)
(* at every await.  `req[h]' is a handler (of a join or a chat message)    *)
(* that is at an await; one action is what it does between two awaits, or  *)
(* a query of it.  The owner's ban request is split in the same way.       *)
(***************************************************************************)
EXTENDS Naturals

CONSTANTS
  Streams, Sockets,
  Users,          \* the users of the sockets
  Owner,          \* Owner[s]: the user stream s belongs to
  UserOf,         \* UserOf[c]: the user socket c is authenticated as
  Private,        \* streams with isPrivate
  HistoryLength,  \* CHAT_HISTORY_LENGTH
  Requests,       \* bound: handlers at an await at a time
  MaxJoins,       \* bound: joins
  MaxMessages,    \* bound: chat messages
  MaxBans,        \* bound: ChannelBan rows ever inserted or updated
  None

ASSUME ChatAssumption ==
  /\ UserOf \in [Sockets -> Users]
  /\ Private \subseteq Streams
  /\ HistoryLength \in Nat \ {0} /\ {MaxJoins, MaxMessages, MaxBans} \subseteq Nat
  /\ None \notin Streams \cup Sockets \cup (Streams \X Users)
  /\ DOMAIN Owner = Streams

VARIABLES
  socket,   \* socket[c]: new, open, closing (close() called), closed
  room,     \* SocketClient.streamId
  words,    \* the stream whose banned words SocketClient has cached, or None
  rooms,    \* SocketManager.rooms: the streams that have a ChatRoom
  members,  \* ChatRoom.clients
  log,      \* how many there are in ChatRoom.messages
  req,      \* the handlers of joins and chat messages
  bans,     \* ChannelBan rows: bans[s][u] = [id, state], id 0 for no row
  banning,  \* the ban request between its upsert and disconnectUser
  banRows,  \* bans so far
  joins, messages, \* joins and chat messages so far
  sentenced,  \* history: <<stream, user>> banned, not unbanned and not expired
  overlapped, \* history: sockets with two joins in flight
  late,       \* history: sockets that closed during a join
  overtaken,  \* history: sockets whose join had its answer before the ban
  lifted,     \* history: <<stream, user>> whose ban was renewed between a join's reading it as
              \* expired and its deleting it
  moved       \* history: sockets that entered a room with a message for another in flight

clientVars == <<socket, room, words>>
roomVars == <<rooms, members, log>>
counts == <<banRows, joins, messages>>
history == <<sentenced, overlapped, late, overtaken, lifted, moved>>
vars == <<clientVars, roomVars, req, bans, counts, banning, history>>

Pairs == Streams \X Users
JoinSteps == {"access", "ban", "sweep", "enter"}
PostSteps == {"timeout", "words"}
NoBan == [id |-> 0, state |-> "none"]
Unused == [pc |-> "unused", socket |-> None, stream |-> None, id |-> 0]

TypeOK ==
  /\ socket \in [Sockets -> {"new", "open", "closing", "closed"}]
  /\ room \in [Sockets -> Streams \cup {None}]
  /\ words \in [Sockets -> Streams \cup {None}]
  /\ rooms \subseteq Streams
  /\ members \in [Streams -> SUBSET Sockets]
  /\ log \in [Streams -> 0 .. HistoryLength]
  /\ req \in [Requests -> [pc : {"unused"} \cup JoinSteps \cup PostSteps,
                           socket : Sockets \cup {None}, stream : Streams \cup {None},
                           id : 0 .. MaxBans]]
  /\ sentenced \cup lifted \subseteq Pairs
  /\ bans \in [Streams -> [Users -> [id : 0 .. MaxBans, state : {"none", "active", "expired"}]]]
  /\ banning \in Pairs \cup {None}
  /\ banRows \in 0 .. MaxBans /\ joins \in 0 .. MaxJoins /\ messages \in 0 .. MaxMessages
  /\ overlapped \cup late \cup overtaken \cup moved \subseteq Sockets

Init ==
  /\ socket = [c \in Sockets |-> "new"]
  /\ room = [c \in Sockets |-> None]
  /\ words = [c \in Sockets |-> None]
  /\ rooms = {}
  /\ members = [s \in Streams |-> {}]
  /\ log = [s \in Streams |-> 0]
  /\ req = [h \in Requests |-> Unused]
  /\ bans = [s \in Streams |-> [u \in Users |-> NoBan]]
  /\ banning = None /\ banRows = 0 /\ joins = 0 /\ messages = 0
  /\ sentenced = {} /\ overlapped = {} /\ late = {} /\ overtaken = {}
  /\ lifted = {} /\ moved = {}

----------------------------------------------------------------------------
(* Rooms and clients.                                                      *)

\* SocketClient.leave and join forget the cached words.  Mutant: they do not.
Remembered(C, w) == w
Forgotten(C, w) == [c \in Sockets |-> IF c \in C THEN None ELSE w[c]]

\* SocketClient.leave on every socket of C.
Left(C) ==
  /\ room' = [c \in Sockets |-> IF c \in C THEN None ELSE room[c]]
  /\ words' = Forgotten(C, words)

\* pruneRoom, once the members of s are M: an empty room without messages is
\* dropped.  Mutant: rooms are kept.
Kept(s, M) == rooms
Pruned(s, M) == IF M = {} /\ log[s] = 0 THEN rooms \ {s} ELSE rooms

\* leaveRoom.
Leavers(c) == {c}
LeaveRoom(c) ==
  IF room[c] = None
    THEN UNCHANGED <<room, words, rooms, members>>
    ELSE LET s == room[c]
             M == members[s] \ Leavers(c)
         IN /\ members' = [members EXCEPT ![s] = M]
            /\ rooms' = Pruned(s, M)
            /\ Left({c})

\* clientsForUser.  Mutant: the sockets of a user's earlier connections are not found.
Nobody(s, u) == {}
ClientsForUser(s, u) == {c \in members[s] : UserOf[c] = u}

\* Joins and chat messages of socket c that are under way.
Joining(c) == {h \in Requests : req[h].socket = c /\ req[h].pc \in JoinSteps}
Posting(c) == {h \in Requests : req[h].socket = c /\ req[h].pc \in PostSteps}

----------------------------------------------------------------------------
(* Connections.                                                            *)

Connect(c) ==
  /\ socket[c] = "new"
  /\ socket' = [socket EXCEPT ![c] = "open"]
  /\ UNCHANGED <<room, words, roomVars, req, bans, counts, banning, history>>

\* The close event: onDisconnect.  Handlers of the socket go on.
Disconnect(c) ==
  /\ socket[c] \in {"open", "closing"}
  /\ socket' = [socket EXCEPT ![c] = "closed"]
  /\ LeaveRoom(c)
  /\ late' = IF Joining(c) = {} THEN late ELSE late \cup {c}
  /\ UNCHANGED <<log, req, bans, counts, banning, sentenced, overlapped, overtaken, lifted, moved>>

\* close() on every open socket of C.
Closing(C) == [c \in Sockets |-> IF c \in C /\ socket[c] = "open" THEN "closing" ELSE socket[c]]

----------------------------------------------------------------------------
(* Requests.                                                               *)

To(h, pc) == req' = [req EXCEPT ![h].pc = pc]
Over(h) == req' = [req EXCEPT ![h] = Unused]

\* The next message of a client that is not yet gone.
Receive(h, c, s, pc) ==
  /\ req[h].pc = "unused"
  /\ socket[c] \in {"open", "closing"}
  /\ req' = [req EXCEPT ![h] = [Unused EXCEPT !.pc = pc, !.socket = c, !.stream = s]]

\* handleJoin: leave the present room at once, then ask for access.
ReceiveJoin(h, c, s) ==
  /\ Receive(h, c, s, "access")
  /\ joins < MaxJoins /\ joins' = joins + 1
  /\ LeaveRoom(c)
  /\ overlapped' = IF Joining(c) = {} THEN overlapped ELSE overlapped \cup {c}
  /\ UNCHANGED <<socket, log, bans, banRows, messages, banning, sentenced, late, overtaken, lifted, moved>>

\* Access refused: the socket is closed.
Refuse(h) ==
  /\ Over(h)
  /\ socket' = Closing({req[h].socket})
  /\ UNCHANGED <<room, words>>

\* canAccessStreamChat reads the stream and, if it is private, the grant: the owner
\* is in, others may have redeemed an invite or not.  (Two queries, on rows that no
\* step of this service writes.)
ReadAccess(h) ==
  LET s == req[h].stream IN
  /\ req[h].pc = "access"
  /\ \/ /\ To(h, IF Owner[s] = UserOf[req[h].socket] THEN "enter" ELSE "ban")
        /\ UNCHANGED clientVars
     \/ s \in Private /\ Owner[s] # UserOf[req[h].socket] /\ Refuse(h)
  /\ UNCHANGED <<roomVars, bans, counts, banning, history>>

\* isChannelBanned: a ban in force refuses, an expired one is deleted first.
\* Mutant of Banned: the comparison of expiresAt is the wrong way round.
ExpiredOnly(b) == b.state = "expired"
Banned(b) == b.state = "active"
ReadBan(h) ==
  LET b == bans[req[h].stream][UserOf[req[h].socket]] IN
  /\ req[h].pc = "ban"
  /\ IF Banned(b) THEN Refuse(h)
     ELSE /\ req' = [req EXCEPT ![h].pc = IF b.id = 0 THEN "enter" ELSE "sweep",
                                ![h].id = b.id]
          /\ UNCHANGED clientVars
  /\ UNCHANGED <<roomVars, bans, counts, banning, history>>

\* The row is deleted by its id, whatever it says by now; a failure is ignored.
SweepBan(h) ==
  LET s == req[h].stream
      u == UserOf[req[h].socket]
  IN /\ req[h].pc = "sweep"
     /\ req' = [req EXCEPT ![h].pc = "enter", ![h].id = 0]
     /\ \/ bans[s][u].id = req[h].id /\ bans' = [bans EXCEPT ![s][u] = NoBan]
        \/ UNCHANGED bans
     /\ UNCHANGED <<clientVars, roomVars, counts, banning, history>>

\* handleJoin with the answer: the user's other sockets are dropped (this one
\* too, if it is in the room already) and the socket enters, open or not.
EnterRoom(h) ==
  LET c == req[h].socket
      s == req[h].stream
      prior == ClientsForUser(s, UserOf[c])
  IN /\ req[h].pc = "enter"
     /\ Over(h)
     /\ socket' = Closing(prior)
     /\ room' = [d \in Sockets |-> IF d = c THEN s ELSE IF d \in prior THEN None ELSE room[d]]
     /\ words' = Forgotten(prior \cup {c}, words)
     /\ rooms' = rooms \cup {s}
     /\ members' = [members EXCEPT ![s] = (@ \ prior) \cup {c}]
     /\ moved' = IF Posting(c) \subseteq {g \in Requests : req[g].stream = s}
                 THEN moved \ {c} ELSE moved \cup {c}
     /\ UNCHANGED <<log, bans, counts, banning, sentenced, overlapped, late, overtaken, lifted>>

\* handleChatMessage up to its first await.  Not joined, or joined after
\* the stream had ended, or out of tokens, it only answers with an error.
ReceiveMessage(h, c) ==
  /\ room[c] # None
  /\ Receive(h, c, room[c], "timeout")
  /\ messages < MaxMessages /\ messages' = messages + 1
  /\ UNCHANGED <<clientVars, roomVars, bans, banRows, joins, banning, history>>

\* isTimedOut finds a timeout in force.
TimedOut(h) ==
  /\ req[h].pc = "timeout"
  /\ Over(h)
  /\ UNCHANGED <<clientVars, roomVars, bans, counts, banning, history>>

\* It finds none.  The banned words of the stream are read if none are cached.
FetchWords(h) ==
  /\ req[h].pc = "timeout"
  /\ words[req[h].socket] = None
  /\ To(h, "words")
  /\ UNCHANGED <<clientVars, roomVars, bans, counts, banning, history>>

\* appendMessage keeps the last messages.
Trimmed(n) == IF n > HistoryLength THEN HistoryLength ELSE n

\* The words let the message through and the room is still there, or not.
Deliver(h) ==
  /\ Over(h)
  /\ \/ /\ req[h].stream \in rooms
        /\ log' = [log EXCEPT ![req[h].stream] = Trimmed(@ + 1)]
     \/ UNCHANGED log
  /\ UNCHANGED <<socket, room, rooms, members, bans, counts, banning, history>>

PostCached(h) ==
  /\ req[h].pc = "timeout"
  /\ words[req[h].socket] # None
  /\ Deliver(h)
  /\ UNCHANGED words

\* The words arrive and are cached, unless there are none.
PostFetched(h) ==
  /\ req[h].pc = "words"
  /\ Deliver(h)
  /\ words' \in {[words EXCEPT ![req[h].socket] = s] : s \in {req[h].stream, None}}

\* A query fails: INTERNAL is answered and the request is over.
RequestFails(h) ==
  /\ req[h].pc \in {"access", "ban", "timeout", "words"}
  /\ Over(h)
  /\ UNCHANGED <<clientVars, roomVars, bans, counts, banning, history>>

\* The cache is older than 30 s.
WordsExpire(c) ==
  /\ words[c] # None
  /\ words' = [words EXCEPT ![c] = None]
  /\ UNCHANGED <<socket, room, roomVars, req, bans, counts, banning, history>>

----------------------------------------------------------------------------
(* Moderation: one request of an owner at a time.                          *)

\* The owner's ban request upserts the row: a new one, or new terms for the old.
Ban(s, u) ==
  /\ banning = None /\ u # Owner[s]
  /\ banRows < MaxBans
  /\ banRows' = banRows + 1
  /\ bans' = [bans EXCEPT ![s][u] =
                [id |-> IF @.id = 0 THEN banRows + 1 ELSE @.id, state |-> "active"]]
  /\ banning' = <<s, u>>
  /\ sentenced' = sentenced \cup {<<s, u>>}
  /\ lifted' = IF \E h \in Requests : /\ req[h].pc = "sweep" /\ req[h].stream = s
                                      /\ req[h].id = bans[s][u].id
               THEN lifted \cup {<<s, u>>} ELSE lifted \ {<<s, u>>}
  /\ UNCHANGED <<clientVars, roomVars, req, joins, messages, overlapped, late, overtaken, moved>>

\* disconnectUser.
DisconnectUser ==
  /\ banning # None
  /\ LET s == banning[1]
         out == ClientsForUser(s, banning[2])
         M == members[s] \ out
     IN /\ members' = [members EXCEPT ![s] = M]
        /\ rooms' = Pruned(s, M)
        /\ Left(out)
        /\ socket' = Closing(out)
        /\ overtaken' = overtaken \cup
             {req[h].socket : h \in {g \in Requests :
                /\ req[g].pc \in {"sweep", "enter"} /\ req[g].stream = s
                /\ UserOf[req[g].socket] = banning[2]}}
  /\ banning' = None
  /\ UNCHANGED <<log, req, bans, counts, sentenced, overlapped, late, lifted, moved>>

Unban(s, u) ==
  /\ banning = None /\ bans[s][u].id # 0
  /\ bans' = [bans EXCEPT ![s][u] = NoBan]
  /\ sentenced' = sentenced \ {<<s, u>>}
  /\ UNCHANGED <<clientVars, roomVars, req, counts, banning,
                 overlapped, late, overtaken, lifted, moved>>

BanExpires(s, u) ==
  /\ bans[s][u].state = "active"
  /\ bans' = [bans EXCEPT ![s][u].state = "expired"]
  /\ sentenced' = sentenced \ {<<s, u>>}
  /\ UNCHANGED <<clientVars, roomVars, req, counts, banning,
                 overlapped, late, overtaken, lifted, moved>>

----------------------------------------------------------------------------
JoinStep(h) == ReadAccess(h) \/ ReadBan(h) \/ SweepBan(h) \/ EnterRoom(h)
PostStep(h) == TimedOut(h) \/ FetchWords(h) \/ PostCached(h) \/ PostFetched(h)

Next ==
  \/ \E c \in Sockets : Connect(c) \/ Disconnect(c) \/ WordsExpire(c)
  \/ \E h \in Requests :
       \/ \E c \in Sockets : ReceiveMessage(h, c) \/ \E s \in Streams : ReceiveJoin(h, c, s)
       \/ JoinStep(h) \/ PostStep(h) \/ RequestFails(h)
  \/ DisconnectUser
  \/ \E s \in Streams, u \in Users : Ban(s, u) \/ Unban(s, u) \/ BanExpires(s, u)

Spec == Init /\ [][Next]_vars

----------------------------------------------------------------------------
(* Properties.                                                             *)

\* However the joins of a user's tabs and reconnects interleave, a room has one
\* socket of each user ("Drop prior sockets for this user").
OneSocketPerUser ==
  \A s \in Streams, c, d \in Sockets :
    {c, d} \subseteq members[s] /\ UserOf[c] = UserOf[d] => c = d

\* A socket that says it is in a room is a member of it, a member says so unless
\* two of its joins overlapped, and no room is kept without members or messages; and
\* one that is gone is in no room, unless it closed during a join (which then enters
\* for it).
RoomsAgree ==
  /\ \A c \in Sockets : room[c] # None => c \in members[room[c]]
  /\ \A s \in Streams, c \in Sockets \ overlapped : c \in members[s] => room[c] = s
  /\ \A s \in Streams : IF s \in rooms THEN members[s] # {} \/ log[s] > 0
                        ELSE members[s] = {} /\ log[s] = 0
  /\ \A s \in Streams : \A c \in members[s] \ (late \cup overlapped) : socket[c] # "closed"

\* Who is banned is in no room of the stream once the ban request has returned,
\* unless the join was told otherwise before, or the ban had expired and was
\* renewed while a join that had read the expired row was about to delete it.
BannedStayOut ==
  \A p \in sentenced \ lifted : banning # p =>
    \A c \in members[p[1]] : UserOf[c] = p[2] => c \in overtaken

\* A message that is checked against cached words is checked against those of the
\* stream it is for, unless its socket went on to another room with a message in
\* flight.
FilteredByOwnWords ==
  \A h \in Requests :
    req[h].pc = "timeout" /\ req[h].socket \notin moved
      => words[req[h].socket] \in {None, req[h].stream}
=============================================================================

--------------------------- MODULE ChatRoom_proofs ---------------------------
(***************************************************************************)
(* Proofs of the safety of ChatRoom, for any number of streams, users,     *)
(* sockets, handlers at an await, joins, messages and bans.                *)
(***************************************************************************)
EXTENDS ChatRoom, TLAPS

Steps == {"unused"} \cup JoinSteps \cup PostSteps
Handler == [pc : Steps, socket : Sockets \cup {None}, stream : Streams \cup {None}, id : Nat]
Row == [id : Nat, state : {"none", "active", "expired"}]

SocketsOK ==
  /\ socket \in [Sockets -> {"new", "open", "closing", "closed"}]
  /\ room \in [Sockets -> Streams \cup {None}]
  /\ words \in [Sockets -> Streams \cup {None}]

RoomsOK ==
  /\ rooms \subseteq Streams
  /\ members \in [Streams -> SUBSET Sockets]
  /\ log \in [Streams -> Nat]

HandlersOK ==
  /\ req \in [Requests -> Handler]
  /\ \A h \in Requests : req[h].pc # "unused" => req[h].socket \in Sockets /\ req[h].stream \in Streams

\* No handler, and no row, has an id that is still to come.
RowsOK ==
  /\ bans \in [Streams -> [Users -> Row]] /\ banRows \in Nat
  /\ banning \in Pairs \cup {None} /\ sentenced \subseteq Pairs
  /\ \A h \in Requests : req[h].id <= banRows
  /\ \A s \in Streams, u \in Users : bans[s][u].id <= banRows

IsJoin(h) == req[h].pc \in JoinSteps
IsPost(h) == req[h].pc \in PostSteps

\* A join of a socket that has only one is of a socket in no room.
JoinsOK ==
  \A h \in Requests : IsJoin(h) /\ req[h].socket \notin overlapped =>
    /\ room[req[h].socket] = None
    /\ \A g \in Requests : IsJoin(g) /\ req[g].socket = req[h].socket => g = h

ClosedOK ==
  \A h \in Requests : IsJoin(h) /\ socket[req[h].socket] = "closed" => req[h].socket \in late

\* All that a socket is at work on is for one stream.
WordsOK ==
  \A c \in Sockets \ moved :
    /\ room[c] # None /\ words[c] # None => room[c] = words[c]
    /\ \A h \in Requests : IsPost(h) /\ req[h].socket = c =>
         /\ room[c] \in {None, req[h].stream} /\ words[c] \in {None, req[h].stream}
         /\ \A g \in Requests : IsPost(g) /\ req[g].socket = c => req[g].stream = req[h].stream

\* Handler h has read that user u may join stream s.
Admitted(h, s, u) ==
  req[h].pc \in {"sweep", "enter"} /\ req[h].stream = s /\ UserOf[req[h].socket] = u

\* A sentence has a row in force that no handler is about to delete, and nobody is in, or on
\* the way in, who was not on the way before.
SentenceOK(s, u) ==
  /\ u # Owner[s] /\ bans[s][u].state = "active"
  /\ \A h \in Requests : Admitted(h, s, u) /\ req[h].pc = "sweep" => req[h].id # bans[s][u].id
  /\ banning # <<s, u>> =>
       /\ \A h \in Requests : Admitted(h, s, u) => req[h].socket \in overtaken
       /\ \A c \in members[s] : UserOf[c] = u => c \in overtaken

SentencesOK == \A s \in Streams, u \in Users : <<s, u>> \in sentenced \ lifted => SentenceOK(s, u)

TypesOK == SocketsOK /\ RoomsOK /\ HandlersOK /\ RowsOK

\* RoomsAgree, in parts.
RoomIsMember == \A c \in Sockets : room[c] # None => c \in members[room[c]]
MemberIsInRoom == \A s \in Streams, c \in Sockets \ overlapped : c \in members[s] => room[c] = s
RoomsInUse == \A s \in Streams : s \in rooms <=> members[s] # {} \/ log[s] > 0
ClosedAreOut == \A s \in Streams : \A c \in members[s] \ (late \cup overlapped) : socket[c] # "closed"

MembersOK == OneSocketPerUser /\ RoomIsMember /\ MemberIsInRoom /\ RoomsInUse /\ ClosedAreOut

\* The inductive invariant.
ChatInv == TypesOK /\ MembersOK /\ JoinsOK /\ ClosedOK /\ WordsOK /\ SentencesOK

USE DEF TypesOK, MembersOK

----------------------------------------------------------------------------
\* Two kinds of steps, and no handler is of both.
LEMMA StepFacts ==
  /\ "unused" \notin JoinSteps \cup PostSteps /\ JoinSteps \cap PostSteps = {}
  /\ {"sweep", "enter"} \subseteq JoinSteps
  /\ Unused \in Handler /\ Unused.pc = "unused" /\ Unused.id = 0
BY DEF JoinSteps, PostSteps, Unused, Handler, Steps

\* A handler gets another step.
LEMMA ToFacts ==
  ASSUME HandlersOK, NEW h \in Requests, NEW pc \in Steps, To(h, pc)
  PROVE  \E r \in Handler :
           /\ req' = [req EXCEPT ![h] = r]
           /\ r.pc = pc /\ r.socket = req[h].socket /\ r.stream = req[h].stream /\ r.id = req[h].id
<1>1. PICK r : r = [req[h] EXCEPT !.pc = pc]
  OBVIOUS
<1>2. req[h] \in Handler
  BY DEF HandlersOK
<1>3. r \in Handler /\ r.pc = pc /\ r.socket = req[h].socket /\ r.stream = req[h].stream /\ r.id = req[h].id
  BY <1>1, <1>2 DEF Handler
<1>4. req' = [req EXCEPT ![h] = r]
  BY <1>1 DEF To
<1> QED
  BY <1>3, <1>4

\* Nobody new is on the way in, or in.
LEMMA SentencesKept ==
  ASSUME ChatInv, UNCHANGED <<bans, banning, sentenced, lifted, overtaken>>,
         \A s \in Streams : members'[s] \subseteq members[s],
         \A h \in Requests, s \in Streams, u \in Users :
           <<s, u>> \in sentenced \ lifted /\ Admitted(h, s, u)'
             => Admitted(h, s, u) /\ req'[h] = req[h]
  PROVE  SentencesOK'
<1> SUFFICES ASSUME NEW s \in Streams, NEW u \in Users, <<s, u>> \in sentenced \ lifted
             PROVE  SentenceOK(s, u)'
  BY DEF SentencesOK
<1>1. SentenceOK(s, u)
  BY DEF ChatInv, SentencesOK
<1>2. \A h \in Requests : Admitted(h, s, u)' => Admitted(h, s, u) /\ req'[h] = req[h]
  OBVIOUS
<1> QED
  BY <1>1, <1>2 DEF SentenceOK

\* A handler goes on, or is over; nobody enters or leaves.
LEMMA HandlerInv ==
  ASSUME ChatInv, NEW h \in Requests, NEW r \in Handler, req' = [req EXCEPT ![h] = r],
         \/ r.pc = "unused"
         \/ /\ r.socket = req[h].socket /\ r.stream = req[h].stream
            /\ (IsJoin(h) /\ r.pc \in JoinSteps) \/ (IsPost(h) /\ r.pc \in PostSteps),
         UNCHANGED <<room, rooms, members, overlapped, late, moved>>,
         socket' \in [Sockets -> {"new", "open", "closing", "closed"}],
         \A c \in Sockets : socket'[c] = "closed" => socket[c] = "closed",
         log' \in [Streams -> Nat],
         \A s \in Streams : log'[s] = log[s] \/ (s \in rooms /\ log'[s] > 0),
         words' \in [Sockets -> Streams \cup {None}],
         \A c \in Sockets : \/ words'[c] \in {None, words[c]}
                            \/ IsPost(h) /\ req[h].socket = c /\ words'[c] = req[h].stream,
         RowsOK', SentencesOK'
  PROVE  ChatInv'
<1> USE DEF ChatInv
<1>1. /\ req' \in [Requests -> Handler] /\ req'[h] = r
      /\ \A g \in Requests \ {h} : req'[g] = req[g]
  BY DEF HandlersOK
<1>2. \A g \in Requests : /\ IsJoin(g)' => IsJoin(g) /\ req'[g].socket = req[g].socket
                          /\ IsPost(g)' => IsPost(g) /\ req'[g].socket = req[g].socket
                                                     /\ req'[g].stream = req[g].stream
  BY <1>1, StepFacts DEF IsJoin, IsPost
<1>3. SocketsOK' /\ RoomsOK'
  BY DEF SocketsOK, RoomsOK
<1>4. HandlersOK'
  BY <1>1, StepFacts DEF HandlersOK, IsJoin, IsPost
<1>5. MembersOK'
  <2>1. OneSocketPerUser' /\ RoomIsMember' /\ MemberIsInRoom'
    BY DEF OneSocketPerUser, RoomIsMember, MemberIsInRoom
  <2>2. RoomsInUse'
    BY DEF RoomsInUse, RoomsOK
  <2>3. ClosedAreOut'
    BY DEF ClosedAreOut, RoomsOK
  <2> QED
    BY <2>1, <2>2, <2>3
<1>6. JoinsOK'
  BY <1>2 DEF JoinsOK
<1>7. ClosedOK'
  BY <1>2, StepFacts DEF ClosedOK, HandlersOK, IsJoin
<1>8. WordsOK'
  <2> SUFFICES ASSUME NEW c \in Sockets \ moved
               PROVE  /\ room[c] # None /\ words'[c] # None => room[c] = words'[c]
                      /\ \A g \in Requests : IsPost(g)' /\ req'[g].socket = c =>
                           /\ room[c] \in {None, req'[g].stream} /\ words'[c] \in {None, req'[g].stream}
                           /\ \A i \in Requests : IsPost(i)' /\ req'[i].socket = c
                                                    => req'[i].stream = req'[g].stream
    BY DEF WordsOK
  <2>1. CASE words'[c] \in {None, words[c]}
    BY <1>2, <2>1 DEF WordsOK
  <2>2. CASE IsPost(h) /\ req[h].socket = c /\ words'[c] = req[h].stream
    BY <1>2, <2>2 DEF WordsOK
  <2> QED
    BY <2>1, <2>2
<1> QED
  BY <1>3, <1>4, <1>5, <1>6, <1>7, <1>8

----------------------------------------------------------------------------
(* Leaving.                                                                *)

LEMMA LeaveFacts ==
  ASSUME SocketsOK, RoomsOK, RoomIsMember, RoomsInUse, NEW c \in Sockets, LeaveRoom(c), UNCHANGED log
  PROVE  /\ room' \in [Sockets -> Streams \cup {None}] /\ words' \in [Sockets -> Streams \cup {None}]
         /\ RoomsOK' /\ RoomsInUse'
         /\ room'[c] = None /\ words'[c] \in {None, words[c]}
         /\ \A d \in Sockets \ {c} : room'[d] = room[d] /\ words'[d] = words[d]
         /\ \A s \in Streams : members'[s] \subseteq members[s]
         /\ \A s \in Streams : \A d \in members[s] \ members'[s] : d = c
         /\ room[c] # None => c \notin members'[room[c]]
<1>1. CASE room[c] = None
  BY <1>1 DEF LeaveRoom, SocketsOK, RoomsOK, RoomsInUse
<1>2. CASE room[c] # None
  <2>1. room[c] \in Streams
    BY <1>2 DEF SocketsOK
  <2>2. /\ members' = [members EXCEPT ![room[c]] = members[room[c]] \ {c}]
        /\ rooms' = Pruned(room[c], members[room[c]] \ {c})
        /\ room' = [d \in Sockets |-> IF d \in {c} THEN None ELSE room[d]]
        /\ words' = [d \in Sockets |-> IF d \in {c} THEN None ELSE words[d]]
    BY <1>2 DEF LeaveRoom, Leavers, Left, Forgotten
  <2>3. /\ members' \in [Streams -> SUBSET Sockets]
        /\ \A s \in Streams : members'[s] = IF s = room[c] THEN members[s] \ {c} ELSE members[s]
    BY <2>1, <2>2 DEF RoomsOK
  <2>4. RoomsOK' /\ RoomsInUse'
    BY <2>1, <2>2, <2>3 DEF RoomsOK, RoomsInUse, Pruned, RoomIsMember
  <2> QED
    BY <2>1, <2>2, <2>3, <2>4 DEF SocketsOK
<1> QED
  BY <1>1, <1>2

----------------------------------------------------------------------------
(* Handlers.                                                               *)

\* A handler is over, and may have closed its socket.
LEMMA OverInv ==
  ASSUME ChatInv, NEW h \in Requests, Over(h),
         socket' = socket \/ socket' = Closing({req[h].socket}),
         UNCHANGED <<room, words, roomVars, bans, counts, banning, history>>
  PROVE  ChatInv'
<1>1. req' = [req EXCEPT ![h] = Unused]
  BY DEF Over
<1>2. /\ socket' \in [Sockets -> {"new", "open", "closing", "closed"}]
      /\ \A c \in Sockets : socket'[c] = "closed" => socket[c] = "closed"
  BY DEF Closing, ChatInv, SocketsOK
<1>3. RowsOK'
  BY <1>1, StepFacts DEF ChatInv, HandlersOK, RowsOK, counts, history
<1>4. SentencesOK'
  BY <1>1, StepFacts, SentencesKept DEF roomVars, history, Admitted, ChatInv, HandlersOK
<1> QED
  BY <1>1, <1>2, <1>3, <1>4, StepFacts, HandlerInv
     DEF roomVars, history, ChatInv, SocketsOK, RoomsOK

\* A handler goes on, and is not admitted by that.
LEMMA GoOnInv ==
  ASSUME ChatInv, NEW h \in Requests, NEW pc \in Steps, To(h, pc),
         (IsJoin(h) /\ pc \in JoinSteps) \/ (IsPost(h) /\ pc \in PostSteps),
         \A s \in Streams, u \in Users : <<s, u>> \in sentenced \ lifted => ~Admitted(h, s, u)',
         UNCHANGED <<clientVars, roomVars, bans, counts, banning, history>>
  PROVE  ChatInv'
<1>1. PICK r \in Handler :
        /\ req' = [req EXCEPT ![h] = r]
        /\ r.pc = pc /\ r.socket = req[h].socket /\ r.stream = req[h].stream /\ r.id = req[h].id
  BY ToFacts DEF ChatInv
<1>2. \A g \in Requests : req'[g] = IF g = h THEN r ELSE req[g]
  BY <1>1 DEF ChatInv, HandlersOK
<1>3. RowsOK'
  BY <1>1, <1>2 DEF ChatInv, RowsOK, counts, history
<1>4. SentencesOK'
  BY <1>2, SentencesKept DEF roomVars, history, Admitted
<1> QED
  BY <1>1, <1>3, <1>4, HandlerInv DEF clientVars, roomVars, history, ChatInv, SocketsOK, RoomsOK

LEMMA ReadAccessInv ==
  ASSUME ChatInv, NEW h \in Requests, ReadAccess(h)
  PROVE  ChatInv'
<1>1. IsJoin(h) /\ UNCHANGED <<roomVars, bans, counts, banning, history>>
  BY DEF ReadAccess, IsJoin, JoinSteps
<1>2. CASE Refuse(h)
  BY <1>1, <1>2, OverInv DEF Refuse
<1>3. CASE /\ To(h, IF Owner[req[h].stream] = UserOf[req[h].socket] THEN "enter" ELSE "ban")
           /\ UNCHANGED clientVars
  <2>1. ASSUME NEW s \in Streams, NEW u \in Users, <<s, u>> \in sentenced \ lifted
        PROVE  ~Admitted(h, s, u)'
    <3>1. u # Owner[s]
      BY <2>1 DEF ChatInv, SentencesOK, SentenceOK
    <3>2. PICK r \in Handler :
            /\ req' = [req EXCEPT ![h] = r]
            /\ r.pc = (IF Owner[req[h].stream] = UserOf[req[h].socket] THEN "enter" ELSE "ban")
            /\ r.socket = req[h].socket /\ r.stream = req[h].stream
      BY <1>3, ToFacts DEF ChatInv, Steps, JoinSteps
    <3>3. req'[h] = r
      BY <3>2 DEF ChatInv, HandlersOK
    <3> QED
      BY <3>1, <3>2, <3>3 DEF Admitted
  <2>2. CASE Owner[req[h].stream] = UserOf[req[h].socket]
    <3>1. To(h, "enter")
      BY <1>3, <2>2
    <3> QED
      BY <1>1, <1>3, <2>1, <3>1, GoOnInv DEF JoinSteps, Steps
  <2>3. CASE Owner[req[h].stream] # UserOf[req[h].socket]
    <3>1. To(h, "ban")
      BY <1>3, <2>3
    <3> QED
      BY <1>1, <1>3, <2>1, <3>1, GoOnInv DEF JoinSteps, Steps
  <2> QED
    BY <2>2, <2>3
<1> QED
  BY <1>2, <1>3 DEF ReadAccess

LEMMA ReadBanInv ==
  ASSUME ChatInv, NEW h \in Requests, ReadBan(h)
  PROVE  ChatInv'
<1> DEFINE s == req[h].stream
           u == UserOf[req[h].socket]
<1>1. IsJoin(h) /\ UNCHANGED <<roomVars, bans, counts, banning, history>>
  BY DEF ReadBan, IsJoin, JoinSteps
<1>2. s \in Streams /\ req[h].socket \in Sockets /\ u \in Users
  BY ChatAssumption DEF ReadBan, ChatInv, HandlersOK
<1>3. CASE Banned(bans[s][u])
  BY <1>1, <1>3, OverInv DEF ReadBan, Refuse
<1>4. CASE ~Banned(bans[s][u])
  <2>1. PICK r : r = [[req[h] EXCEPT !.pc = IF bans[s][u].id = 0 THEN "enter" ELSE "sweep"]
                              EXCEPT !.id = bans[s][u].id]
    OBVIOUS
  <2>2. req' = [req EXCEPT ![h] = r] /\ UNCHANGED clientVars
    BY <1>4, <2>1 DEF ReadBan, ChatInv, HandlersOK
  <2>3. bans[s][u] \in Row /\ bans[s][u].id <= banRows
    BY <1>2 DEF ChatInv, RowsOK
  <2>4. /\ r \in Handler /\ r.pc \in {"enter", "sweep"} /\ r.id = bans[s][u].id
        /\ r.socket = req[h].socket /\ r.stream = req[h].stream
    BY <2>1, <2>3 DEF ChatInv, HandlersOK, Handler, Row, Steps, JoinSteps
  <2>5. \A g \in Requests : req'[g] = IF g = h THEN r ELSE req[g]
    BY <2>2 DEF ChatInv, HandlersOK
  <2>6. <<s, u>> \notin sentenced \ lifted
    BY <1>2, <1>4 DEF ChatInv, SentencesOK, SentenceOK, Banned
  <2>7. SentencesOK'
    BY <1>1, <2>4, <2>5, <2>6, SentencesKept DEF roomVars, history, Admitted
  <2>8. RowsOK'
    BY <1>1, <2>3, <2>4, <2>5 DEF ChatInv, RowsOK, counts, history
  <2> QED
    BY <1>1, <2>2, <2>4, <2>7, <2>8, StepFacts, HandlerInv
       DEF clientVars, roomVars, history, ChatInv, SocketsOK, RoomsOK
<1> QED
  BY <1>3, <1>4

LEMMA SweepBanInv ==
  ASSUME ChatInv, NEW h \in Requests, SweepBan(h)
  PROVE  ChatInv'
<1> DEFINE s == req[h].stream
           u == UserOf[req[h].socket]
<1>1. IsJoin(h) /\ req[h].pc = "sweep" /\ UNCHANGED <<clientVars, roomVars, counts, banning, history>>
  BY DEF SweepBan, IsJoin, JoinSteps
<1>2. s \in Streams /\ req[h].socket \in Sockets /\ u \in Users
  BY ChatAssumption DEF SweepBan, ChatInv, HandlersOK
<1>3. PICK r : r = [[req[h] EXCEPT !.pc = "enter"] EXCEPT !.id = 0]
  OBVIOUS
<1>4. req' = [req EXCEPT ![h] = r]
  BY <1>3 DEF SweepBan, ChatInv, HandlersOK
<1>5. /\ r \in Handler /\ r.pc = "enter" /\ r.id = 0
      /\ r.socket = req[h].socket /\ r.stream = req[h].stream
  BY <1>3 DEF ChatInv, HandlersOK, Handler, Steps, JoinSteps
<1>6. \A g \in Requests : req'[g] = IF g = h THEN r ELSE req[g]
  BY <1>4 DEF ChatInv, HandlersOK
<1>7. \/ bans' = bans
      \/ bans[s][u].id = req[h].id /\ bans' = [bans EXCEPT ![s][u] = NoBan]
  BY DEF SweepBan
<1>8. NoBan \in Row /\ NoBan.id = 0
  BY DEF NoBan, Row
<1>9. /\ bans' \in [Streams -> [Users -> Row]]
      /\ \A t \in Streams, v \in Users :
           \/ bans'[t][v] = bans[t][v]
           \/ bans'[t][v] = NoBan /\ t = s /\ v = u /\ bans[s][u].id = req[h].id
  <2> HIDE DEF s, u
  <2>1. ASSUME bans' = [bans EXCEPT ![s][u] = NoBan]
        PROVE  /\ bans' \in [Streams -> [Users -> Row]]
               /\ \A t \in Streams, v \in Users :
                    bans'[t][v] = IF t = s /\ v = u THEN NoBan ELSE bans[t][v]
    BY <1>2, <1>8, <2>1 DEF ChatInv, RowsOK
  <2>2. CASE bans' = bans
    BY <2>2 DEF ChatInv, RowsOK
  <2>3. CASE bans[s][u].id = req[h].id /\ bans' = [bans EXCEPT ![s][u] = NoBan]
    BY <2>1, <2>3
  <2> QED
    BY <1>7, <2>2, <2>3
<1>10. RowsOK'
  <2>1. UNCHANGED <<banRows, banning, sentenced>>
    BY <1>1 DEF counts, history
  <2>2. \A g \in Requests : req'[g].id <= banRows
    BY <1>5, <1>6 DEF ChatInv, RowsOK
  <2>3. \A t \in Streams, v \in Users : bans'[t][v].id <= banRows
    BY <1>8, <1>9 DEF ChatInv, RowsOK
  <2> QED
    BY <1>9, <2>1, <2>2, <2>3 DEF ChatInv, RowsOK
<1>11. SentencesOK'
  <2> SUFFICES ASSUME NEW t \in Streams, NEW v \in Users, <<t, v>> \in sentenced \ lifted
               PROVE  SentenceOK(t, v)'
    BY <1>1 DEF SentencesOK, history
  <2>1. SentenceOK(t, v)
    BY DEF ChatInv, SentencesOK
  <2>2. bans'[t][v] = bans[t][v]
    BY <1>1, <1>9, <2>1 DEF SentenceOK, Admitted
  <2>3. \A g \in Requests : Admitted(g, t, v)' => /\ Admitted(g, t, v) /\ req'[g].socket = req[g].socket
                                                  /\ req'[g].pc = "sweep" => req'[g] = req[g]
    BY <1>1, <1>5, <1>6 DEF Admitted
  <2>4. UNCHANGED <<banning, overtaken, members>>
    BY <1>1 DEF history, roomVars
  <2> QED
    BY <2>1, <2>2, <2>3, <2>4 DEF SentenceOK
<1> QED
  BY <1>1, <1>4, <1>5, <1>10, <1>11, StepFacts, HandlerInv
     DEF clientVars, roomVars, history, ChatInv, SocketsOK, RoomsOK

LEMMA DeliverInv ==
  ASSUME ChatInv, NEW h \in Requests, IsPost(h), Deliver(h),
         \/ words' = words
         \/ \E w \in {req[h].stream, None} : words' = [words EXCEPT ![req[h].socket] = w]
  PROVE  ChatInv'
<1>1. /\ req' = [req EXCEPT ![h] = Unused]
      /\ UNCHANGED <<socket, room, rooms, members, bans, counts, banning, history>>
  BY DEF Deliver, Over
<1>2. req[h].stream \in Streams /\ req[h].socket \in Sockets
  BY StepFacts DEF ChatInv, HandlersOK, IsPost
<1>3. /\ log' \in [Streams -> Nat]
      /\ \A s \in Streams : log'[s] = log[s] \/ (s \in rooms /\ log'[s] > 0)
  <2>1. \A n \in Nat : Trimmed(n + 1) \in Nat /\ Trimmed(n + 1) > 0
    BY ChatAssumption DEF Trimmed
  <2> QED
    BY <1>2, <2>1 DEF Deliver, ChatInv, RoomsOK
<1>4. /\ words' \in [Sockets -> Streams \cup {None}]
      /\ \A c \in Sockets : words'[c] \in {None, words[c]} \/ (req[h].socket = c /\ words'[c] = req[h].stream)
  BY <1>2 DEF ChatInv, SocketsOK
<1>5. RowsOK'
  BY <1>1, StepFacts DEF ChatInv, HandlersOK, RowsOK, counts, history
<1>6. SentencesOK'
  BY <1>1, StepFacts, SentencesKept DEF history, Admitted, ChatInv, HandlersOK
<1> QED
  BY <1>1, <1>3, <1>4, <1>5, <1>6, StepFacts, HandlerInv DEF history, ChatInv, SocketsOK

LEMMA PostInv ==
  ASSUME ChatInv, NEW h \in Requests, PostStep(h) \/ RequestFails(h)
  PROVE  ChatInv'
<1>1. CASE TimedOut(h) \/ RequestFails(h)
  BY <1>1, OverInv DEF TimedOut, RequestFails, clientVars
<1>2. CASE FetchWords(h)
  <2>1. IsPost(h) /\ To(h, "words") /\ "words" \in PostSteps /\ "words" \in Steps
    BY <1>2 DEF FetchWords, IsPost, PostSteps, Steps
  <2>2. PICK r \in Handler : req' = [req EXCEPT ![h] = r] /\ r.pc = "words"
    BY <2>1, ToFacts DEF ChatInv
  <2>3. \A s, u : ~Admitted(h, s, u)'
    BY <2>2 DEF Admitted, ChatInv, HandlersOK
  <2> QED
    BY <1>2, <2>1, <2>3, GoOnInv DEF FetchWords
<1>3. CASE PostCached(h)
  BY <1>3, DeliverInv DEF PostCached, IsPost, PostSteps
<1>4. CASE PostFetched(h)
  BY <1>4, DeliverInv DEF PostFetched, IsPost, PostSteps
<1> QED
  BY <1>1, <1>2, <1>3, <1>4 DEF PostStep

\* A new handler.
LEMMA ReceiveFacts ==
  ASSUME ChatInv, NEW h \in Requests, NEW c \in Sockets, NEW s \in Streams,
         NEW pc \in {"access", "timeout"}, Receive(h, c, s, pc)
  PROVE  /\ req[h].pc = "unused" /\ socket[c] # "closed"
         /\ HandlersOK' /\ (\A g \in Requests : req'[g].id <= banRows)
         /\ \A g \in Requests \ {h} : req'[g] = req[g]
         /\ req'[h].pc = pc /\ req'[h].socket = c /\ req'[h].stream = s
<1>1. PICK r : r = [[[Unused EXCEPT !.pc = pc] EXCEPT !.socket = c] EXCEPT !.stream = s]
  OBVIOUS
<1>2. req' = [req EXCEPT ![h] = r]
  BY <1>1 DEF Receive
<1>3. r \in Handler /\ r.pc = pc /\ r.socket = c /\ r.stream = s /\ r.id = 0
  BY <1>1 DEF Unused, Handler, Steps, JoinSteps, PostSteps
<1>4. \A g \in Requests : req'[g] = IF g = h THEN r ELSE req[g]
  BY <1>2 DEF ChatInv, HandlersOK
<1>5. HandlersOK'
  BY <1>2, <1>3, <1>4 DEF ChatInv, HandlersOK
<1>6. \A g \in Requests : req'[g].id <= banRows
  BY <1>3, <1>4 DEF ChatInv, RowsOK
<1> QED
  BY <1>3, <1>4, <1>5, <1>6 DEF Receive

LEMMA ReceiveMessageInv ==
  ASSUME ChatInv, NEW h \in Requests, NEW c \in Sockets, ReceiveMessage(h, c)
  PROVE  ChatInv'
<1> USE DEF ChatInv
<1>1. room[c] \in Streams /\ UNCHANGED <<clientVars, roomVars, bans, banRows, banning, history>>
  BY DEF ReceiveMessage, SocketsOK
<1>2. /\ HandlersOK' /\ (\A g \in Requests : req'[g].id <= banRows)
      /\ \A g \in Requests \ {h} : req'[g] = req[g]
      /\ req'[h].pc = "timeout" /\ req'[h].socket = c /\ req'[h].stream = room[c]
  BY <1>1, ReceiveFacts DEF ReceiveMessage
<1>3. \A g \in Requests : /\ IsJoin(g)' => IsJoin(g) /\ req'[g] = req[g]
                          /\ IsPost(g)' => \/ IsPost(g) /\ req'[g] = req[g]
                                           \/ req'[g].socket = c /\ req'[g].stream = room[c]
  BY <1>2, StepFacts DEF IsJoin, IsPost, JoinSteps
<1>4. TypesOK' /\ MembersOK'
  BY <1>1, <1>2 DEF clientVars, roomVars, history, SocketsOK, RoomsOK, RowsOK, OneSocketPerUser, RoomIsMember,
                    MemberIsInRoom, RoomsInUse, ClosedAreOut
<1>5. JoinsOK' /\ ClosedOK'
  BY <1>1, <1>3 DEF clientVars, history, JoinsOK, ClosedOK
<1>6. WordsOK'
  <2>1. room[c] # None
    BY DEF ReceiveMessage
  <2> QED
    BY <1>1, <1>3, <2>1 DEF clientVars, history, WordsOK
<1>7. SentencesOK'
  BY <1>1, <1>2, SentencesKept DEF roomVars, history, Admitted
<1> QED
  BY <1>4, <1>5, <1>6, <1>7

----------------------------------------------------------------------------
(* Sockets.                                                                *)

LEMMA ConnectInv ==
  ASSUME ChatInv, NEW c \in Sockets, Connect(c)
  PROVE  ChatInv'
<1> USE DEF ChatInv
<1>1. UNCHANGED <<room, words, roomVars, req, bans, counts, banning, history>>
  BY DEF Connect
<1>2. /\ SocketsOK' /\ \A d \in Sockets : socket'[d] = "closed" => socket[d] = "closed"
  BY <1>1 DEF Connect, SocketsOK
<1>3. TypesOK' /\ MembersOK'
  BY <1>1, <1>2 DEF roomVars, counts, history, RoomsOK, RowsOK, HandlersOK, OneSocketPerUser, RoomIsMember,
                    MemberIsInRoom, RoomsInUse, ClosedAreOut
<1>4. JoinsOK' /\ ClosedOK' /\ WordsOK'
  BY <1>1, <1>2, StepFacts DEF history, JoinsOK, ClosedOK, WordsOK, IsJoin, IsPost, HandlersOK
<1>5. SentencesOK'
  BY <1>1, SentencesKept DEF roomVars, history, Admitted
<1> QED
  BY <1>3, <1>4, <1>5

LEMMA WordsExpireInv ==
  ASSUME ChatInv, NEW c \in Sockets, WordsExpire(c)
  PROVE  ChatInv'
<1> USE DEF ChatInv
<1>1. UNCHANGED <<socket, room, roomVars, req, bans, counts, banning, history>>
  BY DEF WordsExpire
<1>2. /\ SocketsOK' /\ \A d \in Sockets : words'[d] \in {None, words[d]}
  BY <1>1 DEF WordsExpire, SocketsOK
<1>3. TypesOK' /\ MembersOK'
  BY <1>1, <1>2 DEF roomVars, counts, history, RoomsOK, RowsOK, HandlersOK, OneSocketPerUser, RoomIsMember,
                    MemberIsInRoom, RoomsInUse, ClosedAreOut
<1>4. JoinsOK' /\ ClosedOK' /\ WordsOK'
  BY <1>1, <1>2 DEF history, JoinsOK, ClosedOK, WordsOK, IsJoin, IsPost
<1>5. SentencesOK'
  BY <1>1, SentencesKept DEF roomVars, history, Admitted
<1> QED
  BY <1>3, <1>4, <1>5

LEMMA DisconnectInv ==
  ASSUME ChatInv, NEW c \in Sockets, Disconnect(c)
  PROVE  ChatInv'
<1> USE DEF ChatInv
<1>1. /\ UNCHANGED <<log, req, bans, counts, banning, sentenced, overlapped, overtaken, lifted, moved>>
      /\ socket' = [socket EXCEPT ![c] = "closed"] /\ LeaveRoom(c)
      /\ late' = IF Joining(c) = {} THEN late ELSE late \cup {c}
  BY DEF Disconnect
<1>2. /\ room' \in [Sockets -> Streams \cup {None}] /\ words' \in [Sockets -> Streams \cup {None}]
      /\ RoomsOK' /\ RoomsInUse'
      /\ room'[c] = None /\ words'[c] \in {None, words[c]}
      /\ \A d \in Sockets \ {c} : room'[d] = room[d] /\ words'[d] = words[d]
      /\ \A s \in Streams : members'[s] \subseteq members[s]
      /\ \A s \in Streams : \A d \in members[s] \ members'[s] : d = c
      /\ room[c] # None => c \notin members'[room[c]]
  BY <1>1, LeaveFacts
<1>3. \A d \in Sockets : socket'[d] = IF d = c THEN "closed" ELSE socket[d]
  BY <1>1 DEF SocketsOK
<1>4. TypesOK'
  BY <1>1, <1>2 DEF SocketsOK, HandlersOK, RowsOK, counts
<1>5. MembersOK'
  <2>1. OneSocketPerUser'
    BY <1>2 DEF OneSocketPerUser
  <2>2. RoomIsMember'
    BY <1>2 DEF RoomIsMember, SocketsOK, RoomsOK
  <2>3. MemberIsInRoom'
    <3> SUFFICES ASSUME NEW s \in Streams, NEW d \in Sockets \ overlapped, d \in members'[s]
                 PROVE  room'[d] = s
      BY <1>1 DEF MemberIsInRoom
    <3>1. room[d] = s
      BY <1>2 DEF MemberIsInRoom
    <3> QED
      BY <1>2, <3>1, ChatAssumption
  <2>4. ClosedAreOut'
    <3> SUFFICES ASSUME NEW s \in Streams, NEW d \in members'[s] \ (late' \cup overlapped)
                 PROVE  socket'[d] # "closed"
      BY <1>1 DEF ClosedAreOut
    <3>1. d \in Sockets /\ d \in members[s] /\ d \notin late
      BY <1>1, <1>2 DEF RoomsOK
    <3>2. d # c
      BY <1>2, <3>1, ChatAssumption DEF MemberIsInRoom
    <3> QED
      BY <1>3, <3>1, <3>2 DEF ClosedAreOut
  <2> QED
    BY <1>2, <2>1, <2>2, <2>3, <2>4
<1>6. JoinsOK'
  BY <1>1, <1>2, StepFacts DEF JoinsOK, IsJoin, HandlersOK
<1>7. ClosedOK'
  <2> SUFFICES ASSUME NEW h \in Requests, IsJoin(h), socket'[req[h].socket] = "closed"
               PROVE  req[h].socket \in late'
    BY <1>1 DEF ClosedOK, IsJoin
  <2>1. req[h].socket \in Sockets
    BY StepFacts DEF HandlersOK, IsJoin
  <2> QED
    BY <1>1, <1>3, <2>1 DEF ClosedOK, Joining, IsJoin
<1>8. WordsOK'
  BY <1>1, <1>2 DEF WordsOK, IsPost
<1>9. SentencesOK'
  BY <1>1, <1>2, SentencesKept DEF Admitted
<1> QED
  BY <1>4, <1>5, <1>6, <1>7, <1>8, <1>9

LEMMA ReceiveJoinInv ==
  ASSUME ChatInv, NEW h \in Requests, NEW c \in Sockets, NEW s \in Streams, ReceiveJoin(h, c, s)
  PROVE  ChatInv'
<1> USE DEF ChatInv
<1>1. /\ UNCHANGED <<socket, log, bans, banRows, banning, sentenced, late, overtaken, lifted, moved>>
      /\ LeaveRoom(c)
      /\ overlapped' = IF Joining(c) = {} THEN overlapped ELSE overlapped \cup {c}
  BY DEF ReceiveJoin
<1>2. /\ room' \in [Sockets -> Streams \cup {None}] /\ words' \in [Sockets -> Streams \cup {None}]
      /\ RoomsOK' /\ RoomsInUse'
      /\ room'[c] = None /\ words'[c] \in {None, words[c]}
      /\ \A d \in Sockets \ {c} : room'[d] = room[d] /\ words'[d] = words[d]
      /\ \A t \in Streams : members'[t] \subseteq members[t]
      /\ \A t \in Streams : \A d \in members[t] \ members'[t] : d = c
      /\ room[c] # None => c \notin members'[room[c]]
  BY <1>1, LeaveFacts
<1>3. /\ HandlersOK' /\ (\A g \in Requests : req'[g].id <= banRows)
      /\ req[h].pc = "unused" /\ socket[c] # "closed"
      /\ \A g \in Requests \ {h} : req'[g] = req[g]
      /\ req'[h].pc = "access" /\ req'[h].socket = c /\ req'[h].stream = s
  BY ReceiveFacts DEF ReceiveJoin
<1>4. /\ ~IsJoin(h) /\ ~IsPost(h) /\ ~IsPost(h)' /\ overlapped \subseteq overlapped'
      /\ \A g \in Requests \ {h} : (IsJoin(g)' <=> IsJoin(g)) /\ (IsPost(g)' <=> IsPost(g))
  BY <1>1, <1>3, StepFacts DEF IsJoin, IsPost, PostSteps
<1>5. TypesOK'
  BY <1>1, <1>2, <1>3 DEF SocketsOK, RowsOK
<1>6. MembersOK'
  <2>1. OneSocketPerUser'
    BY <1>2 DEF OneSocketPerUser
  <2>2. RoomIsMember'
    BY <1>2 DEF RoomIsMember, SocketsOK, RoomsOK
  <2>3. MemberIsInRoom'
    <3> SUFFICES ASSUME NEW t \in Streams, NEW d \in Sockets \ overlapped', d \in members'[t]
                 PROVE  room'[d] = t
      BY DEF MemberIsInRoom
    <3>1. room[d] = t
      BY <1>2, <1>4 DEF MemberIsInRoom
    <3> QED
      BY <1>2, <3>1, ChatAssumption
  <2>4. ClosedAreOut'
    BY <1>1, <1>2, <1>4 DEF ClosedAreOut
  <2> QED
    BY <1>2, <2>1, <2>2, <2>3, <2>4
<1>7. JoinsOK'
  <2> SUFFICES ASSUME NEW g \in Requests, IsJoin(g)', req'[g].socket \notin overlapped'
               PROVE  /\ room'[req'[g].socket] = None
                      /\ \A i \in Requests : IsJoin(i)' /\ req'[i].socket = req'[g].socket => i = g
    BY DEF JoinsOK
  <2>1. CASE req'[g].socket = c
    <3>1. Joining(c) = {}
      BY <1>1, <2>1
    <3>2. \A i \in Requests \ {h} : IsJoin(i) => req[i].socket # c
      BY <3>1 DEF Joining, IsJoin
    <3> QED
      BY <1>2, <1>3, <1>4, <2>1, <3>2
  <2>2. CASE req'[g].socket # c
    <3>1. g # h /\ req'[g] = req[g] /\ IsJoin(g) /\ req[g].socket \in Sockets
      BY <1>3, <1>4, <2>2, StepFacts DEF HandlersOK, IsJoin
    <3> QED
      BY <1>2, <1>3, <1>4, <2>2, <3>1 DEF JoinsOK
  <2> QED
    BY <2>1, <2>2
<1>8. ClosedOK'
  BY <1>1, <1>3, <1>4 DEF ClosedOK
<1>9. WordsOK'
  BY <1>1, <1>2, <1>3, <1>4 DEF WordsOK
<1>10. SentencesOK'
  BY <1>1, <1>2, <1>3, SentencesKept DEF Admitted
<1> QED
  BY <1>5, <1>6, <1>7, <1>8, <1>9, <1>10

\* The join is answered: the prior sockets of the user are out, this one is in.
LEMMA EnterRoomInv ==
  ASSUME ChatInv, NEW h \in Requests, EnterRoom(h)
  PROVE  ChatInv'
<1> USE DEF ChatInv
<1>1. PICK c, s, prior :
        /\ c = req[h].socket /\ s = req[h].stream /\ prior = ClientsForUser(s, UserOf[c])
        /\ req[h].pc = "enter" /\ req' = [req EXCEPT ![h] = Unused]
        /\ socket' = Closing(prior)
        /\ room' = [d \in Sockets |-> IF d = c THEN s ELSE IF d \in prior THEN None ELSE room[d]]
        /\ words' = Forgotten(prior \cup {c}, words)
        /\ rooms' = rooms \cup {s}
        /\ members' = [members EXCEPT ![s] = (members[s] \ prior) \cup {c}]
        /\ moved' = IF Posting(c) \subseteq {g \in Requests : req[g].stream = s}
                    THEN moved \ {c} ELSE moved \cup {c}
        /\ UNCHANGED <<log, bans, counts, banning, sentenced, overlapped, late, overtaken, lifted>>
  BY DEF EnterRoom, Over
<1>2. c \in Sockets /\ s \in Streams /\ IsJoin(h)
  BY <1>1 DEF HandlersOK, IsJoin, JoinSteps
<1>3. \A d : d \in prior <=> d \in members[s] /\ UserOf[d] = UserOf[c]
  BY <1>1 DEF ClientsForUser
<1>4. \A d \in Sockets :
        /\ room'[d] = IF d = c THEN s ELSE IF d \in prior THEN None ELSE room[d]
        /\ words'[d] = IF d = c \/ d \in prior THEN None ELSE words[d]
        /\ socket'[d] = "closed" => socket[d] = "closed"
  BY <1>1 DEF Forgotten, Closing
<1>5. \A t \in Streams : members'[t] = IF t = s THEN (members[s] \ prior) \cup {c} ELSE members[t]
  BY <1>1, <1>2 DEF RoomsOK
<1>6. \A g \in Requests : req'[g] = IF g = h THEN Unused ELSE req[g]
  BY <1>1 DEF HandlersOK
<1>7. \A g \in Requests : /\ IsJoin(g)' => g # h /\ IsJoin(g) /\ req'[g] = req[g]
                          /\ IsPost(g)' => IsPost(g) /\ req'[g] = req[g]
  BY <1>6, StepFacts DEF IsJoin, IsPost
<1>8. TypesOK'
  <2>1. SocketsOK'
    BY <1>1, <1>2 DEF SocketsOK, Forgotten, Closing
  <2>2. RoomsOK'
    BY <1>1, <1>2 DEF RoomsOK
  <2>3. HandlersOK'
    BY <1>1, <1>6, StepFacts DEF HandlersOK
  <2>4. RowsOK'
    BY <1>1, <1>6, StepFacts DEF RowsOK, counts
  <2> QED
    BY <2>1, <2>2, <2>3, <2>4
<1>9. MembersOK'
  <2>1. OneSocketPerUser'
    BY <1>3, <1>5 DEF OneSocketPerUser
  <2>2. RoomIsMember'
    <3> SUFFICES ASSUME NEW d \in Sockets, room'[d] # None PROVE d \in members'[room'[d]]
      BY DEF RoomIsMember
    <3> QED
      BY <1>2, <1>4, <1>5 DEF RoomIsMember, SocketsOK
  <2>3. MemberIsInRoom'
    <3> SUFFICES ASSUME NEW t \in Streams, NEW d \in Sockets \ overlapped, d \in members'[t]
                 PROVE  room'[d] = t
      BY <1>1 DEF MemberIsInRoom
    <3>1. CASE d = c
      <4>1. room[c] = None
        BY <1>1, <1>2, <3>1 DEF JoinsOK
      <4>2. c \notin members[t]
        BY <3>1, <4>1, ChatAssumption DEF MemberIsInRoom
      <4> QED
        BY <1>4, <1>5, <3>1, <4>2
    <3>2. CASE d # c
      <4>1. d \in members[t] /\ room[d] = t
        BY <1>5, <3>2 DEF MemberIsInRoom
      <4>2. d \notin prior
        BY <1>2, <1>3, <1>5, <3>2, <4>1 DEF MemberIsInRoom
      <4> QED
        BY <1>4, <3>2, <4>1, <4>2
    <3> QED
      BY <3>1, <3>2
  <2>4. RoomsInUse'
    BY <1>1, <1>2, <1>5 DEF RoomsInUse
  <2>5. ClosedAreOut'
    <3> SUFFICES ASSUME NEW t \in Streams, NEW d \in members'[t] \ (late \cup overlapped)
                 PROVE  socket'[d] # "closed"
      BY <1>1 DEF ClosedAreOut
    <3>1. d = c \/ (d \in members[t] /\ d \in Sockets)
      BY <1>5 DEF RoomsOK
    <3> QED
      BY <1>1, <1>2, <1>4, <3>1 DEF ClosedAreOut, ClosedOK
  <2> QED
    BY <2>1, <2>2, <2>3, <2>4, <2>5
<1>10. JoinsOK'
  <2> SUFFICES ASSUME NEW g \in Requests, IsJoin(g)', req'[g].socket \notin overlapped
               PROVE  /\ room'[req'[g].socket] = None
                      /\ \A i \in Requests : IsJoin(i)' /\ req'[i].socket = req'[g].socket => i = g
    BY <1>1 DEF JoinsOK
  <2>1. g # h /\ IsJoin(g) /\ req'[g] = req[g] /\ req[g].socket \in Sockets
    BY <1>7, StepFacts DEF HandlersOK, IsJoin
  <2>2. req[g].socket # c /\ room[req[g].socket] = None
    BY <1>1, <1>2, <2>1 DEF JoinsOK
  <2> QED
    BY <1>4, <1>7, <2>1, <2>2 DEF JoinsOK
<1>11. ClosedOK'
  <2> SUFFICES ASSUME NEW g \in Requests, IsJoin(g)', socket'[req'[g].socket] = "closed"
               PROVE  req'[g].socket \in late
    BY <1>1 DEF ClosedOK
  <2>1. IsJoin(g) /\ req'[g] = req[g] /\ req[g].socket \in Sockets
    BY <1>7, StepFacts DEF HandlersOK, IsJoin
  <2> QED
    BY <1>4, <2>1 DEF ClosedOK
<1>12. WordsOK'
  <2> SUFFICES ASSUME NEW d \in Sockets \ moved'
               PROVE  /\ room'[d] # None /\ words'[d] # None => room'[d] = words'[d]
                      /\ \A g \in Requests : IsPost(g)' /\ req'[g].socket = d =>
                           /\ room'[d] \in {None, req'[g].stream} /\ words'[d] \in {None, req'[g].stream}
                           /\ \A i \in Requests : IsPost(i)' /\ req'[i].socket = d
                                                    => req'[i].stream = req'[g].stream
    BY DEF WordsOK
  <2>1. CASE d = c
    <3>1. Posting(c) \subseteq {g \in Requests : req[g].stream = s}
      BY <1>1, <2>1
    <3>2. \A g \in Requests : IsPost(g) /\ req[g].socket = c => req[g].stream = s
      BY <3>1 DEF Posting, IsPost
    <3> QED
      BY <1>4, <1>7, <2>1, <3>2
  <2>2. CASE d # c
    <3>1. d \in Sockets \ moved
      BY <1>1, <2>2
    <3> QED
      BY <1>4, <1>7, <2>2, <3>1 DEF WordsOK
  <2> QED
    BY <2>1, <2>2
<1>13. SentencesOK'
  <2> SUFFICES ASSUME NEW t \in Streams, NEW u \in Users, <<t, u>> \in sentenced \ lifted
               PROVE  SentenceOK(t, u)'
    BY <1>1 DEF SentencesOK
  <2>1. SentenceOK(t, u)
    BY DEF SentencesOK
  <2>2. \A g \in Requests : Admitted(g, t, u)' => Admitted(g, t, u) /\ req'[g] = req[g]
    BY <1>6, StepFacts DEF Admitted
  <2>3. t = s /\ u = UserOf[c] => Admitted(h, t, u)
    BY <1>1 DEF Admitted
  <2>4. \A d \in members'[t] : d \in members[t] \/ (t = s /\ d = c)
    BY <1>5
  <2> QED
    BY <1>1, <2>1, <2>2, <2>3, <2>4 DEF SentenceOK
<1> QED
  BY <1>8, <1>9, <1>10, <1>11, <1>12, <1>13

----------------------------------------------------------------------------
(* Moderation.                                                             *)

\* The ban request takes the user's sockets out of the room.
LEMMA DisconnectUserInv ==
  ASSUME ChatInv, DisconnectUser
  PROVE  ChatInv'
<1> USE DEF ChatInv
<1>1. PICK s \in Streams, u \in Users : banning = <<s, u>>
  BY DEF DisconnectUser, RowsOK, Pairs
<1>2. PICK out : /\ out = ClientsForUser(s, u)
                 /\ members' = [members EXCEPT ![s] = members[s] \ out]
                 /\ rooms' = Pruned(s, members[s] \ out)
                 /\ Left(out)
                 /\ socket' = Closing(out)
                 /\ overtaken' = overtaken \cup {req[h].socket : h \in {g \in Requests : Admitted(g, s, u)}}
                 /\ banning' = None
                 /\ UNCHANGED <<log, req, bans, counts, sentenced, overlapped, late, lifted, moved>>
  BY <1>1 DEF DisconnectUser, Admitted
<1>3. \A d : d \in out <=> d \in members[s] /\ UserOf[d] = u
  BY <1>2 DEF ClientsForUser
<1>4. \A d \in Sockets :
        /\ room'[d] = IF d \in out THEN None ELSE room[d]
        /\ words'[d] = IF d \in out THEN None ELSE words[d]
        /\ socket'[d] = "closed" => socket[d] = "closed"
  BY <1>2 DEF Left, Forgotten, Closing
<1>5. \A t \in Streams : members'[t] = IF t = s THEN members[s] \ out ELSE members[t]
  BY <1>2 DEF RoomsOK
<1>6. TypesOK'
  <2>1. SocketsOK'
    BY <1>2 DEF SocketsOK, Left, Forgotten, Closing
  <2>2. RoomsOK'
    BY <1>2 DEF RoomsOK, Pruned
  <2>3. HandlersOK' /\ RowsOK'
    BY <1>2 DEF HandlersOK, RowsOK, counts
  <2> QED
    BY <2>1, <2>2, <2>3
<1>7. MembersOK'
  <2>1. OneSocketPerUser'
    BY <1>5 DEF OneSocketPerUser
  <2>2. RoomIsMember'
    BY <1>4, <1>5 DEF RoomIsMember, SocketsOK
  <2>3. MemberIsInRoom'
    <3> SUFFICES ASSUME NEW t \in Streams, NEW d \in Sockets \ overlapped, d \in members'[t]
                 PROVE  room'[d] = t
      BY <1>2 DEF MemberIsInRoom
    <3>1. d \in members[t] /\ room[d] = t
      BY <1>5 DEF MemberIsInRoom
    <3>2. d \notin out
      BY <1>3, <1>5, <3>1 DEF MemberIsInRoom
    <3> QED
      BY <1>4, <3>1, <3>2
  <2>4. RoomsInUse'
    <3>1. \A t \in Streams : t # s => (t \in rooms' <=> t \in rooms)
      BY <1>2 DEF Pruned
    <3>2. s \in rooms' <=> members'[s] # {} \/ log[s] > 0
      BY <1>2, <1>5 DEF Pruned, RoomsInUse, RoomsOK
    <3> QED
      BY <1>2, <1>5, <3>1, <3>2 DEF RoomsInUse
  <2>5. ClosedAreOut'
    BY <1>2, <1>4, <1>5 DEF ClosedAreOut, RoomsOK
  <2> QED
    BY <2>1, <2>2, <2>3, <2>4, <2>5
<1>8. JoinsOK'
  BY <1>2, <1>4, StepFacts DEF JoinsOK, IsJoin, HandlersOK
<1>9. ClosedOK'
  BY <1>2, <1>4, StepFacts DEF ClosedOK, IsJoin, HandlersOK
<1>10. WordsOK'
  BY <1>2, <1>4 DEF WordsOK, IsPost
<1>11. SentencesOK'
  <2> SUFFICES ASSUME NEW t \in Streams, NEW v \in Users, <<t, v>> \in sentenced \ lifted
               PROVE  SentenceOK(t, v)'
    BY <1>2 DEF SentencesOK
  <2>1. SentenceOK(t, v) /\ overtaken \subseteq overtaken'
    BY <1>2 DEF SentencesOK
  <2>2. \A h \in Requests : Admitted(h, t, v)' <=> Admitted(h, t, v)
    BY <1>2 DEF Admitted
  <2>3. CASE <<t, v>> = <<s, u>>
    <3>1. t = s /\ v = u
      BY <2>3
    <3>2. \A h \in Requests : Admitted(h, t, v) => req[h].socket \in overtaken'
      BY <1>2, <3>1
    <3>3. \A c \in members'[t] : UserOf[c] # v
      BY <1>3, <1>5, <3>1
    <3> QED
      BY <1>2, <2>1, <2>2, <3>2, <3>3 DEF SentenceOK
  <2>4. CASE <<t, v>> # <<s, u>>
    <3>1. members'[t] \subseteq members[t]
      BY <1>5
    <3> QED
      BY <1>1, <1>2, <2>1, <2>2, <2>4, <3>1 DEF SentenceOK
  <2> QED
    BY <2>3, <2>4
<1> QED
  BY <1>6, <1>7, <1>8, <1>9, <1>10, <1>11

\* What changes rows only.
LEMMA RowStep ==
  ASSUME ChatInv, UNCHANGED <<clientVars, roomVars, req, overlapped, late, moved>>, RowsOK', SentencesOK'
  PROVE  ChatInv'
<1> USE DEF ChatInv, clientVars, roomVars
<1>1. TypesOK'
  BY DEF SocketsOK, RoomsOK, HandlersOK
<1>2. MembersOK'
  BY DEF OneSocketPerUser, RoomIsMember, MemberIsInRoom, RoomsInUse, ClosedAreOut
<1>3. JoinsOK' /\ ClosedOK' /\ WordsOK'
  BY DEF JoinsOK, ClosedOK, WordsOK, IsJoin, IsPost
<1> QED
  BY <1>1, <1>2, <1>3

\* The row of one user changes.
LEMMA RowFacts ==
  ASSUME RowsOK, NEW s \in Streams, NEW u \in Users, NEW row \in Row, bans' = [bans EXCEPT ![s][u] = row]
  PROVE  /\ bans' \in [Streams -> [Users -> Row]]
         /\ \A t \in Streams, v \in Users : bans'[t][v] = IF t = s /\ v = u THEN row ELSE bans[t][v]
BY DEF RowsOK

LEMMA BanInv ==
  ASSUME ChatInv, NEW s \in Streams, NEW u \in Users, Ban(s, u)
  PROVE  ChatInv'
<1> USE DEF ChatInv
<1>1. /\ UNCHANGED <<clientVars, roomVars, req, overlapped, late, overtaken, moved>>
      /\ banning = None /\ banning' = <<s, u>> /\ u # Owner[s] /\ banRows' = banRows + 1
      /\ sentenced' = sentenced \cup {<<s, u>>}
      /\ lifted \ {<<s, u>>} \subseteq lifted'
  BY DEF Ban
<1>2. PICK row : row = [id |-> IF bans[s][u].id = 0 THEN banRows + 1 ELSE bans[s][u].id, state |-> "active"]
  OBVIOUS
<1>3. bans[s][u].id \in Nat /\ banRows \in Nat
  BY DEF RowsOK, Row
<1>4. /\ row \in Row /\ row.state = "active" /\ row.id <= banRows + 1
      /\ row.id = (IF bans[s][u].id = 0 THEN banRows + 1 ELSE bans[s][u].id)
  BY <1>2, <1>3 DEF RowsOK, Row
<1>5. bans' = [bans EXCEPT ![s][u] = row]
  BY <1>2 DEF Ban
<1>6. /\ bans' \in [Streams -> [Users -> Row]]
      /\ \A t \in Streams, v \in Users : bans'[t][v] = IF t = s /\ v = u THEN row ELSE bans[t][v]
  BY <1>4, <1>5, RowFacts
<1>7. RowsOK'
  <2>1. banning' \in Pairs /\ sentenced' \subseteq Pairs
    BY <1>1 DEF RowsOK, Pairs
  <2>2. \A h \in Requests : req'[h].id <= banRows'
    BY <1>1, <1>3 DEF RowsOK, HandlersOK, Handler
  <2>3. \A t \in Streams, v \in Users : bans'[t][v].id <= banRows'
    <3> SUFFICES ASSUME NEW t \in Streams, NEW v \in Users PROVE bans'[t][v].id <= banRows + 1
      BY <1>1
    <3>1. bans[t][v].id \in Nat /\ bans[t][v].id <= banRows
      BY DEF RowsOK, Row
    <3>2. bans'[t][v] = row \/ bans'[t][v] = bans[t][v]
      BY <1>6
    <3>3. CASE bans'[t][v] = row
      BY <1>4, <3>3
    <3>4. CASE bans'[t][v] = bans[t][v]
      BY <1>3, <3>1, <3>4
    <3> QED
      BY <3>2, <3>3, <3>4
  <2> QED
    BY <1>1, <1>3, <1>6, <2>1, <2>2, <2>3 DEF RowsOK
<1>8. SentencesOK'
  <2> SUFFICES ASSUME NEW t \in Streams, NEW v \in Users, <<t, v>> \in sentenced' \ lifted'
               PROVE  SentenceOK(t, v)'
    BY DEF SentencesOK
  <2>1. \A h \in Requests : Admitted(h, t, v)' <=> Admitted(h, t, v)
    BY <1>1 DEF Admitted
  <2>2. CASE t = s /\ v = u
    <3>1. ASSUME NEW h \in Requests, Admitted(h, s, u), req[h].pc = "sweep" PROVE req[h].id # row.id
      <4>1. req[h].stream = s /\ req[h].id <= banRows /\ req[h].id \in Nat
        BY <3>1 DEF Admitted, RowsOK, HandlersOK, Handler
      <4>2. <<s, u>> \notin lifted'
        BY <2>2
      <4>3. req[h].id # bans[s][u].id
        BY <3>1, <4>1, <4>2 DEF Ban
      <4> QED
        BY <1>3, <1>4, <4>1, <4>3
    <3> QED
      BY <1>1, <1>4, <1>6, <2>1, <2>2, <3>1 DEF SentenceOK
  <2>3. CASE ~(t = s /\ v = u)
    <3>1. <<t, v>> \in sentenced \ lifted /\ banning # <<t, v>>
      BY <1>1, <2>3, ChatAssumption
    <3>2. SentenceOK(t, v) /\ bans'[t][v] = bans[t][v]
      BY <1>6, <2>3, <3>1 DEF SentencesOK
    <3> QED
      BY <1>1, <2>1, <3>1, <3>2 DEF SentenceOK, roomVars
  <2> QED
    BY <2>2, <2>3
<1> QED
  BY <1>1, <1>7, <1>8, RowStep

\* A ban is taken back, or is over.
LEMMA UnbanInv ==
  ASSUME ChatInv, NEW s \in Streams, NEW u \in Users, Unban(s, u) \/ BanExpires(s, u)
  PROVE  ChatInv'
<1> USE DEF ChatInv
<1>1. /\ UNCHANGED <<clientVars, roomVars, req, counts, banning, overlapped, late, overtaken, lifted, moved>>
      /\ sentenced' = sentenced \ {<<s, u>>}
  BY DEF Unban, BanExpires
<1>2. PICK row : row = IF Unban(s, u) THEN NoBan ELSE [bans[s][u] EXCEPT !.state = "expired"]
  OBVIOUS
<1>3. bans[s][u] \in Row
  BY DEF RowsOK
<1>4. row \in Row /\ row.id <= banRows
  <2>1. NoBan \in Row /\ NoBan.id = 0
    BY DEF NoBan, Row
  <2>2. CASE Unban(s, u)
    BY <1>2, <2>1, <2>2 DEF RowsOK
  <2>3. CASE ~Unban(s, u)
    <3>1. row = [bans[s][u] EXCEPT !.state = "expired"]
      BY <1>2, <2>3
    <3> QED
      BY <1>3, <3>1 DEF RowsOK, Row
  <2> QED
    BY <2>2, <2>3
<1>5. bans' = [bans EXCEPT ![s][u] = row]
  <2>1. CASE Unban(s, u)
    BY <1>2, <2>1 DEF Unban
  <2>2. CASE ~Unban(s, u)
    <3>1. row = [bans[s][u] EXCEPT !.state = "expired"]
      BY <1>2, <2>2
    <3> QED
      BY <2>2, <3>1 DEF BanExpires, RowsOK
  <2> QED
    BY <2>1, <2>2
<1>6. /\ bans' \in [Streams -> [Users -> Row]]
      /\ \A t \in Streams, v \in Users : bans'[t][v] = IF t = s /\ v = u THEN row ELSE bans[t][v]
  BY <1>4, <1>5, RowFacts
<1>7. RowsOK'
  BY <1>1, <1>4, <1>6 DEF RowsOK, counts
<1>8. SentencesOK'
  <2> SUFFICES ASSUME NEW t \in Streams, NEW v \in Users, <<t, v>> \in sentenced' \ lifted
               PROVE  SentenceOK(t, v)'
    BY <1>1 DEF SentencesOK
  <2>1. SentenceOK(t, v) /\ bans'[t][v] = bans[t][v]
    BY <1>1, <1>6 DEF SentencesOK
  <2> QED
    BY <1>1, <2>1 DEF SentenceOK, Admitted, roomVars
<1> QED
  BY <1>1, <1>7, <1>8, RowStep

----------------------------------------------------------------------------
LEMMA ChatInvStep == ChatInv /\ [Next]_vars => ChatInv'
<1> SUFFICES ASSUME ChatInv, [Next]_vars PROVE ChatInv'
  OBVIOUS
<1>1. CASE \E c \in Sockets : Connect(c) \/ Disconnect(c) \/ WordsExpire(c)
  BY <1>1, ConnectInv, DisconnectInv, WordsExpireInv
<1>2. CASE \E h \in Requests, c \in Sockets : ReceiveMessage(h, c)
  BY <1>2, ReceiveMessageInv
<1>3. CASE \E h \in Requests, c \in Sockets, s \in Streams : ReceiveJoin(h, c, s)
  BY <1>3, ReceiveJoinInv
<1>4. CASE \E h \in Requests : JoinStep(h)
  BY <1>4, ReadAccessInv, ReadBanInv, SweepBanInv, EnterRoomInv DEF JoinStep
<1>5. CASE \E h \in Requests : PostStep(h) \/ RequestFails(h)
  BY <1>5, PostInv
<1>6. CASE DisconnectUser
  BY <1>6, DisconnectUserInv
<1>7. CASE \E s \in Streams, u \in Users : Ban(s, u) \/ Unban(s, u) \/ BanExpires(s, u)
  BY <1>7, BanInv, UnbanInv
<1>8. CASE UNCHANGED vars
  <2>1. RowsOK'
    BY <1>8 DEF vars, counts, history, ChatInv, RowsOK
  <2>2. SentencesOK'
    BY <1>8, SentencesKept DEF vars, roomVars, history, Admitted
  <2> QED
    BY <1>8, <2>1, <2>2, RowStep DEF vars, history
<1> QED
  BY <1>1, <1>2, <1>3, <1>4, <1>5, <1>6, <1>7, <1>8 DEF Next

LEMMA ChatInvInit == Init => ChatInv
<1> SUFFICES ASSUME Init PROVE ChatInv
  OBVIOUS
<1>1. NoBan \in Row /\ NoBan.id = 0
  BY DEF NoBan, Row
<1>2. \A h \in Requests : req[h] = Unused
  BY DEF Init
<1>3. SocketsOK /\ RoomsOK /\ HandlersOK
  BY <1>2, StepFacts DEF Init, SocketsOK, RoomsOK, HandlersOK
<1>4. RowsOK
  BY <1>1, <1>2, StepFacts DEF Init, RowsOK, Pairs
<1>5. MembersOK
  BY DEF Init, OneSocketPerUser, RoomIsMember, MemberIsInRoom, RoomsInUse, ClosedAreOut
<1>6. JoinsOK /\ ClosedOK /\ WordsOK
  BY <1>2, StepFacts DEF Init, JoinsOK, ClosedOK, WordsOK, IsJoin, IsPost
<1>7. SentencesOK
  BY DEF Init, SentencesOK
<1> QED
  BY <1>3, <1>4, <1>5, <1>6, <1>7 DEF ChatInv

\* However the joins of a user's tabs interleave, a room has one socket of each user.
THEOREM OneSocketPerUserHolds == Spec => []OneSocketPerUser
<1>1. ChatInv => OneSocketPerUser
  BY DEF ChatInv
<1> QED
  BY <1>1, ChatInvInit, ChatInvStep, PTL DEF Spec

\* What a socket says of its room, what the room says of its members and what the manager keeps
\* agree, but for sockets with two joins under way and sockets that closed during one.
THEOREM RoomsAgreeHolds == Spec => []RoomsAgree
<1>1. ChatInv => RoomsAgree
  <2> SUFFICES ASSUME ChatInv PROVE RoomsAgree
    OBVIOUS
  <2>1. ASSUME NEW s \in Streams
        PROVE  IF s \in rooms THEN members[s] # {} \/ log[s] > 0 ELSE members[s] = {} /\ log[s] = 0
    <3>1. log[s] \in Nat /\ (s \in rooms <=> members[s] # {} \/ log[s] > 0)
      BY DEF ChatInv, RoomsInUse, RoomsOK
    <3> QED
      BY <3>1
  <2> QED
    BY <2>1 DEF ChatInv, RoomIsMember, MemberIsInRoom, ClosedAreOut, RoomsAgree
<1> QED
  BY <1>1, ChatInvInit, ChatInvStep, PTL DEF Spec

\* Who is banned is in no room of the stream once the ban request has returned, whatever joins
\* were at which of their queries: but for those that had their answer before the ban.
THEOREM BannedStayOutHolds == Spec => []BannedStayOut
<1>1. ChatInv => BannedStayOut
  <2> SUFFICES ASSUME ChatInv, NEW p \in sentenced \ lifted, banning # p,
                      NEW c \in members[p[1]], UserOf[c] = p[2]
               PROVE  c \in overtaken
    BY DEF BannedStayOut
  <2>1. PICK s \in Streams, u \in Users : p = <<s, u>>
    BY DEF ChatInv, RowsOK, Pairs
  <2> QED
    BY <2>1 DEF ChatInv, SentencesOK, SentenceOK
<1> QED
  BY <1>1, ChatInvInit, ChatInvStep, PTL DEF Spec

\* A message is checked against the words of the stream it is for, however its socket has
\* changed rooms: unless it went to another room with the message under way.
THEOREM FilteredByOwnWordsHolds == Spec => []FilteredByOwnWords
<1>1. ChatInv => FilteredByOwnWords
  BY DEF ChatInv, HandlersOK, WordsOK, IsPost, PostSteps, FilteredByOwnWords
<1> QED
  BY <1>1, ChatInvInit, ChatInvStep, PTL DEF Spec

----------------------------------------------------------------------------
(* The types.                                                              *)

LogsOK == \A s \in Streams : log[s] <= HistoryLength
CountsOK ==
  /\ banRows \in 0 .. MaxBans /\ joins \in 0 .. MaxJoins /\ messages \in 0 .. MaxMessages
HistoryOK == overlapped \cup late \cup overtaken \cup moved \subseteq Sockets /\ lifted \subseteq Pairs
BoundsInv == LogsOK /\ CountsOK /\ HistoryOK

LEMMA BoundsInit == Init => BoundsInv
<1> SUFFICES ASSUME Init PROVE BoundsInv
  OBVIOUS
<1>1. LogsOK
  <2>1. HistoryLength \in Nat
    BY ChatAssumption
  <2>2. \A s \in Streams : log[s] = 0
    BY DEF Init
  <2>3. 0 <= HistoryLength
    BY <2>1
  <2> QED
    BY <2>2, <2>3, Zenon DEF LogsOK
<1>2. \A n \in Nat : 0 \in 0 .. n
  OBVIOUS
<1>3. MaxBans \in Nat /\ MaxJoins \in Nat /\ MaxMessages \in Nat
  BY ChatAssumption
<1>4. CountsOK /\ HistoryOK
  BY <1>2, <1>3 DEF Init, CountsOK, HistoryOK
<1> QED
  BY <1>1, <1>4 DEF BoundsInv

\* appendMessage is the only one to write the log, and it trims it.
LEMMA LogsStep == ChatInv /\ LogsOK /\ [Next]_vars => LogsOK'
<1> SUFFICES ASSUME ChatInv, LogsOK, [Next]_vars PROVE LogsOK'
  OBVIOUS
<1>1. CASE log' = log
  BY <1>1 DEF LogsOK
<1>2. ASSUME NEW h \in Requests, Deliver(h) PROVE LogsOK'
  <2>1. PICK s : s = req[h].stream
    OBVIOUS
  <2>2. \/ log' = [log EXCEPT ![s] = Trimmed(log[s] + 1)]
        \/ log' = log
    BY <1>2, <2>1 DEF Deliver
  <2>3. log \in [Streams -> Nat] /\ HistoryLength \in Nat
    BY ChatAssumption DEF ChatInv, RoomsOK
  <2>4. ASSUME NEW n \in Nat PROVE Trimmed(n) <= HistoryLength
    BY <2>3 DEF Trimmed
  <2>5. \A t \in Streams : log'[t] = log[t] \/ log'[t] = Trimmed(log[t] + 1)
    BY <2>2, <2>3
  <2> QED
    BY <2>3, <2>4, <2>5 DEF LogsOK
<1>3. ASSUME NEW h \in Requests, PostStep(h) \/ RequestFails(h) PROVE LogsOK'
  BY <1>1, <1>2, <1>3 DEF PostStep, TimedOut, FetchWords, PostCached, PostFetched, RequestFails, roomVars
<1>4. ASSUME NEW h \in Requests, JoinStep(h) PROVE LogsOK'
  BY <1>1, <1>4 DEF JoinStep, ReadAccess, ReadBan, SweepBan, EnterRoom, roomVars
<1>5. ASSUME NEW h \in Requests, NEW c \in Sockets, NEW s \in Streams, ReceiveJoin(h, c, s)
      PROVE  LogsOK'
  BY <1>1, <1>5 DEF ReceiveJoin
<1>6. ASSUME NEW c \in Sockets, Connect(c) \/ Disconnect(c) \/ WordsExpire(c) PROVE LogsOK'
  BY <1>1, <1>6 DEF Connect, Disconnect, WordsExpire, roomVars
<1>7. ASSUME NEW h \in Requests, NEW c \in Sockets, ReceiveMessage(h, c) PROVE LogsOK'
  BY <1>1, <1>7 DEF ReceiveMessage, roomVars
<1>8. CASE DisconnectUser \/ \E s \in Streams, u \in Users : Ban(s, u) \/ Unban(s, u) \/ BanExpires(s, u)
  BY <1>1, <1>8 DEF DisconnectUser, Ban, Unban, BanExpires, roomVars
<1>9. CASE UNCHANGED vars
  BY <1>1, <1>9 DEF vars, roomVars
<1> QED
  BY <1>3, <1>4, <1>5, <1>6, <1>7, <1>8, <1>9 DEF Next

LEMMA CountsStep == CountsOK /\ [Next]_vars => CountsOK'
<1> SUFFICES ASSUME CountsOK, [Next]_vars PROVE CountsOK'
  OBVIOUS
<1>1. \A n \in Nat : \A k \in 0 .. n : k < n => k + 1 \in 0 .. n
  OBVIOUS
<1>2. MaxBans \in Nat /\ MaxJoins \in Nat /\ MaxMessages \in Nat
  BY ChatAssumption
<1>3. CASE UNCHANGED counts
  BY <1>3 DEF counts, CountsOK
<1>4. ASSUME NEW h \in Requests, NEW c \in Sockets, ReceiveMessage(h, c) PROVE CountsOK'
  BY <1>1, <1>2, <1>4 DEF ReceiveMessage, CountsOK
<1>5. ASSUME NEW h \in Requests, NEW c \in Sockets, NEW s \in Streams, ReceiveJoin(h, c, s)
      PROVE  CountsOK'
  BY <1>1, <1>2, <1>5 DEF ReceiveJoin, CountsOK
<1>6. ASSUME NEW s \in Streams, NEW u \in Users, Ban(s, u) PROVE CountsOK'
  BY <1>1, <1>2, <1>6 DEF Ban, CountsOK
<1>7. ASSUME NEW h \in Requests, JoinStep(h) \/ PostStep(h) \/ RequestFails(h) PROVE UNCHANGED counts
  BY <1>7 DEF JoinStep, ReadAccess, ReadBan, SweepBan, EnterRoom,
              PostStep, TimedOut, FetchWords, PostCached, PostFetched, Deliver, RequestFails
<1>8. ASSUME NEW c \in Sockets, Connect(c) \/ Disconnect(c) \/ WordsExpire(c) PROVE UNCHANGED counts
  BY <1>8 DEF Connect, Disconnect, WordsExpire
<1>9. CASE DisconnectUser \/ \E s \in Streams, u \in Users : Unban(s, u) \/ BanExpires(s, u)
  BY <1>3, <1>9 DEF DisconnectUser, Unban, BanExpires
<1>10. CASE UNCHANGED vars
  BY <1>3, <1>10 DEF vars
<1> QED
  BY <1>3, <1>4, <1>5, <1>6, <1>7, <1>8, <1>9, <1>10 DEF Next

LEMMA HistoryStep == ChatInv /\ HistoryOK /\ [Next]_vars => HistoryOK'
<1> SUFFICES ASSUME ChatInv, HistoryOK, [Next]_vars PROVE HistoryOK'
  OBVIOUS
<1>1. CASE UNCHANGED history
  BY <1>1 DEF history, HistoryOK
<1>2. ASSUME NEW c \in Sockets, Connect(c) \/ Disconnect(c) \/ WordsExpire(c) PROVE HistoryOK'
  BY <1>1, <1>2 DEF Connect, Disconnect, WordsExpire, HistoryOK
<1>3. ASSUME NEW h \in Requests, NEW c \in Sockets, NEW s \in Streams, ReceiveJoin(h, c, s)
      PROVE  HistoryOK'
  BY <1>3 DEF ReceiveJoin, HistoryOK
<1>4. ASSUME NEW h \in Requests, EnterRoom(h) PROVE HistoryOK'
  <2>1. req[h].socket \in Sockets
    BY <1>4, StepFacts DEF EnterRoom, ChatInv, HandlersOK
  <2> QED
    BY <1>4, <2>1 DEF EnterRoom, HistoryOK
<1>5. ASSUME NEW h \in Requests, ReadAccess(h) \/ ReadBan(h) \/ SweepBan(h) \/ PostStep(h) \/ RequestFails(h)
      PROVE  UNCHANGED history
  BY <1>5 DEF ReadAccess, ReadBan, SweepBan, PostStep, TimedOut, FetchWords, PostCached, PostFetched,
              Deliver, RequestFails
<1>6. ASSUME NEW h \in Requests, NEW c \in Sockets, ReceiveMessage(h, c) PROVE UNCHANGED history
  BY <1>6 DEF ReceiveMessage
<1>7. CASE DisconnectUser
  <2>1. \A h \in Requests : req[h].pc \in {"sweep", "enter"} => req[h].socket \in Sockets
    BY DEF ChatInv, HandlersOK
  <2> QED
    BY <1>7, <2>1 DEF DisconnectUser, HistoryOK
<1>8. ASSUME NEW s \in Streams, NEW u \in Users, Ban(s, u) \/ Unban(s, u) \/ BanExpires(s, u)
      PROVE  HistoryOK'
  <2>1. <<s, u>> \in Pairs
    BY DEF Pairs
  <2>2. lifted' \subseteq lifted \cup {<<s, u>>} /\ UNCHANGED <<overlapped, late, overtaken, moved>>
    BY <1>8 DEF Ban, Unban, BanExpires
  <2> QED
    BY <2>1, <2>2 DEF HistoryOK
<1>9. CASE UNCHANGED vars
  BY <1>1, <1>9 DEF vars
<1> QED
  BY <1>1, <1>2, <1>3, <1>4, <1>5, <1>6, <1>7, <1>8, <1>9 DEF Next, JoinStep

\* A room keeps at most CHAT_HISTORY_LENGTH messages, and no handler or row has an id that was
\* not given out, for any number of joins, messages and bans.
THEOREM ChatTypeCorrect == Spec => []TypeOK
<1>1. ChatInv /\ BoundsInv => TypeOK
  <2> SUFFICES ASSUME ChatInv, BoundsInv PROVE TypeOK
    OBVIOUS
  <2>1. \A n \in Nat : n <= banRows => n \in 0 .. MaxBans
    BY ChatAssumption DEF BoundsInv, CountsOK
  <2>2. log \in [Streams -> 0 .. HistoryLength]
    <3>1. log = [s \in Streams |-> log[s]] /\ \A s \in Streams : log[s] \in 0 .. HistoryLength
      BY ChatAssumption DEF ChatInv, RoomsOK, BoundsInv, LogsOK
    <3> QED
      BY <3>1
  <2>3. req \in [Requests -> [pc : {"unused"} \cup JoinSteps \cup PostSteps, socket : Sockets \cup {None},
                              stream : Streams \cup {None}, id : 0 .. MaxBans]]
    <3>1. ASSUME NEW h \in Requests
          PROVE  req[h] \in [pc : {"unused"} \cup JoinSteps \cup PostSteps, socket : Sockets \cup {None},
                             stream : Streams \cup {None}, id : 0 .. MaxBans]
      <4>1. req[h] \in Handler /\ req[h].id <= banRows
        BY DEF ChatInv, HandlersOK, RowsOK
      <4> QED
        BY <2>1, <4>1 DEF Handler, Steps
    <3>2. req = [h \in Requests |-> req[h]]
      BY DEF ChatInv, HandlersOK
    <3> QED
      BY <3>1, <3>2
  <2>4. bans \in [Streams -> [Users -> [id : 0 .. MaxBans, state : {"none", "active", "expired"}]]]
    <3> DEFINE R == [id : 0 .. MaxBans, state : {"none", "active", "expired"}]
    <3>1. ASSUME NEW s \in Streams, NEW u \in Users PROVE bans[s][u] \in R
      <4>1. bans[s][u] \in Row /\ bans[s][u].id <= banRows
        BY DEF ChatInv, RowsOK
      <4> QED
        BY <2>1, <4>1 DEF Row
    <3>2. ASSUME NEW s \in Streams PROVE bans[s] = [u \in Users |-> bans[s][u]]
      BY DEF ChatInv, RowsOK
    <3>3. bans = [s \in Streams |-> bans[s]]
      BY DEF ChatInv, RowsOK
    <3> HIDE DEF R
    <3>4. ASSUME NEW s \in Streams PROVE bans[s] \in [Users -> R]
      BY <3>1, <3>2
    <3>5. bans \in [Streams -> [Users -> R]]
      BY <3>3, <3>4
    <3> QED
      BY <3>5 DEF R
  <2> QED
    BY <2>2, <2>3, <2>4 DEF TypeOK, ChatInv, SocketsOK, RoomsOK, RowsOK, BoundsInv, CountsOK, HistoryOK
<1>2. ChatInv /\ BoundsInv /\ [Next]_vars => ChatInv' /\ BoundsInv'
  BY ChatInvStep, LogsStep, CountsStep, HistoryStep DEF BoundsInv
<1> QED
  BY <1>1, <1>2, ChatInvInit, BoundsInit, PTL DEF Spec
=============================================================================

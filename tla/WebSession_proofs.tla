--------------------------- MODULE WebSession_proofs ---------------------------
(***************************************************************************)
(* Two properties of WebSession's chat panel, and that one user is signed  *)
(* in to the tab and everything in it, for any users, any number of calls  *)
(* in flight, any number of attempts and of failing calls.                 *)
(*                                                                         *)
(* connect takes a new session number each time, so at most one call for a *)
(* token has the number of now: a call that is older is of no consequence. *)
(* As long as it is in flight there is neither a socket nor a timer, so    *)
(* the socket it makes is the only one.  A panel without a socket has      *)
(* either such a call, a timer, or an error: after a failed                *)
(* authentication it always has an error.                                  *)
(*                                                                         *)
(* Two histories say when the users may differ.  As long as no user        *)
(* replaced another without a logout, the chat token, the tokens on their  *)
(* way, the socket and the cookie are of the user shown, or of nobody.  As *)
(* long as no calls raced, every call in flight knows the cookie there is, *)
(* and one of them is to tell the tab when it shows somebody else.         *)
(*                                                                         *)
(* Last, the types: a socket is always somebody's, and the sessions are    *)
(* numbers.                                                                *)
(***************************************************************************)
EXTENDS WebSession, FiniteSetTheorems, TLAPS

USE WebSessionAssumption

CallSet == [kind : Kinds, as : Users \cup {None}, arrived : BOOLEAN, for : Nat]

\* As much of the types as the proofs need.
Types ==
  /\ cookie \in Users \cup {None}
  /\ {session, attempts} \subseteq Nat
  /\ call \in [Calls -> CallSet]

\* The panel's connect waits for this call.
Awaited(c) == call[c].kind = "token" /\ call[c].for = session /\ session # 0

SocketOK ==
  /\ \A s \in sockets : s.session = session /\ ws = session
  /\ sockets # {} => ws # 0
  /\ ws # 0 => panel /\ \E s : sockets = {s}
  /\ panel => session # 0
TokenOK ==
  /\ \A c \in Calls : call[c].for <= session
  /\ \A c \in Calls : Awaited(c) => ws = 0 /\ panel /\ ~timer /\ ~failed
  /\ \A c, d \in Calls : Awaited(c) /\ Awaited(d) => c = d
TimerOK == timer => panel /\ ws = 0
FailedOK == failed => ws = 0 /\ ~timer /\ error
WaitingOK == panel /\ ws = 0 => timer \/ error \/ \E c \in Calls : Awaited(c)

\* The inductive invariant.
PanelInv == Types /\ SocketOK /\ TokenOK /\ TimerOK /\ FailedOK /\ WaitingOK

PanelVars == <<panel, session, sockets, ws, timer, attempts, failed, error>>

Reader(r) == r.kind \in {"boot", "refresh", "first"}
Writer(r) == r.kind \in Writers

\* The panel is only there for somebody.
PageOK == panel => shown # None

\* Unless something of another user was kept: what the tab holds is of the user it shows, or
\* of nobody, and so is the cookie once somebody is shown.
OwnerOK ==
  ~kept =>
    /\ \A s \in sockets : s.owner = shown
    /\ cached \in {None, shown}
    /\ shown # None => cookie \in {None, shown}
    /\ \A c \in Calls : call[c].kind = "token" => shown # None /\ call[c].as \in {None, shown}

\* Unless calls raced: what is in flight knows the cookie there is, and when the tab shows
\* somebody else an answer that tells it so is in flight.
WritersOK ==
  /\ \A c \in Calls : call[c].kind = "logout" => call[c].as = None
  /\ \A c \in Calls : call[c].kind \in {"login", "signup"} => call[c].as # None
CookieOK ==
  ~raced =>
    /\ \A c \in Calls : Reader(call[c]) => call[c].as = cookie
    /\ \A c \in Calls : call[c].kind = "first" => call[c].as # None
    /\ \A c, d \in Calls : Writer(call[c]) /\ Writer(call[d]) => c = d
    /\ \A c \in Calls : Writer(call[c]) /\ call[c].arrived => call[c].as = cookie
    /\ \/ shown = cookie
       \/ \E c \in Calls : Reader(call[c]) \/ (Writer(call[c]) /\ call[c].arrived)

\* The inductive invariant of SignedInAgrees, on top of PanelInv.
SignInv == PageOK /\ OwnerOK /\ WritersOK /\ CookieOK

----------------------------------------------------------------------------

LEMMA FreeType == Free \in CallSet
BY DEF Free, CallSet, Kinds, Writers

LEMMA KindsOfCalls == \A k \in {"boot", "refresh", "first", "token", "login", "signup", "logout"} : k \in Kinds
BY DEF Kinds, Writers

LEMMA CallType ==
  ASSUME NEW k \in Kinds, NEW u \in Users \cup {None}, NEW n \in Nat
  PROVE  /\ Call(k, u, n) \in CallSet
         /\ Call(k, u, n).kind = k /\ Call(k, u, n).for = n
BY FreeType DEF Free, Call, CallSet

LEMMA InitInv == Init => PanelInv
<1> SUFFICES ASSUME Init PROVE PanelInv
  OBVIOUS
<1>1. PICK c \in Calls : call = Loaded(c)
  BY DEF Init
<1>2. Call("boot", cookie, 0) \in CallSet /\ Call("boot", cookie, 0).for = 0
  BY CallType, KindsOfCalls DEF Init
<1>3. call \in [Calls -> CallSet] /\ \A d \in Calls : call[d].for = 0
  BY <1>1, <1>2, FreeType DEF Loaded, Free
<1> QED
  BY <1>3 DEF Init, PanelInv, Types, SocketOK, TokenOK, TimerOK, FailedOK, WaitingOK, Awaited

----------------------------------------------------------------------------
(* Calls that come and go.                                                 *)

\* A step that leaves the panel alone, and no call the panel waits for.
LEMMA CallsOnly ==
  ASSUME PanelInv, Types', UNCHANGED PanelVars,
         \A c \in Calls : call'[c].for <= session,
         \A c \in Calls : Awaited(c)' <=> Awaited(c)
  PROVE  PanelInv'
BY DEF PanelInv, SocketOK, TokenOK, TimerOK, FailedOK, WaitingOK, PanelVars

\* A request that is not for the panel.
LEMMA SendInv ==
  ASSUME PanelInv, UNCHANGED <<PanelVars, cookie>>, NEW c \in Calls,
         NEW k \in Kinds, NEW u \in Users \cup {None}, Send(c, k, u)
  PROVE  PanelInv'
<1>1. Call(k, u, 0) \in CallSet /\ Call(k, u, 0).for = 0
  BY CallType
<1>2. call' = [call EXCEPT ![c] = Call(k, u, 0)] /\ call[c].kind = "none"
  BY DEF Send, Free
<1>3. call \in [Calls -> CallSet] /\ session \in Nat
  BY DEF PanelInv, Types
<1>4. Types'
  BY <1>1, <1>2, <1>3 DEF Types, PanelInv, PanelVars
<1>5. \A d \in Calls : call'[d].for <= session
  BY <1>1, <1>2, <1>3 DEF PanelInv, TokenOK
<1>6. \A d \in Calls : Awaited(d)' <=> Awaited(d)
  BY <1>1, <1>2, <1>3 DEF Awaited, PanelVars
<1> QED
  BY <1>4, <1>5, <1>6, CallsOnly DEF PanelVars

\* A call that is not for a token changes, or is over.
LEMMA OtherCallInv ==
  ASSUME PanelInv, UNCHANGED PanelVars, cookie' \in Users \cup {None}, NEW c \in Calls,
         NEW r \in CallSet, call' = [call EXCEPT ![c] = r], call[c].kind # "token",
         r.kind # "token", r.for \in {0, call[c].for}
  PROVE  PanelInv'
<1>1. call \in [Calls -> CallSet] /\ session \in Nat
  BY DEF PanelInv, Types
<1>2. Types'
  BY <1>1 DEF Types, PanelVars, PanelInv
<1>3. \A d \in Calls : call'[d].for <= session
  BY <1>1 DEF PanelInv, TokenOK
<1>4. \A d \in Calls : Awaited(d)' <=> Awaited(d)
  BY <1>1 DEF Awaited, PanelVars
<1> QED
  BY <1>2, <1>3, <1>4, CallsOnly

----------------------------------------------------------------------------
(* The panel.                                                              *)

\* The panel is left: older calls are no longer awaited.
LEMMA DropInv ==
  ASSUME PanelInv, Disconnect, ~panel', UNCHANGED <<failed, error>>, Types',
         \A c \in Calls : call'[c].for <= session
  PROVE  PanelInv'
<1>1. sockets' = {}
  BY DEF Disconnect, Detached, PanelInv, SocketOK
<1>2. session \in Nat /\ call' \in [Calls -> CallSet]
  BY DEF PanelInv, Types
<1>3. \A c \in Calls : ~Awaited(c)' /\ call'[c].for <= session'
  BY <1>2 DEF Awaited, Disconnect, CallSet
<1> QED
  BY <1>1, <1>3 DEF PanelInv, SocketOK, TokenOK, TimerOK, FailedOK, WaitingOK, Disconnect

\* A panel that has just a call, the one it waits for.
LEMMA AskInv ==
  ASSUME PanelInv, NEW c \in Calls, call[c] = Free,
         call' = [call EXCEPT ![c] = Call("token", cookie, session + 1)],
         UNCHANGED cookie, session' = session + 1, panel', ~timer', ~failed',
         sockets' = Detached, ws' = 0, attempts' \in Nat
  PROVE  PanelInv'
<1>1. session \in Nat /\ call \in [Calls -> CallSet]
  BY DEF PanelInv, Types
<1>2. /\ Call("token", cookie, session + 1) \in CallSet
      /\ Call("token", cookie, session + 1).for = session + 1
  BY <1>1, CallType, KindsOfCalls DEF PanelInv, Types
<1>3. Types'
  BY <1>1, <1>2 DEF Types, PanelInv
<1>4. sockets' = {}
  BY DEF Detached, PanelInv, SocketOK
<1>5. \A d \in Calls : call'[d].for <= session' /\ (Awaited(d)' => d = c)
  BY <1>1, <1>2 DEF PanelInv, TokenOK, Awaited, CallSet
<1>6. Awaited(c)'
  <2>1. Call("token", cookie, session + 1).kind = "token"
    BY <1>1, CallType, KindsOfCalls DEF PanelInv, Types
  <2> QED
    BY <1>1, <1>2, <2>1 DEF Awaited
<1>7. SocketOK' /\ TimerOK' /\ FailedOK'
  BY <1>1, <1>4 DEF SocketOK, TimerOK, FailedOK
<1>8. TokenOK' /\ WaitingOK'
  BY <1>5, <1>6 DEF TokenOK, WaitingOK
<1> QED
  BY <1>3, <1>7, <1>8 DEF PanelInv

LEMMA ConnectInv ==
  ASSUME PanelInv, NEW c \in Calls, Connect(c), UNCHANGED cookie, panel', ~failed',
         attempts' \in Nat
  PROVE  PanelInv'
<1>1. session \in Nat /\ call \in [Calls -> CallSet]
  BY DEF PanelInv, Types
<1>2. CASE cached # None
  <2>1. /\ sockets' = {[session |-> session + 1, owner |-> cached]}
        /\ session' = session + 1 /\ ws' = session + 1 /\ ~timer' /\ UNCHANGED call
    BY <1>2 DEF Connect, Detached, PanelInv, SocketOK
  <2>2. \A d \in Calls : ~Awaited(d)' /\ call'[d].for <= session'
    BY <1>1, <2>1 DEF Awaited, PanelInv, TokenOK, CallSet
  <2>3. Types'
    BY <1>1, <2>1 DEF Types, PanelInv
  <2>4. SocketOK'
    <3> DEFINE s == [session |-> session + 1, owner |-> cached]
    <3>1. s.session = session' /\ sockets' = {s}
      BY <2>1
    <3>2. session' # 0 /\ ws' = session'
      BY <1>1, <2>1
    <3> HIDE DEF s
    <3> QED
      BY <3>1, <3>2 DEF SocketOK
  <2>5. TimerOK' /\ FailedOK' /\ WaitingOK'
    BY <1>1, <2>1 DEF TimerOK, FailedOK, WaitingOK
  <2> QED
    BY <2>2, <2>3, <2>4, <2>5 DEF PanelInv, TokenOK
<1>3. CASE cached = None
  BY <1>3, AskInv DEF Connect
<1> QED
  BY <1>2, <1>3

LEMMA PanelStep ==
  ASSUME PanelInv, NEW c \in Calls, Visit(c) \/ Reconnect(c) \/ Retry(c)
  PROVE  PanelInv'
<1>1. CASE Visit(c)
  BY <1>1, ConnectInv DEF Visit, auth
<1>2. CASE Reconnect(c)
  <2>1. panel' /\ ~failed' /\ UNCHANGED cookie /\ attempts' \in Nat
    BY <1>2 DEF Reconnect, PanelInv, TimerOK, FailedOK, auth, Types
  <2> QED
    BY <1>2, <2>1, ConnectInv DEF Reconnect
<1>3. CASE Retry(c)
  BY <1>3, AskInv DEF Retry, OffersRetry, auth
<1> QED
  BY <1>1, <1>2, <1>3

LEMMA LeaveStep ==
  ASSUME PanelInv, Leave
  PROVE  PanelInv'
<1>1. ~panel' /\ Disconnect /\ UNCHANGED <<cookie, call, attempts, failed, error>>
  BY DEF Leave, auth
<1>2. Types' /\ \A c \in Calls : call'[c].for <= session
  BY <1>1 DEF PanelInv, Types, TokenOK, Disconnect
<1> QED
  BY <1>1, <1>2, DropInv

\* What a socket does: it is the only one, and no call is awaited.
LEMMA SocketStep ==
  ASSUME PanelInv, NEW s \in sockets, Opens(s) \/ Refused(s) \/ Warned(s) \/ Closes(s)
  PROVE  PanelInv'
<1>1. /\ s.session = session /\ ws = session /\ ws # 0 /\ panel /\ sockets = {s}
      /\ session \in Nat /\ ~timer /\ ~failed /\ call \in [Calls -> CallSet]
  BY DEF PanelInv, SocketOK, TimerOK, FailedOK, Types
<1>2. \A c \in Calls : ~Awaited(c)
  BY <1>1 DEF PanelInv, TokenOK
<1>3. CASE Opens(s) \/ Warned(s)
  <2>1. UNCHANGED <<cookie, call, panel, session, sockets, ws, timer, failed>> /\ attempts' \in Nat
    BY <1>3 DEF Opens, Warned, auth, PanelInv, Types
  <2> QED
    BY <1>1, <1>2, <2>1 DEF PanelInv, Types, SocketOK, TokenOK, TimerOK, FailedOK, WaitingOK, Awaited
<1>4. CASE Refused(s)
  <2>1. /\ session' = session + 1 /\ sockets' = {} /\ ws' = 0 /\ error'
        /\ UNCHANGED <<cookie, call, panel, timer, attempts>>
    BY <1>1, <1>4 DEF Refused, auth
  <2>2. \A c \in Calls : ~Awaited(c)' /\ call'[c].for <= session'
    BY <1>1, <2>1 DEF Awaited, PanelInv, TokenOK, CallSet
  <2> QED
    BY <1>1, <2>1, <2>2 DEF PanelInv, Types, SocketOK, TokenOK, TimerOK, FailedOK, WaitingOK
<1>5. CASE Closes(s)
  <2>1. /\ sockets' = {} /\ ws' = 0 /\ UNCHANGED <<cookie, call, panel, session, failed>>
        /\ attempts' = attempts + 1 /\ error' = GivenUp(attempts + 1)
        /\ timer' = (attempts < MaxAttempts)
    BY <1>1, <1>5 DEF Closes, auth
  <2>3. attempts' \in Nat /\ (attempts + 1 > MaxAttempts \/ attempts < MaxAttempts)
    BY <2>1 DEF PanelInv, Types
  <2>4. error' \/ timer'
    BY <2>1, <2>3, Zenon DEF GivenUp
  <2>2. \A c \in Calls : ~Awaited(c)'
    BY <1>2, <2>1 DEF Awaited
  <2> QED
    BY <1>1, <2>1, <2>2, <2>3, <2>4 DEF PanelInv, Types, SocketOK, TokenOK, TimerOK, FailedOK,
                                        WaitingOK
<1> QED
  BY <1>3, <1>4, <1>5

----------------------------------------------------------------------------
(* Answers.                                                                *)

\* A call that is not for a token ends, and the page shows somebody or nobody.
LEMMA ShowInv ==
  ASSUME PanelInv, NEW c \in Calls, call[c].kind # "token", Done(c), UNCHANGED cookie,
         NEW u, Show(u)
  PROVE  PanelInv'
<1>1. call' = [call EXCEPT ![c] = Free] /\ Free.for = 0 /\ Free.kind # "token"
  BY DEF Done, Free
<1>2. CASE UNCHANGED hook
  BY <1>1, <1>2, FreeType, OtherCallInv DEF hook, PanelVars, PanelInv, Types
<1>3. CASE ~panel' /\ Disconnect /\ UNCHANGED <<attempts, failed, error>>
  <2>1. call \in [Calls -> CallSet] /\ session \in Nat
    BY DEF PanelInv, Types
  <2>2. Types' /\ \A d \in Calls : call'[d].for <= session
    BY <1>1, <1>3, <2>1, FreeType DEF PanelInv, Types, TokenOK, Disconnect
  <2> QED
    BY <1>3, <2>2, DropInv
<1> QED
  BY <1>2, <1>3 DEF Show

\* A token arrives, or there is none: the socket it makes is the only one.
LEMMA TokenInv ==
  ASSUME PanelInv, NEW c \in Calls, call[c].kind = "token", Done(c), NEW u,
         UNCHANGED <<cookie, panel, session, timer, attempts>>,
         \/ /\ ~Awaited(c) /\ UNCHANGED <<sockets, ws, failed, error>>
         \/ /\ Awaited(c) /\ failed' /\ error' /\ UNCHANGED <<sockets, ws>>
         \/ /\ Awaited(c) /\ UNCHANGED <<failed, error>> /\ ws' = call[c].for
            /\ sockets' = sockets \cup {[session |-> call[c].for, owner |-> u]}
  PROVE  PanelInv'
<1>1. /\ call' = [call EXCEPT ![c] = Free] /\ Free.for = 0 /\ Free.kind # "token"
      /\ call \in [Calls -> CallSet] /\ session \in Nat
  BY DEF Done, Free, PanelInv, Types
<1>2. Types' /\ \A d \in Calls : call'[d].for <= session'
  BY <1>1, FreeType DEF PanelInv, Types, TokenOK
<1>3. \A d \in Calls : Awaited(d)' <=> d # c /\ Awaited(d)
  BY <1>1 DEF Awaited
<1>4. CASE ~Awaited(c) /\ UNCHANGED <<sockets, ws, failed, error>>
  <2>1. \A d \in Calls : Awaited(d)' <=> Awaited(d)
    BY <1>3, <1>4
  <2> QED
    BY <1>2, <1>4, <2>1, CallsOnly DEF PanelVars
<1>5. CASE Awaited(c)
  <2>1. ws = 0 /\ panel /\ ~timer /\ ~failed /\ sockets = {} /\ session # 0
    BY <1>5 DEF PanelInv, TokenOK, SocketOK, Awaited
  <2>2. \A d \in Calls : ~Awaited(d)'
    BY <1>3, <1>5 DEF PanelInv, TokenOK
  <2>3. CASE failed' /\ error' /\ UNCHANGED <<sockets, ws>>
    BY <1>2, <2>1, <2>2, <2>3 DEF PanelInv, SocketOK, TokenOK, TimerOK, FailedOK, WaitingOK
  <2>4. CASE /\ UNCHANGED <<failed, error>> /\ ws' = call[c].for
             /\ sockets' = sockets \cup {[session |-> call[c].for, owner |-> u]}
    <3> DEFINE s == [session |-> call[c].for, owner |-> u]
    <3>1. s.session = session' /\ sockets' = {s} /\ ws' = session'
      BY <1>5, <2>1, <2>4 DEF Awaited
    <3> HIDE DEF s
    <3>2. SocketOK'
      BY <2>1, <3>1 DEF SocketOK
    <3> QED
      BY <1>2, <2>1, <2>2, <2>4, <3>1, <3>2 DEF PanelInv, TokenOK, TimerOK, FailedOK, WaitingOK
  <2> QED
    BY <1>5, <2>3, <2>4
<1> QED
  BY <1>4, <1>5

LEMMA AnswerStep ==
  ASSUME PanelInv, NEW c \in Calls, Answered(c)
  PROVE  PanelInv'
<1> USE DEF InFlight
<1>1. call \in [Calls -> CallSet] /\ session \in Nat /\ cookie \in Users \cup {None}
  BY DEF PanelInv, Types
<1>2. CASE Arrive(c)
  <2>1. [call[c] EXCEPT !.arrived = TRUE] \in CallSet
    BY <1>1 DEF CallSet
  <2>2. call' = [call EXCEPT ![c] = [call[c] EXCEPT !.arrived = TRUE]]
    BY <1>2 DEF Arrive
  <2>3. /\ [call[c] EXCEPT !.arrived = TRUE].kind = call[c].kind
        /\ [call[c] EXCEPT !.arrived = TRUE].for = call[c].for
    BY <1>1 DEF CallSet
  <2>4. cookie' \in Users \cup {None} /\ UNCHANGED PanelVars /\ call[c].kind # "token"
    BY <1>1, <1>2 DEF Arrive, hook, PanelVars, CallSet, Writers
  <2> QED
    BY <2>1, <2>2, <2>3, <2>4, OtherCallInv
<1>3. CASE LoggedIn(c) \/ LoggedOut(c)
  BY <1>3, ShowInv DEF LoggedIn, LoggedOut
<1>4. CASE SignedUp(c)
  <2>1. AfterSignup \in CallSet /\ AfterSignup.kind = "first" /\ AfterSignup.for = 0
    BY <1>1, CallType, KindsOfCalls DEF AfterSignup
  <2> QED
    BY <1>1, <1>4, <2>1, OtherCallInv DEF SignedUp, auth, hook, PanelVars
<1>5. CASE GetMe(c)
  <2>1. call[c].kind # "token" /\ Done(c) /\ UNCHANGED cookie
    BY <1>5 DEF GetMe
  <2>2. CASE UNCHANGED hook
    <3>1. call' = [call EXCEPT ![c] = Free] /\ Free.for = 0 /\ Free.kind # "token"
      BY <2>1 DEF Done, Free
    <3> QED
      BY <1>1, <2>1, <2>2, <3>1, FreeType, OtherCallInv DEF hook, PanelVars
  <2>3. CASE Show(call[c].as)
    BY <2>1, <2>3, ShowInv
  <2> QED
    BY <1>5, <2>2, <2>3 DEF GetMe
<1>6. CASE GetToken(c)
  <2>1. Current(call[c].for) <=> Awaited(c)
    BY <1>6 DEF GetToken, Current, Awaited
  <2> QED
    BY <1>6, <2>1, TokenInv DEF GetToken, auth
<1>7. CASE CallFails(c)
  <2>1. CASE call[c].kind = "token"
    <3>1. Current(call[c].for) <=> Awaited(c)
      BY <2>1 DEF Current, Awaited
    <3> QED
      BY <1>7, <2>1, <3>1, TokenInv DEF CallFails
  <2>2. CASE call[c].kind \in {"boot", "refresh", "logout"}
    BY <1>7, <2>2, ShowInv DEF CallFails
  <2>3. CASE call[c].kind \notin {"boot", "refresh", "logout", "token"}
    <3>1. UNCHANGED <<PanelVars, cookie>> /\ call' = [call EXCEPT ![c] = Free]
      BY <1>7, <2>3 DEF CallFails, PanelVars, Done
    <3> QED
      BY <1>1, <2>3, <3>1, FreeType, OtherCallInv DEF Free
  <2> QED
    BY <2>1, <2>2, <2>3
<1> QED
  BY <1>2, <1>3, <1>4, <1>5, <1>6, <1>7 DEF Answered

----------------------------------------------------------------------------
(* Requests, and page loads.                                               *)

LEMMA RequestStep ==
  ASSUME PanelInv, NEW c \in Calls, NEW u \in Users \cup {None},
         \/ ChatFetch(c) \/ SubmitLogout(c) \/ Refresh(c)
         \/ SubmitLogin(c, u) \/ SubmitSignup(c, u)
  PROVE  PanelInv'
<1>1. cookie \in Users \cup {None}
  BY DEF PanelInv, Types
<1>2. UNCHANGED <<PanelVars, cookie>>
  BY DEF ChatFetch, SubmitLogout, Refresh, SubmitLogin, SubmitSignup, auth, hook, PanelVars
<1>3. \E k \in Kinds, v \in Users \cup {None} : Send(c, k, v)
  BY <1>1, KindsOfCalls DEF ChatFetch, SubmitLogout, Refresh, SubmitLogin, SubmitSignup
<1> QED
  BY <1>2, <1>3, SendInv

LEMMA LoadStep ==
  ASSUME PanelInv, NEW c \in Calls, NEW d \in Calls, NEW u \in Users \cup {None},
         Load(c) \/ OAuthReturn(c, d, u)
  PROVE  PanelInv'
<1>1. cookie' \in Users \cup {None} /\ cookie \in Users \cup {None}
  BY DEF Load, OAuthReturn, PanelInv, Types
<1>2. \A v \in Users \cup {None} :
        /\ Call("boot", v, 0) \in CallSet /\ Call("boot", v, 0).for = 0
        /\ Call("refresh", v, 0) \in CallSet /\ Call("refresh", v, 0).for = 0
  BY CallType, KindsOfCalls
<1>3. call' \in [Calls -> CallSet] /\ \A e \in Calls : call'[e].for = 0
  <2>1. Free \in CallSet /\ Free.for = 0
    BY FreeType DEF Free
  <2>2. CASE Load(c)
    BY <1>1, <1>2, <2>1, <2>2 DEF Load, Loaded
  <2>3. CASE OAuthReturn(c, d, u)
    BY <1>1, <1>2, <2>1, <2>3 DEF OAuthReturn, CallbackPage
  <2> QED
    BY <2>2, <2>3
<1>4. /\ session' = 0 /\ sockets' = {} /\ ws' = 0 /\ attempts' = 0
      /\ ~panel' /\ ~timer' /\ ~failed'
  BY DEF Load, OAuthReturn
<1> QED
  BY <1>1, <1>3, <1>4 DEF PanelInv, Types, SocketOK, TokenOK, TimerOK, FailedOK, WaitingOK, Awaited

LEMMA NextInv == PanelInv /\ [Next]_vars => PanelInv'
<1> SUFFICES ASSUME PanelInv, [Next]_vars PROVE PanelInv'
  OBVIOUS
<1>1. ASSUME NEW c \in Calls, Asked(c) PROVE PanelInv'
  <2>1. CASE Visit(c) \/ Reconnect(c) \/ Retry(c)
    BY <2>1, PanelStep
  <2>2. CASE ChatFetch(c) \/ SubmitLogout(c) \/ Refresh(c) \/ Load(c)
    BY <2>2, RequestStep, LoadStep
  <2>3. ASSUME NEW u \in Users, SubmitLogin(c, u) \/ SubmitSignup(c, u) PROVE PanelInv'
    BY <2>3, RequestStep
  <2>4. ASSUME NEW u \in Users, NEW d \in Calls, OAuthReturn(c, d, u) PROVE PanelInv'
    BY <2>4, LoadStep
  <2> QED
    BY <1>1, <2>1, <2>2, <2>3, <2>4 DEF Asked
<1>2. ASSUME NEW c \in Calls, Answered(c) PROVE PanelInv'
  BY <1>2, AnswerStep
<1>3. CASE \E s \in sockets : Opens(s) \/ Refused(s) \/ Warned(s) \/ Closes(s)
  BY <1>3, SocketStep
<1>4. CASE Leave
  BY <1>4, LeaveStep
<1>5. CASE UNCHANGED vars
  BY <1>5 DEF vars, auth, hook, PanelInv, Types, SocketOK, TokenOK, TimerOK, FailedOK, WaitingOK,
              Awaited
<1> QED
  BY <1>1, <1>2, <1>3, <1>4, <1>5 DEF Next

----------------------------------------------------------------------------

\* However connects, retries, timers and closing panels overlap, useStreamChat has at most
\* one socket with handlers, the one of wsRef, and none when the panel is gone.
THEOREM OneSocketHolds == Spec => []OneSocket
<1>1. PanelInv => OneSocket
  <2>1. ASSUME NEW s PROVE Cardinality({s}) = 1
    BY FS_Singleton
  <2> QED
    BY <2>1 DEF PanelInv, SocketOK, OneSocket
<1> QED
  BY <1>1, InitInv, NextInv, PTL DEF Spec

\* A chat panel without a socket is about to get one, or says so and offers Retry.
THEOREM NeverSilentlyOfflineHolds == Spec => []NeverSilentlyOffline
<1>1. PanelInv => NeverSilentlyOffline
  BY DEF PanelInv, WaitingOK, Awaited, NeverSilentlyOffline, InFlight
<1> QED
  BY <1>1, InitInv, NextInv, PTL DEF Spec

----------------------------------------------------------------------------
(* Who is signed in.                                                       *)

LEMMA CallIs ==
  \A k, u, n : Call(k, u, n).kind = k /\ Call(k, u, n).as = u /\ Call(k, u, n).arrived = FALSE
BY DEF Call, Free

LEMMA FreeIs == Free.kind = "none" /\ Free.as = None /\ Free.arrived = FALSE
BY DEF Free

\* What PanelInv says of calls, sockets and timers.
LEMMA PanelFacts ==
  ASSUME PanelInv
  PROVE  /\ call \in [Calls -> CallSet] /\ cookie \in Users \cup {None}
         /\ Detached = {} /\ (~panel => sockets = {}) /\ (timer => panel)
BY DEF PanelInv, Types, SocketOK, TimerOK, Detached

LEMMA SignInit == Init => SignInv
<1> SUFFICES ASSUME Init PROVE SignInv
  OBVIOUS
<1>1. PICK c \in Calls : call = Loaded(c)
  BY DEF Init
<1>2. Call("boot", cookie, 0).kind = "boot" /\ Call("boot", cookie, 0).as = cookie
  BY DEF Call, Free
<1>3. /\ \A d \in Calls : call[d].kind \in {"boot", "none"}
      /\ \A d \in Calls : call[d].kind = "boot" => call[d].as = cookie
      /\ call[c].kind = "boot"
  BY <1>1, <1>2, FreeIs DEF Loaded
<1> QED
  BY <1>3 DEF Init, SignInv, PageOK, OwnerOK, WritersOK, CookieOK, Reader, Writer, Writers

\* A call is sent: it carries the cookie if it reads it.
LEMMA SentSign ==
  ASSUME PanelInv, SignInv, NEW c \in Calls, NEW k \in Kinds, NEW u \in Users \cup {None}, NEW n \in Nat,
         call[c] = Free, call' = [call EXCEPT ![c] = Call(k, u, n)],
         UNCHANGED <<cookie, shown>>,
         kept => kept', raced => raced',
         k \in {"boot", "refresh", "first", "token"} => u = cookie,
         k # "first",
         k = "logout" => u = None,
         k \in {"login", "signup"} => u # None,
         k \in Writers /\ ~raced' => InFlight(Writers) = {},
         k = "token" => shown # None,
         cached' \in {cached, None},
         panel' => shown # None,
         ~kept => \A s \in sockets' : s.owner = shown
  PROVE  SignInv'
<1>1. Call(k, u, n).kind = k /\ Call(k, u, n).as = u /\ Call(k, u, n).arrived = FALSE
  BY DEF Call, Free
<1>2. /\ call \in [Calls -> CallSet]
      /\ call'[c].kind = k /\ call'[c].as = u /\ call'[c].arrived = FALSE
      /\ \A d \in Calls : d # c => call'[d] = call[d]
      /\ call[c].kind = "none"
  BY <1>1, PanelFacts, FreeIs
<1>3. PageOK' /\ OwnerOK'
  BY <1>2 DEF SignInv, PageOK, OwnerOK
<1>4. WritersOK'
  BY <1>2 DEF SignInv, WritersOK
<1>5. CookieOK'
  BY <1>2 DEF SignInv, CookieOK, Reader, Writer, Writers, InFlight
<1> QED
  BY <1>3, <1>4, <1>5 DEF SignInv

\* The calls stay what they are.
LEMMA SameCalls ==
  ASSUME SignInv, UNCHANGED <<call, cookie, shown, kept, raced>>,
         cached' \in {cached, None},
         panel' => shown # None,
         ~kept => \A s \in sockets' : s.owner = shown
  PROVE  SignInv'
BY DEF SignInv, PageOK, OwnerOK, WritersOK, CookieOK

LEMMA ConnectSign ==
  ASSUME PanelInv, SignInv, NEW c \in Calls, Connect(c), shown # None,
         UNCHANGED <<auth, cached, history>>
  PROVE  SignInv'
<1>1. cookie \in Users \cup {None} /\ session + 1 \in Nat /\ Detached = {}
  BY PanelFacts DEF PanelInv, Types
<1>2. CASE cached # None
  <2>1. UNCHANGED call /\ sockets' = {[session |-> session + 1, owner |-> cached]}
    BY <1>1, <1>2 DEF Connect
  <2>2. \A s \in sockets' : s.owner = cached
    BY <2>1
  <2>3. ~kept => cached = shown
    BY <1>2 DEF SignInv, OwnerOK
  <2> QED
    BY <2>1, <2>2, <2>3, SameCalls DEF auth, history
<1>3. CASE cached = None
  <2>1. /\ call[c] = Free /\ call' = [call EXCEPT ![c] = Call("token", cookie, session + 1)]
        /\ sockets' = {}
    BY <1>1, <1>3 DEF Connect
  <2> QED
    BY <1>1, <2>1, KindsOfCalls, SentSign DEF auth, history, Writers
<1> QED
  BY <1>2, <1>3

\* The panel asks for a token, or has one.
LEMMA PanelSign ==
  ASSUME PanelInv, SignInv, NEW c \in Calls, Visit(c) \/ Reconnect(c) \/ Retry(c) \/ ChatFetch(c)
  PROVE  SignInv'
<1>1. /\ panel => shown # None
      /\ ~kept => \A s \in sockets : s.owner = shown
      /\ cookie \in Users \cup {None} /\ session + 1 \in Nat
      /\ (timer => panel) /\ Detached = {}
  BY PanelFacts DEF SignInv, PageOK, OwnerOK, PanelInv, Types
<1>2. CASE Visit(c)
  BY <1>2, ConnectSign DEF Visit
<1>3. CASE Reconnect(c)
  BY <1>1, <1>3, ConnectSign DEF Reconnect
<1>4. CASE Retry(c)
  BY <1>1, <1>4, KindsOfCalls, SentSign DEF Retry, OffersRetry, auth, history, Writers
<1>5. CASE ChatFetch(c)
  BY <1>1, <1>5, KindsOfCalls, SentSign DEF ChatFetch, Send, auth, hook, history, Writers
<1> QED
  BY <1>2, <1>3, <1>4, <1>5

\* A form is sent, or refreshUser is called.
LEMMA FormSign ==
  ASSUME PanelInv, SignInv, NEW c \in Calls,
         \/ \E u \in Users : SubmitLogin(c, u) \/ SubmitSignup(c, u)
         \/ SubmitLogout(c) \/ Refresh(c)
  PROVE  SignInv'
<1>1. /\ panel => shown # None
      /\ ~kept => \A s \in sockets : s.owner = shown
      /\ cookie \in Users \cup {None}
  BY PanelFacts DEF SignInv, PageOK, OwnerOK
<1> USE DEF Send, auth, hook, history, Writers
<1>2. ASSUME NEW u \in Users, SubmitLogin(c, u) PROVE SignInv'
  BY <1>1, <1>2, KindsOfCalls, SentSign DEF SubmitLogin
<1>3. ASSUME NEW u \in Users, SubmitSignup(c, u) PROVE SignInv'
  BY <1>1, <1>3, KindsOfCalls, SentSign DEF SubmitSignup
<1>4. CASE SubmitLogout(c)
  BY <1>1, <1>4, KindsOfCalls, SentSign DEF SubmitLogout
<1>5. CASE Refresh(c)
  BY <1>1, <1>5, KindsOfCalls, SentSign DEF Refresh
<1> QED
  BY <1>2, <1>3, <1>4, <1>5

\* Show: whose page there is, and the panel goes with it.
LEMMA Shown ==
  ASSUME PanelInv, PageOK, NEW u, Show(u)
  PROVE  /\ shown' = u /\ PageOK'
         /\ sockets' \subseteq sockets
         /\ u = None => sockets' = {}
BY PanelFacts DEF Show, PageOK, Disconnect, hook

\* Login and signup: the cookie of the answer is there before the page knows.
LEMMA ArriveSign ==
  ASSUME PanelInv, SignInv, NEW c \in Calls, Arrive(c)
  PROVE  SignInv'
<1>1. PICK r \in CallSet : r = [call[c] EXCEPT !.arrived = TRUE]
  BY PanelFacts DEF CallSet
<1>2. r.kind = call[c].kind /\ r.as = call[c].as /\ r.arrived
  BY <1>1, PanelFacts DEF CallSet
<1>3. /\ call' = [call EXCEPT ![c] = r] /\ call[c].kind \in Writers
      /\ cookie' = call[c].as
      /\ raced' = (raced \/ \E d \in InFlight({"boot", "refresh", "first"}) : call[d].as # call[c].as)
      /\ kept' = (kept \/ (call[c].as # None /\ Swapped(call[c].as)))
      /\ UNCHANGED <<shown, cached, panel, sockets>>
  BY <1>1 DEF Arrive, InFlight, hook
<1>4. /\ call'[c] = r /\ \A d \in Calls : d # c => call'[d] = call[d]
      /\ call[c].kind \notin {"boot", "refresh", "first", "token"}
  BY <1>3, PanelFacts DEF Writers
<1>5. PageOK' /\ WritersOK'
  BY <1>2, <1>3, <1>4 DEF SignInv, PageOK, WritersOK
<1>6. OwnerOK'
  BY <1>2, <1>3, <1>4 DEF SignInv, OwnerOK, Swapped
<1>7. CookieOK'
  <2>1. SUFFICES ASSUME ~raced' PROVE CookieOK'
    BY DEF CookieOK
  <2>2. \A d \in Calls : Reader(call[d]) => call[d].as = call[c].as
    BY <1>3, <2>1 DEF InFlight, Reader
  <2>3. ~raced /\ CookieOK
    BY <1>3, <2>1 DEF SignInv
  <2>4. /\ \A d \in Calls : Reader(call'[d]) <=> Reader(call[d])
        /\ \A d \in Calls : Writer(call'[d]) <=> Writer(call[d])
        /\ \A d \in Calls : call'[d].kind = call[d].kind /\ call'[d].as = call[d].as
        /\ Writer(call[c])
    BY <1>2, <1>3, <1>4 DEF Reader, Writer
  <2>5. \A d \in Calls : Writer(call'[d]) => d = c
    BY <2>3, <2>4 DEF CookieOK
  <2> QED
    BY <1>2, <1>3, <1>4, <2>2, <2>3, <2>4, <2>5 DEF CookieOK
<1> QED
  BY <1>5, <1>6, <1>7 DEF SignInv

\* An answer that says who is signed in: the page shows that user.
LEMMA ToldSign ==
  ASSUME PanelInv, SignInv, NEW c \in Calls, NEW u, Show(u), Done(c), UNCHANGED cookie,
         call[c].kind # "token",
         ~raced' => ~raced /\ u = cookie,
         ~kept' => ~kept /\ ~Swapped(u) /\ u \in {cookie, None} /\ UNCHANGED cached
  PROVE  SignInv'
<1>1. /\ call' = [call EXCEPT ![c] = Free] /\ call \in [Calls -> CallSet]
      /\ shown' = u /\ PageOK' /\ sockets' \subseteq sockets /\ (u = None => sockets' = {})
  BY Shown, PanelFacts DEF Done, SignInv
<1>2. \A d \in Calls : IF d = c THEN call'[d].kind = "none" ELSE call'[d] = call[d]
  BY <1>1, FreeIs
<1>3. OwnerOK'
  <2>1. shown = None => sockets = {}
    BY PanelFacts DEF SignInv, PageOK
  <2>2. SUFFICES ASSUME ~kept' PROVE OwnerOK'
    BY DEF OwnerOK
  <2>3. \/ shown = u
        \/ shown = None /\ sockets = {} /\ u # None
    BY <2>1, <2>2 DEF Swapped
  <2> QED
    BY <1>1, <1>2, <2>2, <2>3 DEF SignInv, OwnerOK
<1>4. WritersOK'
  BY <1>2 DEF SignInv, WritersOK
<1>5. CookieOK'
  BY <1>1, <1>2 DEF SignInv, CookieOK, Reader, Writer, Writers
<1> QED
  BY <1>1, <1>3, <1>4, <1>5 DEF SignInv

\* A call is over that told nobody who is signed in.
LEMMA OverSign ==
  ASSUME PanelInv, SignInv, NEW c \in Calls, Done(c), UNCHANGED <<cookie, shown, panel>>,
         kept => kept',
         ~raced' => /\ ~raced /\ ~Reader(call[c])
                    /\ ~(Writer(call[c]) /\ call[c].arrived),
         cached' \in {cached, None} \/ (~kept => cached' = shown),
         ~kept => \A s \in sockets' : s.owner = shown
  PROVE  SignInv'
<1>1. call' = [call EXCEPT ![c] = Free] /\ call \in [Calls -> CallSet]
  BY PanelFacts DEF Done
<1>2. \A d \in Calls : IF d = c THEN call'[d].kind = "none" ELSE call'[d] = call[d]
  BY <1>1, FreeIs
<1>3. PageOK' /\ OwnerOK'
  BY <1>2 DEF SignInv, PageOK, OwnerOK
<1>4. WritersOK'
  BY <1>2 DEF SignInv, WritersOK
<1>5. CookieOK'
  BY <1>2 DEF SignInv, CookieOK, Reader, Writer, Writers
<1> QED
  BY <1>3, <1>4, <1>5 DEF SignInv

\* The page that signed in or out goes on.
LEMMA WrittenSign ==
  ASSUME PanelInv, SignInv, NEW c \in Calls, LoggedIn(c) \/ SignedUp(c)
  PROVE  SignInv'
<1>1. CASE LoggedIn(c)
  <2>1. ~raced => call[c].as = cookie
    BY <1>1 DEF LoggedIn, SignInv, CookieOK, Writer, Writers
  <2> QED
    BY <1>1, <2>1, ToldSign DEF LoggedIn
<1>2. CASE SignedUp(c)
  <2>1. /\ AfterSignup.kind = "first" /\ AfterSignup.as = cookie
        /\ call' = [call EXCEPT ![c] = AfterSignup] /\ call \in [Calls -> CallSet]
        /\ call[c].kind = "signup" /\ call[c].arrived
        /\ UNCHANGED <<cookie, shown, cached, panel, sockets, raced, kept>>
    BY <1>2, PanelFacts, CallIs DEF SignedUp, AfterSignup, auth, hook, history
  <2>2. \A d \in Calls : IF d = c THEN call'[d].kind = "first" /\ call'[d].as = cookie
                                  ELSE call'[d] = call[d]
    BY <2>1
  <2>3. PageOK' /\ OwnerOK' /\ WritersOK'
    BY <2>1, <2>2 DEF SignInv, PageOK, OwnerOK, WritersOK
  <2>4. ~raced => cookie # None
    BY <2>1 DEF SignInv, CookieOK, WritersOK, Writer, Writers
  <2>5. CookieOK'
    BY <2>1, <2>2, <2>4 DEF SignInv, CookieOK, Reader, Writer, Writers
  <2> QED
    BY <2>3, <2>5 DEF SignInv
<1> QED
  BY <1>1, <1>2

LEMMA GetMeSign ==
  ASSUME PanelInv, SignInv, NEW c \in Calls, GetMe(c)
  PROVE  SignInv'
<1>1. /\ call[c].kind \in {"boot", "refresh", "first"} /\ Done(c)
      /\ kept' = (kept \/ Swapped(call[c].as) \/ call[c].as # cookie)
      /\ UNCHANGED <<cookie, cached, raced>>
  BY DEF GetMe, InFlight
<1>2. ~raced => call[c].as = cookie
  BY <1>1 DEF SignInv, CookieOK, Reader
<1>3. CASE Show(call[c].as)
  BY <1>1, <1>2, <1>3, ToldSign
<1>4. CASE call[c].kind = "first" /\ call[c].as = None /\ UNCHANGED <<shown, loading, hook>>
  <2>1. raced
    BY <1>4 DEF SignInv, CookieOK
  <2>2. ~kept => \A s \in sockets : s.owner = shown
    BY DEF SignInv, OwnerOK
  <2> QED
    BY <1>1, <1>4, <2>1, <2>2, OverSign DEF hook
<1> QED
  BY <1>3, <1>4 DEF GetMe

LEMMA GetTokenSign ==
  ASSUME PanelInv, SignInv, NEW c \in Calls, GetToken(c)
  PROVE  SignInv'
<1>1. /\ call[c].kind = "token" /\ Done(c) /\ UNCHANGED <<cookie, shown, panel, kept, raced>>
      /\ ~Reader(call[c]) /\ ~Writer(call[c])
  BY DEF GetToken, auth, history, Reader, Writer, Writers
<1>2. \/ UNCHANGED <<cached, sockets>>
      \/ /\ call[c].as # None /\ cached' = call[c].as
         /\ sockets' \subseteq sockets \cup {[session |-> call[c].for, owner |-> call[c].as]}
  BY DEF GetToken
<1>3. ~kept => /\ \A s \in sockets : s.owner = shown
               /\ call[c].as \in {None, shown}
  BY <1>1 DEF SignInv, OwnerOK
<1>4. CASE UNCHANGED <<cached, sockets>>
  BY <1>1, <1>3, <1>4, OverSign
<1>5. CASE /\ call[c].as # None /\ cached' = call[c].as
           /\ sockets' \subseteq sockets \cup {[session |-> call[c].for, owner |-> call[c].as]}
  <2>1. ~kept => \A s \in sockets' : s.owner = shown
    <3>1. [session |-> call[c].for, owner |-> call[c].as].owner = call[c].as
      OBVIOUS
    <3> QED
      BY <1>3, <1>5, <3>1
  <2>2. ~kept => cached' = shown
    BY <1>3, <1>5
  <2> QED
    BY <1>1, <2>1, <2>2, OverSign
<1> QED
  BY <1>2, <1>4, <1>5

\* A logout clears the page and the token, whether or not it is answered.
LEMMA LogoutSign ==
  ASSUME PanelInv, SignInv, NEW c \in Calls, call[c].kind = "logout", Done(c), Show(None),
         cached' = None, UNCHANGED cookie,
         ~raced' => ~raced /\ call[c].arrived,
         kept' = (kept \/ InFlight({"token"}) # {})
  PROVE  SignInv'
<1>1. /\ call' = [call EXCEPT ![c] = Free] /\ call \in [Calls -> CallSet]
      /\ shown' = None /\ PageOK' /\ sockets' = {}
  BY Shown, PanelFacts DEF Done, SignInv
<1>2. \A d \in Calls : IF d = c THEN call'[d].kind = "none" ELSE call'[d] = call[d]
  BY <1>1, FreeIs
<1>3. OwnerOK'
  BY <1>1, <1>2 DEF OwnerOK, InFlight
<1>4. WritersOK'
  BY <1>2 DEF SignInv, WritersOK
<1>5. ~raced' => cookie = None
  <2>1. call[c].kind = "logout"
    OBVIOUS
  <2>2. Writer(call[c])
    BY <2>1 DEF Writer, Writers
  <2>3. call[c].as = None
    BY <2>1 DEF SignInv, WritersOK
  <2> QED
    BY <2>2, <2>3 DEF SignInv, CookieOK
<1>6. CookieOK'
  BY <1>1, <1>2, <1>5 DEF SignInv, CookieOK, Reader, Writer, Writers
<1> QED
  BY <1>1, <1>3, <1>4, <1>6 DEF SignInv

LEMMA FailsSign ==
  ASSUME PanelInv, SignInv, NEW c \in Calls, CallFails(c)
  PROVE  SignInv'
<1>1. Done(c) /\ ~call[c].arrived /\ UNCHANGED cookie
  BY DEF CallFails
<1>2. CASE call[c].kind = "logout"
  BY <1>1, <1>2, LogoutSign DEF CallFails, AfterLogout
<1>3. CASE call[c].kind \in {"boot", "refresh"}
  <2>1. Show(None) /\ UNCHANGED cached /\ raced' /\ kept' = (kept \/ Swapped(None))
    BY <1>3 DEF CallFails
  <2> QED
    BY <1>1, <1>3, <2>1, ToldSign
<1>4. CASE call[c].kind \notin {"boot", "refresh", "logout"}
  <2>1. UNCHANGED <<shown, panel, sockets, cached>>
    BY <1>4 DEF CallFails
  <2>2. (kept => kept') /\ (~raced' => ~raced /\ call[c].kind # "first")
    BY DEF CallFails
  <2>3. ~kept => \A s \in sockets : s.owner = shown
    BY DEF SignInv, OwnerOK
  <2> QED
    BY <1>1, <1>4, <2>1, <2>2, <2>3, OverSign DEF Reader
<1> QED
  BY <1>2, <1>3, <1>4

----------------------------------------------------------------------------

LEMMA AnswerSign ==
  ASSUME PanelInv, SignInv, NEW c \in Calls, Answered(c)
  PROVE  SignInv'
<1>1. CASE LoggedOut(c)
  BY <1>1, LogoutSign DEF LoggedOut, AfterLogout
<1> QED
  BY <1>1, ArriveSign, WrittenSign, GetMeSign, GetTokenSign, FailsSign DEF Answered

\* The panel's socket, and the panel's end.
LEMMA SocketSign ==
  ASSUME PanelInv, SignInv,
         \/ \E s \in sockets : Opens(s) \/ Refused(s) \/ Warned(s) \/ Closes(s)
         \/ Leave
  PROVE  SignInv'
<1>1. UNCHANGED <<call, cookie, shown, kept, raced>> /\ cached' \in {cached, None}
  BY DEF Opens, Refused, Warned, Closes, Leave, auth, history
<1>2. (panel' => panel) /\ sockets' \subseteq sockets
  BY DEF Opens, Refused, Warned, Closes, Leave, Disconnect, Detached
<1>3. /\ panel => shown # None
      /\ ~kept => \A s \in sockets : s.owner = shown
  BY DEF SignInv, PageOK, OwnerOK
<1> QED
  BY <1>1, <1>2, <1>3, SameCalls

\* A page load leaves nothing but the cookie, and a call that carries it.
LEMMA LoadSign ==
  ASSUME NEW c \in Calls, NEW d \in Calls, NEW u,
         Load(c) \/ OAuthReturn(c, d, u)
  PROVE  SignInv'
<1>1. \A v : /\ Call("boot", v, 0).kind = "boot" /\ Call("boot", v, 0).as = v
             /\ Call("refresh", v, 0).kind = "refresh" /\ Call("refresh", v, 0).as = v
  BY DEF Call, Free
<1>2. /\ \A e \in Calls : call'[e].kind \in {"boot", "refresh", "none"}
      /\ \A e \in Calls : call'[e].kind # "none" => call'[e].as = cookie'
      /\ call'[c].kind = "boot"
  <2>1. CASE Load(c)
    BY <1>1, <2>1, FreeIs DEF Load, Loaded
  <2>2. CASE OAuthReturn(c, d, u)
    BY <1>1, <2>2, FreeIs DEF OAuthReturn, CallbackPage
  <2> QED
    BY <2>1, <2>2
<1>3. shown' = None /\ cached' = None /\ ~panel' /\ sockets' = {}
  BY DEF Load, OAuthReturn
<1> QED
  BY <1>2, <1>3 DEF SignInv, PageOK, OwnerOK, WritersOK, CookieOK, Reader, Writer, Writers

LEMMA NextSign == PanelInv /\ SignInv /\ [Next]_vars => SignInv'
<1> SUFFICES ASSUME PanelInv, SignInv, [Next]_vars PROVE SignInv'
  OBVIOUS
<1>1. ASSUME NEW c \in Calls, Asked(c) PROVE SignInv'
  <2>1. CASE Visit(c) \/ Reconnect(c) \/ Retry(c) \/ ChatFetch(c)
    BY <2>1, PanelSign
  <2>2. CASE SubmitLogout(c) \/ Refresh(c)
    BY <2>2, FormSign
  <2>3. CASE Load(c)
    BY <2>3, LoadSign
  <2>4. ASSUME NEW u \in Users, SubmitLogin(c, u) \/ SubmitSignup(c, u) PROVE SignInv'
    BY <2>4, FormSign
  <2>5. ASSUME NEW u \in Users, NEW d \in Calls, OAuthReturn(c, d, u) PROVE SignInv'
    BY <2>5, LoadSign
  <2> QED
    BY <1>1, <2>1, <2>2, <2>3, <2>4, <2>5 DEF Asked
<1>2. ASSUME NEW c \in Calls, Answered(c) PROVE SignInv'
  BY <1>2, AnswerSign
<1>3. CASE (\E s \in sockets : Opens(s) \/ Refused(s) \/ Warned(s) \/ Closes(s)) \/ Leave
  BY <1>3, SocketSign
<1>4. CASE UNCHANGED vars
  BY <1>4 DEF vars, auth, hook, history, SignInv, PageOK, OwnerOK, WritersOK, CookieOK
<1> QED
  BY <1>1, <1>2, <1>3, <1>4 DEF Next

\* The tab, its chat token and its socket are of one user, the one whose cookie the browser
\* has: unless calls of AuthProvider overlapped or failed, or one user replaced another
\* without a logout.
THEOREM SignedInAgreesHolds == Spec => []SignedInAgrees
<1>1. PanelInv /\ SignInv => SignedInAgrees
  <2>1. SUFFICES ASSUME SignInv PROVE SignedInAgrees
    OBVIOUS
  <2>2. ChatAsSignedIn
    BY <2>1 DEF SignInv, OwnerOK, ChatAsSignedIn
  <2>3. ShownIsSignedIn
    BY <2>1, FreeIs DEF SignInv, CookieOK, ShownIsSignedIn, Reader, Writer, Writers
  <2> QED
    BY <2>2, <2>3 DEF SignedInAgrees
<1>2. Spec => []PanelInv
  BY InitInv, NextInv, PTL DEF Spec
<1>3. PanelInv /\ SignInv /\ PanelInv' /\ [Next]_vars => SignInv'
  BY NextSign
<1> QED
  BY <1>1, <1>2, <1>3, SignInit, PTL DEF Spec

----------------------------------------------------------------------------
(* The types.                                                              *)

NamesOK ==
  /\ shown \in Users \cup {None} /\ cached \in Users \cup {None}
  /\ \A s \in sockets : s.owner \in Users
FlagsOK ==
  /\ loading \in BOOLEAN /\ panel \in BOOLEAN /\ timer \in BOOLEAN
  /\ failed \in BOOLEAN /\ error \in BOOLEAN
HistoryOK == raced \in BOOLEAN /\ kept \in BOOLEAN
TypeInv == NamesOK /\ FlagsOK /\ HistoryOK /\ mishaps \in 0 .. MaxMishaps

LEMMA InitTypes == Init => TypeInv
<1> SUFFICES ASSUME Init PROVE TypeInv
  OBVIOUS
<1>1. NamesOK /\ FlagsOK /\ HistoryOK
  BY DEF Init, NamesOK, FlagsOK, HistoryOK
<1>2. mishaps = 0 /\ MaxMishaps \in Nat
  BY DEF Init
<1> QED
  BY <1>1, <1>2 DEF TypeInv

\* Show, of a user or of nobody.
LEMMA ShowTypes ==
  ASSUME PanelInv, NamesOK, FlagsOK, NEW u \in Users \cup {None}, Show(u), cached' \in {cached, None}
  PROVE  NamesOK' /\ FlagsOK'
<1>1. sockets' \subseteq sockets
  BY PanelFacts DEF Show, Disconnect, hook
<1>2. NamesOK'
  BY <1>1 DEF Show, NamesOK
<1>3. FlagsOK'
  BY DEF Show, Disconnect, hook, FlagsOK
<1> QED
  BY <1>2, <1>3

LEMMA ConnectTypes ==
  ASSUME PanelInv, NamesOK, NEW c \in Calls, Connect(c), UNCHANGED <<shown, cached>>
  PROVE  NamesOK' /\ timer' = FALSE
<1>1. timer' = FALSE /\ Detached = {}
  BY PanelFacts DEF Connect
<1>2. CASE cached # None
  <2>1. sockets' = {[session |-> session + 1, owner |-> cached]}
    BY <1>1, <1>2 DEF Connect
  <2>2. \A s \in sockets' : s.owner = cached
    BY <2>1
  <2> QED
    BY <1>1, <1>2, <2>2 DEF NamesOK
<1>3. CASE cached = None
  <2>1. sockets' = {}
    BY <1>1, <1>3 DEF Connect
  <2> QED
    BY <1>1, <2>1 DEF NamesOK
<1> QED
  BY <1>2, <1>3

LEMMA AskedTypes ==
  ASSUME PanelInv, TypeInv, NEW c \in Calls, Asked(c)
  PROVE  TypeInv'
<1> USE DEF TypeInv
<1>1. CASE Visit(c)
  <2>1. NamesOK' /\ timer' = FALSE
    BY <1>1, ConnectTypes DEF Visit, auth
  <2> QED
    BY <1>1, <2>1 DEF Visit, auth, history, FlagsOK, HistoryOK
<1>2. CASE Reconnect(c)
  <2>1. NamesOK' /\ timer' = FALSE
    BY <1>2, ConnectTypes DEF Reconnect, auth
  <2> QED
    BY <1>2, <2>1 DEF Reconnect, auth, history, FlagsOK, HistoryOK
<1>3. CASE Retry(c)
  <2>1. sockets' = {}
    BY <1>3, PanelFacts DEF Retry
  <2>2. NamesOK' /\ FlagsOK' /\ HistoryOK'
    BY <1>3, <2>1 DEF Retry, auth, history, NamesOK, FlagsOK, HistoryOK
  <2> QED
    BY <1>3, <2>2 DEF Retry
<1>4. CASE ChatFetch(c)
  <2>1. NamesOK' /\ FlagsOK' /\ HistoryOK'
    BY <1>4 DEF ChatFetch, auth, hook, history, NamesOK, FlagsOK, HistoryOK
  <2> QED
    BY <1>4, <2>1 DEF ChatFetch
<1>5. CASE \/ SubmitLogout(c) \/ Refresh(c)
           \/ \E u \in Users : SubmitLogin(c, u) \/ SubmitSignup(c, u)
  <2>1. NamesOK' /\ FlagsOK' /\ mishaps' = mishaps
    BY <1>5 DEF SubmitLogout, Refresh, SubmitLogin, SubmitSignup, auth, hook, NamesOK, FlagsOK
  <2>2. kept' = kept /\ (raced' = raced \/ raced' = (raced \/ InFlight(Writers) # {}))
    BY <1>5 DEF SubmitLogout, Refresh, SubmitLogin, SubmitSignup, history
  <2> QED
    BY <2>1, <2>2 DEF HistoryOK
<1>6. CASE Load(c) \/ \E u \in Users, d \in Calls : OAuthReturn(c, d, u)
  BY <1>6 DEF Load, OAuthReturn, NamesOK, FlagsOK, HistoryOK
<1> QED
  BY <1>1, <1>2, <1>3, <1>4, <1>5, <1>6 DEF Asked

LEMMA AnsweredTypes ==
  ASSUME PanelInv, TypeInv, NEW c \in Calls, Answered(c)
  PROVE  TypeInv'
<1> USE DEF TypeInv
<1>1. call[c].as \in Users \cup {None}
  BY PanelFacts DEF CallSet
<1>2. CASE Arrive(c)
  <2>1. NamesOK' /\ FlagsOK' /\ mishaps' = mishaps
    BY <1>2 DEF Arrive, hook, NamesOK, FlagsOK
  <2>2. HistoryOK'
    BY <1>2 DEF Arrive, HistoryOK
  <2> QED
    BY <2>1, <2>2
<1>3. CASE LoggedIn(c) \/ LoggedOut(c)
  <2>1. NamesOK' /\ FlagsOK'
    BY <1>1, <1>3, ShowTypes DEF LoggedIn, LoggedOut, AfterLogout
  <2>2. HistoryOK' /\ mishaps' = mishaps
    BY <1>3 DEF LoggedIn, LoggedOut, HistoryOK
  <2> QED
    BY <2>1, <2>2
<1>4. CASE SignedUp(c)
  <2>1. NamesOK' /\ FlagsOK' /\ HistoryOK'
    BY <1>4 DEF SignedUp, auth, hook, history, NamesOK, FlagsOK, HistoryOK
  <2> QED
    BY <1>4, <2>1 DEF SignedUp
<1>5. CASE GetMe(c)
  <2>1. ASSUME UNCHANGED <<shown, loading, hook>> PROVE NamesOK' /\ FlagsOK'
    BY <1>5, <2>1 DEF GetMe, hook, NamesOK, FlagsOK
  <2>2. ASSUME Show(call[c].as) PROVE NamesOK' /\ FlagsOK'
    BY <1>1, <1>5, <2>2, ShowTypes DEF GetMe
  <2>3. NamesOK' /\ FlagsOK'
    BY <1>5, <2>1, <2>2 DEF GetMe
  <2>4. HistoryOK' /\ mishaps' = mishaps
    BY <1>5 DEF GetMe, HistoryOK
  <2> QED
    BY <2>3, <2>4
<1>6. CASE GetToken(c)
  <2>1. [session |-> call[c].for, owner |-> call[c].as].owner = call[c].as
    OBVIOUS
  <2>2. NamesOK'
    BY <1>1, <1>6, <2>1 DEF GetToken, auth, NamesOK
  <2>3. FlagsOK' /\ HistoryOK' /\ mishaps' = mishaps
    BY <1>6 DEF GetToken, auth, history, FlagsOK, HistoryOK
  <2> QED
    BY <2>2, <2>3
<1>7. CASE CallFails(c)
  <2>1. cached' \in {cached, None}
    BY <1>7 DEF CallFails, AfterLogout
  <2>2. ASSUME Show(None) PROVE NamesOK' /\ FlagsOK'
    BY <2>1, <2>2, ShowTypes
  <2>3. ASSUME ~(call[c].kind \in {"boot", "refresh", "logout"}) PROVE NamesOK' /\ FlagsOK'
    BY <1>7, <2>1, <2>3 DEF CallFails, NamesOK, FlagsOK
  <2>4. NamesOK' /\ FlagsOK'
    BY <1>7, <2>2, <2>3 DEF CallFails
  <2>5. HistoryOK'
    BY <1>7 DEF CallFails, HistoryOK
  <2>6. mishaps' \in 0 .. MaxMishaps
    BY <1>7 DEF CallFails
  <2> QED
    BY <2>4, <2>5, <2>6
<1> QED
  BY <1>2, <1>3, <1>4, <1>5, <1>6, <1>7 DEF Answered

LEMMA SocketTypes ==
  ASSUME PanelInv, TypeInv,
         \/ \E s \in sockets : Opens(s) \/ Refused(s) \/ Warned(s) \/ Closes(s)
         \/ Leave
  PROVE  TypeInv'
<1> USE DEF TypeInv
<1>1. sockets' \subseteq sockets /\ cached' \in {cached, None} /\ UNCHANGED <<auth, history, mishaps>>
  BY DEF Opens, Refused, Warned, Closes, Leave, Disconnect, Detached
<1>2. NamesOK' /\ HistoryOK' /\ loading' = loading
  BY <1>1 DEF auth, history, NamesOK, HistoryOK
<1>3. panel' \in BOOLEAN /\ failed' \in BOOLEAN
  BY DEF Opens, Refused, Warned, Closes, Leave, FlagsOK
<1>4. timer' \in BOOLEAN /\ error' \in BOOLEAN
  <2>1. timer' \in {timer, FALSE} \/ timer' = (attempts < MaxAttempts)
    BY DEF Opens, Refused, Warned, Closes, Leave, Disconnect
  <2>2. error' \in {error, TRUE, FALSE} \/ error' = GivenUp(attempts + 1)
    BY DEF Opens, Refused, Warned, Closes, Leave
  <2>3. GivenUp(attempts + 1) \in BOOLEAN /\ (attempts < MaxAttempts) \in BOOLEAN
    BY DEF GivenUp, FlagsOK
  <2>4. timer \in BOOLEAN /\ error \in BOOLEAN
    BY DEF FlagsOK
  <2> QED
    BY <2>1, <2>2, <2>3, <2>4, Zenon
<1> QED
  BY <1>1, <1>2, <1>3, <1>4 DEF FlagsOK

LEMMA NextTypes == PanelInv /\ TypeInv /\ [Next]_vars => TypeInv'
<1> SUFFICES ASSUME PanelInv, TypeInv, [Next]_vars PROVE TypeInv'
  OBVIOUS
<1>1. CASE UNCHANGED vars
  BY <1>1 DEF vars, auth, hook, history, TypeInv, NamesOK, FlagsOK, HistoryOK
<1> QED
  BY <1>1, AskedTypes, AnsweredTypes, SocketTypes DEF Next

\* Every variable keeps its type, and a socket is always somebody's, however often the user
\* connects, retries, signs in and out.
THEOREM WebSessionTypeCorrect == Spec => []TypeOK
<1>1. PanelInv /\ TypeInv => TypeOK
  <2> SUFFICES ASSUME PanelInv, TypeInv PROVE TypeOK
    OBVIOUS
  <2>1. session \in Nat /\ attempts \in Nat /\ ws \in {0, session}
    BY DEF PanelInv, Types, SocketOK
  <2>2. \A s \in sockets : s.session \in Nat /\ s.owner \in Users
    BY <2>1 DEF PanelInv, SocketOK, TypeInv, NamesOK
  <2>3. /\ {cookie, shown, cached} \subseteq Users \cup {None}
        /\ call \in [Calls -> [kind : Kinds, as : Users \cup {None}, arrived : BOOLEAN, for : Nat]]
    BY DEF PanelInv, Types, CallSet, TypeInv, NamesOK
  <2>4. {loading, panel, timer, failed, error, raced, kept} \subseteq BOOLEAN
    BY Zenon DEF TypeInv, FlagsOK, HistoryOK
  <2>5. {session, ws, attempts} \subseteq Nat
    BY <2>1
  <2> QED
    BY <2>2, <2>3, <2>4, <2>5 DEF TypeOK, TypeInv
<1>2. PanelInv /\ TypeInv /\ [Next]_vars => PanelInv' /\ TypeInv'
  BY NextInv, NextTypes
<1> QED
  BY <1>1, <1>2, InitInv, InitTypes, PTL DEF Spec
===============================================================================

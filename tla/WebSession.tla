----------------------------- MODULE WebSession -----------------------------
(***************************************************************************)
(* Who is signed in in one browser tab: the session cookie that            *)
(* auth-service sets, the user AuthProvider shows, the chat token that     *)
(* chat-client keeps in memory, and the socket of the chat panel.          *)
(*                                                                         *)
(* A call is a request of the tab.  It carries the cookie of the moment    *)
(* it is sent; the cookie of a response is stored when it arrives, and the *)
(* script goes on later.  chat-service is external: it may accept, refuse  *)
(* or drop a socket at any time (ChatRoom models it).                      *)
(***************************************************************************)
EXTENDS Naturals, FiniteSets

CONSTANTS
  Users,
  None,         \* nobody
  Calls,        \* bound: requests in flight at a time
  MaxAttempts,  \* sockets tried again before the panel gives up (6 in the code)
  MaxMishaps    \* bound: failing calls

ASSUME WebSessionAssumption == None \notin Users /\ {MaxAttempts, MaxMishaps} \subseteq Nat

VARIABLES
  cookie,   \* castify_token: the user it names
  shown,    \* state.user of AuthProvider
  loading,  \* state.isLoading
  cached,   \* cachedToken: the user it names
  call,     \* call[c]: a request in flight
  panel,    \* the chat panel is mounted
  session,  \* sessionRef
  sockets,  \* sockets with handlers: [session, owner]
  ws,       \* the session of wsRef's socket, 0 if there is none
  timer,    \* reconnectTimer is set
  attempts, \* reconnectAttempt
  failed,   \* authFailed
  error,    \* the panel shows an error and a Retry button
  mishaps,  \* failed calls so far
  \* History:
  raced,    \* the cookie changed while a call that depends on it was in flight, or a
            \* call that is to change it failed or was not the only one
  kept      \* the user changed other than by a logout with no token on its way, or an
            \* answer came that was older than the cookie

auth == <<cookie, shown, loading>>
hook == <<panel, session, sockets, ws, timer, attempts, failed, error>>
history == <<raced, kept>>
vars == <<auth, cached, call, hook, mishaps, history>>

\* A call: what it is, the cookie it carries or the user it is to sign in, whether its
\* response has arrived, and the session of the panel that waits for it.
Free == [kind |-> "none", as |-> None, arrived |-> FALSE, for |-> 0]
Writers == {"login", "signup", "logout"}
Kinds == Writers \cup {"none", "boot", "refresh", "first", "token"}

TypeOK ==
  /\ {cookie, shown, cached} \subseteq Users \cup {None}
  /\ {loading, panel, timer, failed, error, raced, kept} \subseteq BOOLEAN
  /\ call \in [Calls -> [kind : Kinds, as : Users \cup {None}, arrived : BOOLEAN, for : Nat]]
  /\ {session, ws, attempts} \subseteq Nat /\ mishaps \in 0 .. MaxMishaps
  /\ \A s \in sockets : s.session \in Nat /\ s.owner \in Users

----------------------------------------------------------------------------
InFlight(kinds) == {c \in Calls : call[c].kind \in kinds}
Call(kind, as, for) == [Free EXCEPT !.kind = kind, !.as = as, !.for = for]
Send(c, kind, as) == call[c] = Free /\ call' = [call EXCEPT ![c] = Call(kind, as, 0)]
Done(c) == call' = [call EXCEPT ![c] = Free]

\* A page load: AuthProvider asks for /me, nothing else is left of a page before.
Loaded(c) == [d \in Calls |-> IF d = c THEN Call("boot", cookie, 0) ELSE Free]

Init ==
  /\ cookie \in Users \cup {None}
  /\ shown = None /\ loading = TRUE /\ cached = None
  /\ \E c \in Calls : call = Loaded(c)
  /\ panel = FALSE /\ session = 0 /\ sockets = {} /\ ws = 0
  /\ timer = FALSE /\ attempts = 0 /\ failed = FALSE /\ error = FALSE
  /\ mishaps = 0 /\ raced = FALSE /\ kept = FALSE

----------------------------------------------------------------------------
(* useStreamChat.                                                          *)

\* detachSocket(wsRef.current)
Detached == {s \in sockets : s.session # ws}

\* disconnect.
Disconnect ==
  /\ session' = session + 1
  /\ timer' = FALSE /\ ws' = 0
  /\ sockets' = Detached

\* connect: the token may be at hand, or call c asks for one.
\* (A second part, once the token is there, is in GetToken.)
Connect(c) ==
  /\ session' = session + 1
  /\ timer' = FALSE
  /\ IF cached # None
       THEN /\ sockets' = Detached \cup {[session |-> session + 1, owner |-> cached]}
            /\ ws' = session + 1
            /\ UNCHANGED call
       ELSE /\ sockets' = Detached /\ ws' = 0
            /\ call[c] = Free
            /\ call' = [call EXCEPT ![c] = Call("token", cookie, session + 1)]

\* The user goes to a watch page or the studio, which RequireAuth and the dashboard's
\* layout only show to somebody signed in.
Visit(c) ==
  /\ ~panel /\ ~loading /\ shown # None
  /\ panel' = TRUE /\ failed' = FALSE /\ attempts' = 0 /\ error' = FALSE
  /\ Connect(c)
  /\ UNCHANGED <<auth, cached, mishaps, history>>

Leave ==
  /\ panel
  /\ panel' = FALSE
  /\ Disconnect
  /\ UNCHANGED <<auth, cached, call, attempts, failed, error, mishaps, history>>

\* onopen.
Opens(s) ==
  /\ s \in sockets /\ s.session = session
  /\ attempts' = 0 /\ error' = FALSE
  /\ UNCHANGED <<auth, cached, call, panel, session, sockets, ws, timer, failed, mishaps, history>>

\* The server refuses the token, or the user, or bans the user.
Refused(s) ==
  /\ s \in sockets /\ s.session = session
  /\ session' = session + 1
  /\ sockets' = sockets \ {s} /\ ws' = 0
  /\ error' = TRUE
  /\ \/ failed' = TRUE /\ cached' = None
     \/ UNCHANGED <<failed, cached>>
  /\ UNCHANGED <<auth, call, panel, timer, attempts, mishaps, history>>

\* Another error of the server (too fast, timed out, ...), or onerror.
Warned(s) ==
  /\ s \in sockets /\ s.session = session
  /\ error' = TRUE
  /\ UNCHANGED <<auth, cached, call, panel, session, sockets, ws, timer, attempts, failed, mishaps,
                 history>>

\* onclose.
\* Mutant of GivenUp: the panel gives up without a word.
Silently(n) == error
GivenUp(n) == error \/ n > MaxAttempts
Closes(s) ==
  /\ s \in sockets
  /\ sockets' = sockets \ {s}
  /\ IF s.session = session
       THEN /\ ws' = 0
            /\ IF failed THEN UNCHANGED <<attempts, error, timer>>
               ELSE /\ attempts' = attempts + 1
                    /\ error' = GivenUp(attempts + 1)
                    /\ timer' = (attempts < MaxAttempts)
       ELSE UNCHANGED <<ws, attempts, error, timer>>
  /\ UNCHANGED <<auth, cached, call, panel, session, failed, mishaps, history>>

Reconnect(c) ==
  /\ timer
  /\ Connect(c)
  /\ UNCHANGED <<auth, cached, panel, attempts, failed, error, mishaps, history>>

\* The panel's Retry button stands beside the error.
OffersRetry == panel /\ error

\* The token is dropped first, which Connect sees.
Retry(c) ==
  /\ OffersRetry
  /\ failed' = FALSE /\ attempts' = 0 /\ cached' = None
  /\ session' = session + 1 /\ timer' = FALSE
  /\ sockets' = Detached /\ ws' = 0
  /\ call[c] = Free
  /\ call' = [call EXCEPT ![c] = Call("token", cookie, session + 1)]
  /\ UNCHANGED <<auth, panel, error, mishaps, history>>

\* chatFetch of the moderation panel or of a ban: it is answered 401 and asks for another
\* token, or has none.  (With a token that is accepted nothing here changes.)
ChatFetch(c) ==
  /\ panel
  /\ cached' = None
  /\ Send(c, "token", cookie)
  /\ UNCHANGED <<auth, hook, mishaps, history>>

----------------------------------------------------------------------------
(* AuthProvider and the pages that call it.                                *)

\* An effect of RequireAuth and of the dashboard's layout: without a user the panel's page
\* is left.
Show(u) ==
  /\ shown' = u /\ loading' = FALSE
  /\ IF panel /\ u = None
       THEN panel' = FALSE /\ Disconnect /\ UNCHANGED <<attempts, failed, error>>
       ELSE UNCHANGED hook

\* The user changes without a logout: the chat token is not looked at.
Swapped(u) == shown # None /\ shown # u

SubmitLogin(c, u) ==
  /\ ~panel
  /\ Send(c, "login", u)
  /\ raced' = (raced \/ InFlight(Writers) # {})
  /\ UNCHANGED <<auth, cached, hook, mishaps, kept>>

SubmitSignup(c, u) ==
  /\ ~panel
  /\ Send(c, "signup", u)
  /\ raced' = (raced \/ InFlight(Writers) # {})
  /\ UNCHANGED <<auth, cached, hook, mishaps, kept>>

SubmitLogout(c) ==
  /\ shown # None
  /\ Send(c, "logout", None)
  /\ raced' = (raced \/ InFlight(Writers) # {})
  /\ UNCHANGED <<auth, cached, hook, mishaps, kept>>

\* refreshUser, after the profile was saved, a plan bought or cancelled.
Refresh(c) ==
  /\ ~panel /\ shown # None
  /\ Send(c, "refresh", cookie)
  /\ UNCHANGED <<auth, cached, hook, mishaps, history>>

\* The response of login, signup or logout arrives and its cookie is stored.
Arrive(c) ==
  /\ c \in InFlight(Writers) /\ ~call[c].arrived
  /\ cookie' = call[c].as
  /\ call' = [call EXCEPT ![c].arrived = TRUE]
  /\ raced' = (raced \/ \E d \in InFlight({"boot", "refresh", "first"}) : call[d].as # call[c].as)
  /\ kept' = (kept \/ (call[c].as # None /\ Swapped(call[c].as)))
  /\ UNCHANGED <<shown, loading, cached, hook, mishaps>>

\* ... and the page that asked goes on.
LoggedIn(c) ==
  /\ call[c].kind = "login" /\ call[c].arrived
  /\ Show(call[c].as)
  /\ Done(c)
  /\ kept' = (kept \/ Swapped(call[c].as) \/ call[c].as # cookie)
  /\ UNCHANGED <<cookie, cached, mishaps, raced>>

AfterSignup == Call("first", cookie, 0)
SignedUp(c) ==
  /\ call[c].kind = "signup" /\ call[c].arrived
  /\ call' = [call EXCEPT ![c] = AfterSignup]
  /\ UNCHANGED <<auth, cached, hook, mishaps, history>>

\* Mutant of AfterLogout: the token outlives the session.
StillThere == cached
AfterLogout == None
LoggedOut(c) ==
  /\ call[c].kind = "logout" /\ call[c].arrived
  /\ cached' = AfterLogout
  /\ Show(None)
  /\ Done(c)
  /\ kept' = (kept \/ InFlight({"token"}) # {})
  /\ UNCHANGED <<cookie, mishaps, raced>>

\* /me is answered: with the user the cookie named, or with 401.  After a signup a 401
\* is the error of the form.
GetMe(c) ==
  /\ c \in InFlight({"boot", "refresh", "first"})
  /\ IF call[c].kind = "first" /\ call[c].as = None
       THEN UNCHANGED <<shown, loading, hook>>
       ELSE Show(call[c].as)
  /\ Done(c)
  /\ kept' = (kept \/ Swapped(call[c].as) \/ call[c].as # cookie)
  /\ UNCHANGED <<cookie, cached, mishaps, raced>>

\* getChatAccessToken goes on, and the connect that waits for it: unless that is a thing
\* of the past.
\* Mutant of Current: nobody asks whether it is.
StillTheirs(n) == n # 0
Current(n) == n # 0 /\ n = session
GetToken(c) ==
  LET t == call[c] IN
  /\ t.kind = "token"
  /\ Done(c)
  /\ IF t.as = None
       THEN /\ UNCHANGED <<cached, sockets, ws>>
            /\ IF Current(t.for) THEN failed' = TRUE /\ error' = TRUE ELSE UNCHANGED <<failed, error>>
       ELSE /\ cached' = t.as
            /\ IF Current(t.for)
                 THEN /\ sockets' = sockets \cup {[session |-> t.for, owner |-> t.as]}
                      /\ ws' = t.for
                 ELSE UNCHANGED <<sockets, ws>>
            /\ UNCHANGED <<failed, error>>
  /\ UNCHANGED <<auth, panel, session, timer, attempts, mishaps, history>>

\* A call is refused, gets lost or takes more than 12 seconds.  A logout that fails clears
\* what it can.
CallFails(c) ==
  LET kind == call[c].kind IN
  /\ call[c] # Free /\ ~call[c].arrived
  /\ mishaps < MaxMishaps /\ mishaps' = mishaps + 1
  /\ Done(c)
  /\ cached' = IF kind = "logout" THEN AfterLogout ELSE cached
  /\ IF kind \in {"boot", "refresh", "logout"} THEN Show(None)
     ELSE /\ UNCHANGED <<shown, loading, panel, session, sockets, ws, timer, attempts>>
          /\ IF kind = "token" /\ Current(call[c].for) THEN failed' = TRUE /\ error' = TRUE
             ELSE UNCHANGED <<failed, error>>
  /\ raced' = (raced \/ kind \in {"boot", "refresh", "first", "logout"})
  /\ kept' = \/ kept
             \/ kind \in {"boot", "refresh"} /\ Swapped(None)
             \/ kind = "logout" /\ InFlight({"token"}) # {}
  /\ UNCHANGED cookie

\* A page load.
Load(c) ==
  /\ call' = Loaded(c)
  /\ shown' = None /\ loading' = TRUE /\ cached' = None
  /\ panel' = FALSE /\ session' = 0 /\ sockets' = {} /\ ws' = 0
  /\ timer' = FALSE /\ attempts' = 0 /\ failed' = FALSE /\ error' = FALSE
  /\ raced' = FALSE /\ kept' = FALSE
  /\ UNCHANGED <<cookie, mishaps>>

\* The page of the callback asks for /me a second time.
CallbackPage(c, d, u) ==
  [e \in Calls |-> IF e = c THEN Call("boot", u, 0) ELSE IF e = d THEN Call("refresh", u, 0) ELSE Free]

\* The return from an OAuth provider with a cookie for u.
OAuthReturn(c, d, u) ==
  /\ c # d
  /\ cookie' = u
  /\ call' = CallbackPage(c, d, u)
  /\ shown' = None /\ loading' = TRUE /\ cached' = None
  /\ panel' = FALSE /\ session' = 0 /\ sockets' = {} /\ ws' = 0
  /\ timer' = FALSE /\ attempts' = 0 /\ failed' = FALSE /\ error' = FALSE
  /\ raced' = FALSE /\ kept' = FALSE
  /\ UNCHANGED mishaps

----------------------------------------------------------------------------
Answered(c) ==
  Arrive(c) \/ LoggedIn(c) \/ SignedUp(c) \/ LoggedOut(c) \/ GetMe(c) \/ GetToken(c) \/ CallFails(c)
Asked(c) ==
  \/ Visit(c) \/ Reconnect(c) \/ Retry(c) \/ ChatFetch(c)
  \/ SubmitLogout(c) \/ Refresh(c) \/ Load(c)
  \/ \E u \in Users : SubmitLogin(c, u) \/ SubmitSignup(c, u) \/ \E d \in Calls : OAuthReturn(c, d, u)
Next ==
  \/ \E c \in Calls : Asked(c) \/ Answered(c)
  \/ \E s \in sockets : Opens(s) \/ Refused(s) \/ Warned(s) \/ Closes(s)
  \/ Leave

Spec == Init /\ [][Next]_vars

----------------------------------------------------------------------------
(* Properties.                                                             *)

\* However connects, retries, timers and closing panels overlap, the panel has at most one
\* socket with handlers, wsRef is that one, and a panel that is gone has none.
OneSocket ==
  /\ \A s \in sockets : s.session = session /\ ws = session
  /\ ws # 0 => panel /\ Cardinality(sockets) = 1

\* The panel chats as the user the tab shows: unless that user replaced another without a
\* logout, or a token was on its way at the logout.
ChatAsSignedIn == ~kept => \A s \in sockets : s.owner = shown

\* When no call is in flight, the tab shows the user whose cookie the browser has: unless
\* calls overlapped or one that matters failed.
ShownIsSignedIn == ~raced /\ (\A c \in Calls : call[c] = Free) => shown = cookie

\* One user is signed in to the tab and everything in it.
SignedInAgrees == ShownIsSignedIn /\ ChatAsSignedIn

\* A panel without a socket is about to get one or shows an error and Retry.
NeverSilentlyOffline ==
  panel /\ ws = 0 => timer \/ error \/ \E c \in InFlight({"token"}) : call[c].for = session
=============================================================================

------------------------------ MODULE Browser -------------------------------
(***************************************************************************)
(* Signing in as a browser keeps it: api-client.ts with the refresh its    *)
(* waiting calls share, the restore of auth-provider.tsx, login and logout *)
(* of use-auth.ts, and the refresh cookie, which all tabs share while each *)
(* has an access token and a user of its own.  Of the backend there is     *)
(* what auth.controller.ts answers; each answer is one step, its           *)
(* interleavings are Auth's.                                               *)
(*                                                                         *)
(* A session is its position in issued; its refresh token and the access   *)
(* token issued with it are known by that number too.  Calls travel and    *)
(* answers come back in any order, and any may be lost.                    *)
(***************************************************************************)
EXTENDS Integers, Sequences, FiniteSets

CONSTANTS
  Tabs,         \* the tabs of the browser
  Calls,        \* the slots a call in flight occupies
  Accounts,     \* the accounts that sign in
  Nobody,       \* not an account
  MaxCalls,     \* bound: calls ever begun by a tab or its user
  MaxSessions   \* bound: sessions ever issued

ASSUME AccountsAssumption == Accounts # {} /\ Nobody \notin Accounts
ASSUME BrowserBoundsAssumption == MaxCalls \in Nat /\ MaxSessions \in Nat

VARIABLES
  issued,  \* per session its account
  live,    \* the sessions not revoked or expired
  stale,   \* the access tokens that have run out
  cookie,  \* the refresh cookie of the browser; 0: none
  tab,     \* per tab the auth store, and refreshPromise with the refresh it stands for
  call,    \* the calls in flight
  begun,   \* calls begun so far
  mixed,   \* history: tabs whose cookie became another account's than they show or await
  met      \* history: logouts in flight that met another exchange of the cookie

backend == <<issued, live, stale>>
vars == <<backend, cookie, tab, call, begun, mixed, met>>

-----------------------------------------------------------------------------
(* The auth store and the page *)

NoRefresh == [pc |-> "none", cookie |-> 0, status |-> 0, grant |-> 0]
Fresh == [open |-> FALSE, initializing |-> TRUE, user |-> Nobody, access |-> 0,
          refresh |-> NoRefresh]

SetUser(store, u, a) ==  \* mutant of SetAuth: a token the store has stays
  [store EXCEPT !.user = u, !.access = IF @ = 0 THEN a ELSE @]

SetAuth(store, u, a) == [store EXCEPT !.user = u, !.access = a]
ClearAuth(store) == [store EXCEPT !.user = Nobody, !.access = 0]

\* DashboardLayout: the pages, once there is a user, the login page if there is none.
ShowsPages(t) == ~tab[t].initializing /\ tab[t].user # Nobody

-----------------------------------------------------------------------------
(* Calls through apiClient *)

Free == [pc |-> "free"]
InFlight == {c \in Calls : call[c].pc # "free"}

\* The request interceptor: the store's token, if it has one, before the call's own.
Authorization(t, own) == IF tab[t].access # 0 THEN tab[t].access ELSE own

New(t, op, u) ==
  [pc |-> "sent", tab |-> t, op |-> op, user |-> u, cookie |-> cookie,
   access |-> Authorization(t, 0), held |-> 0, retried |-> FALSE, status |-> 0, grant |-> 0]

Begin(c, t, op, u) ==
  /\ call[c] = Free /\ c = CHOOSE d \in Calls : call[d] = Free
  /\ begun < MaxCalls /\ begun' = begun + 1
  /\ call' = [call EXCEPT ![c] = New(t, op, u)]
  /\ UNCHANGED <<backend, cookie, mixed>>

\* AuthProvider mounts: restoreSession.
Open(c, t) ==
  /\ ~tab[t].open
  /\ tab' = [tab EXCEPT ![t].open = TRUE]
  /\ Begin(c, t, "restore", Nobody)

\* The login page asks nobody whether the tab is still initializing; its form waits
\* for the login it has sent.
Login(c, t, u) ==
  /\ tab[t].open
  /\ \A d \in InFlight : call[d].tab = t => call[d].op # "login"
  /\ Begin(c, t, "login", u)
  /\ UNCHANGED tab

Logout(c, t) == tab[t].open /\ ShowsPages(t) /\ Begin(c, t, "logout", Nobody) /\ UNCHANGED tab

\* A query of a page.
Get(c, t) == tab[t].open /\ ShowsPages(t) /\ Begin(c, t, "get", Nobody) /\ UNCHANGED tab

\* Reloaded or closed: what was under way is forgotten.
Close(t) ==
  /\ tab[t].open
  /\ tab' = [tab EXCEPT ![t] = Fresh]
  /\ call' = [c \in Calls |-> IF call[c].pc # "free" /\ call[c].tab = t THEN Free ELSE call[c]]
  /\ mixed' = mixed \ {t}
  /\ UNCHANGED <<backend, cookie, begun>>

-----------------------------------------------------------------------------
(* The backend's answers: 200, 401, or 0 for any other and for none *)

Grant(u) == Len(issued) < MaxSessions /\ issued' = Append(issued, u)

\* refresh: trades the cookie's session for the next.
Trade(c, next) ==
  IF c \in live
  THEN /\ Grant(issued[c]) /\ live' = (live \ {c}) \cup {Len(issued) + 1}
       /\ next = [status |-> 200, grant |-> Len(issued) + 1]
  ELSE /\ UNCHANGED <<issued, live>>
       /\ next = [status |-> 401, grant |-> 0]

RevokedNot(c) == live  \* mutant of Revoked: only the cookie is cleared

Revoked(c) == live \ {c}

Authorized(a) == a # 0 /\ a \notin stale

\* login, logout and the guarded rest.
Handle(c, answer) ==
  \/ /\ call[c].op = "restore"
     /\ Trade(call[c].cookie, answer)
  \/ /\ call[c].op = "login"
     /\ \/ /\ Grant(call[c].user) /\ live' = live \cup {Len(issued) + 1}
           /\ answer = [status |-> 200, grant |-> Len(issued) + 1]
        \/ UNCHANGED <<issued, live>> /\ answer = [status |-> 401, grant |-> 0]
  \/ /\ call[c].op \in {"logout", "me", "get"}
     /\ answer = [status |-> IF Authorized(call[c].access) THEN 200 ELSE 401, grant |-> 0]
     /\ live' = IF call[c].op = "logout" /\ answer.status = 200
                THEN Revoked(call[c].cookie) ELSE live
     /\ UNCHANGED issued

Serve(c) ==
  /\ call[c].pc = "sent"
  /\ \E status \in {200, 401}, grant \in 0 .. MaxSessions :
       /\ Handle(c, [status |-> status, grant |-> grant])
       /\ call' = [call EXCEPT ![c].pc = "back", ![c].status = status, ![c].grant = grant]
  /\ UNCHANGED <<stale, cookie, tab, begun, mixed>>

\* Before it was handled, or after, the session it made and the cookie with it.
Lose(c) ==
  /\ \/ call[c].pc = "sent"
     \/ call[c].pc = "back" /\ call[c].status = 200
  /\ call' = [call EXCEPT ![c].pc = "back", ![c].status = 0, ![c].grant = 0]
  /\ UNCHANGED <<backend, cookie, tab, begun, mixed>>

RefreshServe(t) ==
  /\ tab[t].refresh.pc = "sent"
  /\ \E status \in {200, 401}, grant \in 0 .. MaxSessions :
       /\ Trade(tab[t].refresh.cookie, [status |-> status, grant |-> grant])
       /\ tab' = [tab EXCEPT ![t].refresh.pc = "back", ![t].refresh.status = status,
                             ![t].refresh.grant = grant]
  /\ UNCHANGED <<stale, cookie, call, begun, mixed>>

RefreshLose(t) ==
  /\ \/ tab[t].refresh.pc = "sent"
     \/ tab[t].refresh.pc = "back" /\ tab[t].refresh.status = 200
  /\ tab' = [tab EXCEPT ![t].refresh.pc = "back", ![t].refresh.status = 0,
                        ![t].refresh.grant = 0]
  /\ UNCHANGED <<backend, cookie, call, begun, mixed>>

-----------------------------------------------------------------------------
(* Answers come back *)

\* The response interceptor: a first 401 of any call, a wrong password's too,
\* waits for the refresh under way, or for one it starts.
Wait(c) ==
  /\ call[c].pc = "back" /\ call[c].status = 401 /\ ~call[c].retried
  /\ call' = [call EXCEPT ![c].pc = "waiting", ![c].retried = TRUE]
  /\ tab' = IF tab[call[c].tab].refresh.pc # "none" THEN tab
            ELSE [tab EXCEPT ![call[c].tab].refresh =
                    [NoRefresh EXCEPT !.pc = "sent", !.cookie = cookie]]
  /\ UNCHANGED <<backend, cookie, begun, mixed>>

\* What a call that fails leaves of the store.
AfterFailure(store, op) ==
  CASE op \in {"restore", "me"} -> [ClearAuth(store) EXCEPT !.initializing = FALSE]
    [] op = "logout" -> ClearAuth(store)
    [] OTHER -> store

AfterSuccess(store, c) ==
  CASE c.op = "me" -> [SetAuth(store, issued[c.access], c.held) EXCEPT !.initializing = FALSE]
    [] c.op = "login" -> SetAuth(store, c.user, c.grant)
    [] c.op = "logout" -> ClearAuth(store)
    [] OTHER -> store

Entering(t) == {c \in InFlight : call[c].tab = t /\ call[c].op \in {"restore", "me"}}

\* The sessions a tab is being given: of its refresh, and of its restore.
Awaited(t) ==
  {tab[t].refresh.cookie, tab[t].refresh.grant}
    \cup UNION {IF call[c].op = "restore" THEN {call[c].cookie, call[c].grant}
                ELSE {call[c].access, call[c].held} : c \in Entering(t)}

\* The accounts a tab is about to show, and the one it does.
Expected(t) == {issued[s] : s \in Awaited(t) \ {0}}
Shown(t) == {tab[t].user} \ {Nobody}

\* The cookie becomes that of session s, which tab t was given.
TurnTo(s, t) ==
  /\ cookie' = s
  /\ mixed' = mixed \cup {o \in Tabs : ~(Expected(o) \subseteq {issued[s]})}
                  \cup {o \in Tabs \ {t} : ~(Shown(o) \subseteq {issued[s]})}

\* restoreSession goes on with the token it was given; every other call is settled.
Settle(c) ==
  LET t == call[c].tab
      ok == call[c].status = 200
      op == call[c].op
  IN  /\ call[c].pc = "back" /\ (call[c].status = 401 => call[c].retried)
      /\ IF ok /\ op \in {"restore", "login"} THEN TurnTo(call[c].grant, t)
         ELSE /\ cookie' = IF ok /\ op = "logout" THEN 0 ELSE cookie
              /\ UNCHANGED mixed
      /\ call' = [call EXCEPT ![c] =
                    IF ok /\ op = "restore"
                    THEN [New(t, "me", Nobody) EXCEPT !.held = call[c].grant,
                            !.access = Authorization(t, call[c].grant)]
                    ELSE Free]
      /\ tab' = [tab EXCEPT ![t] = IF ok THEN AfterSuccess(@, call[c]) ELSE AfterFailure(@, op)]
      /\ UNCHANGED <<backend, begun>>

Waiting(t) == {c \in InFlight : call[c].tab = t /\ call[c].pc = "waiting"}

\* Every waiter resumes before another answer is handled: each goes again, with the
\* token and the cookie there are now.
RefreshDone(t) ==
  LET next == tab[t].refresh.grant
  IN  /\ tab[t].refresh.pc = "back" /\ tab[t].refresh.status = 200
      /\ TurnTo(next, t)
      /\ tab' = [tab EXCEPT ![t].access = next, ![t].refresh = NoRefresh]
      /\ call' = [c \in Calls |->
                    IF c \in Waiting(t)
                    THEN [call[c] EXCEPT !.pc = "sent", !.cookie = next, !.access = next,
                                         !.status = 0, !.grant = 0]
                    ELSE call[c]]
      /\ UNCHANGED <<backend, begun>>

RejectedLost(status) == status = 0  \* mutant of Rejected: sent through apiClient,
                                    \* a refresh waits for the refresh under way

Rejected(status) == status # 200

\* clearAuth, and every waiter fails with the 401 it had.
RefreshFailed(t) ==
  /\ tab[t].refresh.pc = "back" /\ Rejected(tab[t].refresh.status)
  /\ tab' = [tab EXCEPT ![t] =
               [ClearAuth(@) EXCEPT !.refresh = NoRefresh,
                  !.initializing = tab[t].initializing /\ Waiting(t) \cap Entering(t) = {}]]
  /\ call' = [c \in Calls |-> IF c \in Waiting(t) THEN Free ELSE call[c]]
  /\ UNCHANGED <<backend, cookie, begun, mixed>>

-----------------------------------------------------------------------------
\* An access token runs out; a session ends by its time, or a login's or a reset's.
RunOut(a) ==
  /\ a \notin stale /\ \E t \in Tabs : tab[t].access = a
  /\ stale' = stale \cup {a}
  /\ UNCHANGED <<issued, live, cookie, tab, call, begun, mixed>>

EndSession(s) ==
  /\ s \in live /\ live' = live \ {s}
  /\ UNCHANGED <<issued, stale, cookie, tab, call, begun, mixed>>

\* All tabs are closed; a session of an earlier day there may be, live or not.
Init ==
  /\ issued = <<CHOOSE u \in Accounts : TRUE>>
  /\ live \in SUBSET {1} /\ stale = {}
  /\ cookie = 1
  /\ tab = [t \in Tabs |-> Fresh]
  /\ call = [c \in Calls |-> Free] /\ begun = 0
  /\ mixed = {} /\ met = {}

\* Exchanges of the cookie under way besides c, whose own refresh it waits for.
Exchanging == {c \in InFlight : call[c].op # "get" /\ call[c].pc # "waiting"}
Alone(c) ==
  /\ Exchanging \subseteq {c}
  /\ \A t \in Tabs : tab[t].refresh.pc # "none" => t = call[c].tab /\ call[c].pc = "waiting"
Logouts == {c \in InFlight : call[c].op = "logout"}
Meeting == {c \in Logouts : ~Alone(c)}
Watch == met' = (met \cap Logouts') \cup Meeting'

Move ==
  \/ \E c \in Calls, t \in Tabs :
       Open(c, t) \/ Logout(c, t) \/ Get(c, t) \/ \E u \in Accounts : Login(c, t, u)
  \/ \E c \in Calls : Serve(c) \/ Lose(c) \/ Wait(c) \/ Settle(c)
  \/ \E t \in Tabs :
       Close(t) \/ RefreshServe(t) \/ RefreshLose(t) \/ RefreshDone(t) \/ RefreshFailed(t)
  \/ \E s \in 1 .. Len(issued) : RunOut(s) \/ EndSession(s)

Next == Move /\ Watch

\* Every call is answered, or the browser gives it up; answers are handled.
Fairness ==
  /\ \A c \in Calls : WF_vars((Serve(c) \/ Lose(c) \/ Wait(c) \/ Settle(c)) /\ Watch)
  /\ \A t \in Tabs : WF_vars((RefreshServe(t) \/ RefreshLose(t) \/ RefreshDone(t)
                                \/ RefreshFailed(t)) /\ Watch)

Spec == Init /\ [][Next]_vars /\ Fairness

-----------------------------------------------------------------------------
\* A tab acts as the account it shows: the store's token is its user's, unless the
\* cookie it shares with other tabs became another account's while it showed one,
\* whose refresh is then the new account's and changes the token alone
\* (api-client.ts:27), or while a restore or a refresh of its own was under way
\* (auth-provider.tsx:24).
ActsAsShown ==
  \A t \in Tabs \ mixed :
    tab[t].user # Nobody /\ tab[t].access # 0 => issued[tab[t].access] = tab[t].user

\* A logout that is answered, and met no other call that carries the cookie, leaves
\* neither a cookie nor the session of the one there was, a refresh that its own
\* 401 caused included (auth.controller.ts:73).
LogoutEnds ==
  [][\A c \in Calls :
       /\ Settle(c) /\ call[c].op = "logout" /\ call[c].status = 200 /\ c \notin met
       => cookie' = 0 /\ cookie \notin live']_vars

\* Nothing waits for ever: every call ends, those that wait for a refresh too, and
\* with restoreSession's the initialising of its tab (api-client.ts:43).
CallsSettle == \A c \in Calls : call[c].pc # "free" ~> call[c].pc = "free"
=============================================================================

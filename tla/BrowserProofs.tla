---------------------------- MODULE BrowserProofs ---------------------------
(***************************************************************************)
(* What Browser guarantees for every number of tabs, accounts, calls and   *)
(* sessions: that a tab acts as the account it shows, and that an answered *)
(* logout ends the session.                                                *)
(***************************************************************************)
EXTENDS Browser, TLAPS

Statuses == {0, 200, 401}
Refreshes == [pc : {"none", "sent", "back"}, cookie : Nat, status : Statuses, grant : Nat]
Stores == [open : BOOLEAN, initializing : BOOLEAN, user : Accounts \cup {Nobody}, access : Nat,
           refresh : Refreshes]
Made == [pc : {"sent", "back", "waiting"}, tab : Tabs,
         op : {"restore", "login", "logout", "me", "get"}, user : Accounts \cup {Nobody},
         cookie : Nat, access : Nat, held : Nat, retried : BOOLEAN, status : Statuses, grant : Nat]

Past == 0 .. Len(issued)

\* What was traded for one session is of its account.
Traded(from, to) == to # 0 => from # 0 /\ issued[to] = issued[from]

GoodStore(s) ==
  /\ s.access \in Past /\ s.refresh.cookie \in Past /\ s.refresh.grant \in Past
  /\ Traded(s.refresh.cookie, s.refresh.grant)
  /\ s.refresh.status = 200 => s.refresh.grant # 0

GoodCall(k) ==
  /\ k.cookie \in Past /\ k.access \in Past /\ k.held \in Past /\ k.grant \in Past
  /\ k.op = "restore" => Traded(k.cookie, k.grant)
  /\ k.op = "login" => k.user \in Accounts /\ (k.grant # 0 => issued[k.grant] = k.user)
  /\ k.op = "me" => k.access # 0 /\ k.held # 0
  /\ k.op \in {"restore", "login"} /\ k.status = 200 => k.grant # 0

Of(t, c) == call[c].pc # "free" /\ call[c].tab = t

\* Every state component has its type, a session that is named was issued, and a
\* closed tab has nothing under way.
TypeInv ==
  /\ issued \in Seq(Accounts) /\ live \subseteq 1 .. Len(issued)
  /\ cookie \in Past
  /\ tab \in [Tabs -> Stores] /\ \A t \in Tabs : GoodStore(tab[t])
  /\ call \in [Calls -> {Free} \cup Made]
  /\ \A c \in Calls : call[c].pc # "free" => GoodCall(call[c])
  /\ \A t \in Tabs : ~tab[t].open => tab[t] = Fresh /\ \A c \in Calls : ~Of(t, c)

\* Sessions are only added.
Grow ==
  /\ issued' \in Seq(Accounts) /\ Len(issued) <= Len(issued')
  /\ \A s \in 1 .. Len(issued) : issued'[s] = issued[s]

LEMMA GoodStoreStays ==
  ASSUME TypeInv, Grow, NEW s \in Stores, GoodStore(s) PROVE GoodStore(s)'
<1>1. Past \subseteq Past' /\ \A n \in Past \ {0} : issued'[n] = issued[n]
  BY DEF Grow, Past, TypeInv
<1> QED BY <1>1 DEF GoodStore, Traded

LEMMA GoodCallStays ==
  ASSUME TypeInv, Grow, NEW k \in Made, GoodCall(k) PROVE GoodCall(k)'
<1>1. Past \subseteq Past' /\ \A n \in Past \ {0} : issued'[n] = issued[n]
  BY DEF Grow, Past, TypeInv
<1> QED BY <1>1 DEF GoodCall, Traded

\* What a step does not write stays well.
LEMMA Unwritten ==
  ASSUME TypeInv, Grow, NEW t \in Tabs
  PROVE  /\ tab'[t] = tab[t] => GoodStore(tab[t])'
         /\ \A c \in Calls : call[c].pc # "free" /\ call'[c] = call[c] => GoodCall(call[c])'
<1>1. ASSUME tab'[t] = tab[t] PROVE GoodStore(tab[t])'
  <2>1. PICK s \in Stores : s = tab[t] /\ GoodStore(s)
    BY DEF TypeInv
  <2> QED BY <1>1, <2>1, GoodStoreStays DEF GoodStore
<1>2. ASSUME NEW c \in Calls, call[c].pc # "free", call'[c] = call[c]
      PROVE  GoodCall(call[c])'
  <2>1. PICK k \in Made : k = call[c] /\ GoodCall(k)
    BY <1>2 DEF TypeInv, Free
  <2> QED BY <1>2, <2>1, GoodCallStays DEF GoodCall
<1> QED BY <1>1, <1>2

\* The step writes no tab but t and no call but t's, and those well.
Local(t) ==
  /\ live' \subseteq 1 .. Len(issued') /\ cookie' \in Past'
  /\ tab' \in [Tabs -> Stores] /\ GoodStore(tab[t])'
  /\ \A o \in Tabs : o # t => tab'[o] = tab[o]
  /\ call' \in [Calls -> {Free} \cup Made]
  /\ \A c \in Calls : Of(t, c)' => GoodCall(call[c])'
  /\ \A c \in Calls : \A o \in Tabs : o # t /\ Of(o, c)' => Of(o, c) /\ call'[c] = call[c]
  /\ tab'[t].open \/ (tab'[t] = Fresh /\ \A c \in Calls : ~Of(t, c)')

LEMMA StepTypes ==
  ASSUME TypeInv, Grow, NEW t \in Tabs, Local(t)
  PROVE  TypeInv'
<1> USE DEF Local
<1>1. ASSUME NEW o \in Tabs PROVE GoodStore(tab[o])'
  BY Unwritten
<1>2. ASSUME NEW c \in Calls, call'[c].pc # "free" PROVE GoodCall(call[c])'
  <2>1. CASE Of(t, c)'
    BY <2>1
  <2>2. CASE ~Of(t, c)'
    <3>1. PICK o \in Tabs : o = call'[c].tab
      BY <1>2 DEF Made, Free
    <3>2. call'[c] = call[c] /\ call[c].pc # "free"
      BY <1>2, <2>2, <3>1 DEF Of
    <3> QED BY <3>2, Unwritten
  <2> QED BY <2>1, <2>2
<1>3. ASSUME NEW o \in Tabs, ~tab'[o].open
      PROVE  tab'[o] = Fresh /\ \A c \in Calls : ~Of(o, c)'
  BY <1>3 DEF TypeInv
<1> QED BY <1>1, <1>2, <1>3 DEF Grow, TypeInv

-----------------------------------------------------------------------------
(* One account *)

Is(s, a) == s # 0 => issued[s] = a

\* A restore that may succeed, or what follows it.
Entered(t) ==
  \E c \in Calls : /\ Of(t, c)
                    /\ \/ call[c].op = "me"
                       \/ call[c].op = "restore" /\ call[c].cookie # 0

CallIs(k, a) ==
  /\ k.op = "restore" => Is(k.cookie, a) /\ Is(k.grant, a)
  /\ k.op = "me" => Is(k.access, a) /\ Is(k.held, a)

\* All that tab t shows and awaits is of account a, and so is the browser's cookie.
Agrees(t, a) ==
  /\ tab[t].user \in {a, Nobody}
  /\ Is(tab[t].refresh.cookie, a) /\ Is(tab[t].refresh.grant, a)
  /\ \A c \in Calls : Of(t, c) => CallIs(call[c], a)
  /\ tab[t].user # Nobody \/ Entered(t) => Is(tab[t].access, a)
  /\ Is(cookie, a)

Match == \A t \in Tabs \ mixed : \E a \in Accounts : Agrees(t, a)

\* Tab t shows and awaits no more than before, but for what a session it awaits is
\* traded for.
Less(t) ==
  /\ tab'[t].user \in {tab[t].user, Nobody} /\ tab'[t].access \in {tab[t].access, 0}
  /\ tab'[t].refresh.cookie \in {tab[t].refresh.cookie, cookie, 0}
  /\ cookie' \in {cookie, 0}
  /\ \A c \in Calls : Of(t, c)' /\ call'[c].op \in {"restore", "me"} =>
       /\ Of(t, c) /\ call'[c].op = call[c].op /\ call'[c].cookie = call[c].cookie
       /\ call'[c].access = call[c].access /\ call'[c].held = call[c].held

\* The accounts of sessions issued stay.
LEMMA IsStays ==
  ASSUME TypeInv, Grow, NEW s \in Past, NEW a, Is(s, a) PROVE Is(s, a)'
BY DEF TypeInv, Grow, Past, Is

\* Of a call it names only sessions issued.
LEMMA CallTypes ==
  ASSUME TypeInv, NEW t \in Tabs, NEW c \in Calls, Of(t, c)
  PROVE  call[c] \in Made /\ GoodCall(call[c])
BY DEF TypeInv, Of, Free

LEMMA StoreTypes ==
  ASSUME TypeInv, NEW t \in Tabs
  PROVE  tab[t] \in Stores /\ tab[t].refresh \in Refreshes /\ GoodStore(tab[t])
BY DEF TypeInv, Stores

LEMMA LessAgrees ==
  ASSUME TypeInv, TypeInv', Grow, NEW t \in Tabs, NEW a, Agrees(t, a), Less(t)
  PROVE  Agrees(t, a)'
<1>0. Is(0, a)'
  BY DEF Is
<1>1. GoodStore(tab[t]) /\ cookie \in Past
  BY DEF TypeInv
<1>2. \A s \in {tab[t].refresh.cookie, cookie} : Is(s, a)'
  BY <1>1, IsStays DEF Agrees, GoodStore
<1>3. /\ Is(tab[t].refresh.cookie, a)' /\ Is(tab[t].refresh.grant, a)' /\ Is(cookie, a)'
  <2>1. Is(tab[t].refresh.cookie, a)' /\ Is(cookie, a)'
    BY <1>0, <1>2 DEF Less, Is
  <2>2. Traded(tab[t].refresh.cookie, tab[t].refresh.grant)'
    BY DEF TypeInv, GoodStore
  <2> QED BY <2>1, <2>2 DEF Is, Traded
<1>4. ASSUME NEW c \in Calls, Of(t, c)' PROVE CallIs(call[c], a)'
  <2>1. CASE call'[c].op \notin {"restore", "me"}
    BY <2>1 DEF CallIs
  <2>2. CASE call'[c].op \in {"restore", "me"}
    <3>1. /\ Of(t, c) /\ call'[c].op = call[c].op /\ call'[c].cookie = call[c].cookie
          /\ call'[c].access = call[c].access /\ call'[c].held = call[c].held
      BY <1>4, <2>2 DEF Less
    <3>2. CallIs(call[c], a) /\ GoodCall(call[c])
      BY <3>1, CallTypes DEF Agrees
    <3> PICK k : k = call[c]
      OBVIOUS
    <3>3. /\ k.op = "restore" => Is(k.cookie, a)'
          /\ k.op = "me" => Is(k.access, a)' /\ Is(k.held, a)'
      BY <3>2, IsStays DEF CallIs, GoodCall
    <3>4. call'[c].op = "restore" => Traded(call[c].cookie, call[c].grant)'
      BY <1>4 DEF TypeInv, GoodCall, Of
    <3> QED BY <3>1, <3>3, <3>4 DEF CallIs, Is, Traded
  <2> QED BY <2>1, <2>2
<1>5. Entered(t)' => Entered(t)
  BY DEF Entered, Less
<1>6. tab'[t].user # Nobody \/ Entered(t)' => Is(tab[t].access, a)'
  <2>1. ASSUME tab[t].user # Nobody \/ Entered(t) PROVE Is(tab[t].access, a)'
    <3>1. PICK s \in Past : s = tab[t].access
      BY <1>1 DEF GoodStore
    <3>2. Is(s, a)'
      BY <2>1, <3>1, IsStays DEF Agrees
    <3> QED BY <1>0, <3>1, <3>2 DEF Less, Is
  <2> QED BY <1>5, <2>1 DEF Less
<1>7. tab'[t].user \in {a, Nobody}
  BY DEF Agrees, Less
<1> QED BY <1>3, <1>4, <1>6, <1>7 DEF Agrees

LEMMA LessMatch ==
  ASSUME TypeInv, TypeInv', Grow, Match, mixed \subseteq mixed', \A t \in Tabs : Less(t)
  PROVE  Match'
BY LessAgrees DEF Match

LEMMA SameGrow == ASSUME TypeInv, UNCHANGED issued PROVE Grow
BY DEF TypeInv, Grow

-----------------------------------------------------------------------------
(* Calls begin and end *)

\* A call begun carries what the browser and its tab have.
LEMMA Begun ==
  ASSUME TypeInv, NEW c \in Calls, NEW t \in Tabs,
         NEW op \in {"restore", "login", "logout", "get"}, NEW u \in Accounts \cup {Nobody},
         op = "login" => u \in Accounts, Begin(c, t, op, u)
  PROVE  /\ Grow /\ UNCHANGED <<issued, live, stale, cookie, mixed>>
         /\ call' \in [Calls -> {Free} \cup Made] /\ call[c].pc = "free"
         /\ \A d \in Calls : d # c => call'[d] = call[d]
         /\ call'[c].pc = "sent" /\ call'[c].tab = t /\ call'[c].op = op
         /\ call'[c].cookie = cookie /\ call'[c].grant = 0 /\ call'[c].status = 0
         /\ GoodCall(call[c])'
<1>1. UNCHANGED <<issued, live, stale, cookie, mixed>> /\ call[c].pc = "free"
  BY DEF Begin, backend, Free
<1> DEFINE k == New(t, op, u)
<1>2. Authorization(t, 0) \in Past /\ cookie \in Past /\ 0 \in Past
  BY StoreTypes DEF TypeInv, GoodStore, Authorization, Past
<1>3. Past \subseteq Nat
  BY DEF Past
<1>4. /\ k \in Made /\ k.pc = "sent" /\ k.tab = t /\ k.op = op /\ k.user = u /\ k.cookie = cookie
      /\ k.grant = 0 /\ k.status = 0 /\ k.access \in Past /\ k.held = 0
  BY <1>2, <1>3 DEF New, Made, Statuses
<1>5. call' = [call EXCEPT ![c] = k]
  BY DEF Begin
<1> HIDE DEF k
<1>6. /\ call' \in [Calls -> {Free} \cup Made]
      /\ call'[c] = k /\ \A d \in Calls : d # c => call'[d] = call[d]
  BY <1>4, <1>5 DEF TypeInv
<1>7. GoodCall(call[c])'
  BY <1>1, <1>2, <1>4, <1>6 DEF GoodCall, Traded, Past
<1> QED BY <1>1, <1>4, <1>6, <1>7, SameGrow

LEMMA RequestInv ==
  ASSUME TypeInv, Match, NEW c \in Calls, NEW t \in Tabs,
         Logout(c, t) \/ Get(c, t) \/ \E u \in Accounts : Login(c, t, u)
  PROVE  TypeInv' /\ Match'
<1>1. PICK op \in {"login", "logout", "get"}, u \in Accounts \cup {Nobody} :
        (op = "login" => u \in Accounts) /\ Begin(c, t, op, u)
  BY DEF Logout, Get, Login
<1>2. UNCHANGED tab /\ tab[t].open
  BY DEF Logout, Get, Login
<1>3. /\ Grow /\ UNCHANGED <<issued, live, stale, cookie, mixed>>
      /\ call' \in [Calls -> {Free} \cup Made] /\ call[c].pc = "free"
      /\ \A d \in Calls : d # c => call'[d] = call[d]
      /\ call'[c].tab = t /\ call'[c].op = op /\ GoodCall(call[c])'
  BY <1>1, Begun
<1>4. TypeInv'
  <2>1. GoodStore(tab[t])'
    BY <1>2, <1>3 DEF TypeInv, GoodStore, Past, Traded
  <2>2. \A d \in Calls : Of(t, d)' => GoodCall(call[d])'
    BY <1>3 DEF TypeInv, Of, GoodCall, Past, Traded
  <2>3. /\ live' \subseteq 1 .. Len(issued') /\ cookie' \in Past'
        /\ tab' \in [Tabs -> Stores] /\ \A o \in Tabs : o # t => tab'[o] = tab[o]
        /\ \A d \in Calls : \A o \in Tabs : o # t /\ Of(o, d)' => Of(o, d) /\ call'[d] = call[d]
    BY <1>2, <1>3 DEF TypeInv, Past, Of
  <2>4. Local(t)
    BY <1>2, <1>3, <2>1, <2>2, <2>3 DEF Local
  <2> QED BY <1>3, <2>4, StepTypes
<1>5. \A o \in Tabs : Less(o)
  BY <1>2, <1>3 DEF Less, Of
<1> QED BY <1>3, <1>4, <1>5, LessMatch

LEMMA OpenInv ==
  ASSUME TypeInv, Match, NEW c \in Calls, NEW t \in Tabs, Open(c, t)
  PROVE  TypeInv' /\ Match'
<1>1. Begin(c, t, "restore", Nobody) /\ ~tab[t].open /\ tab' = [tab EXCEPT ![t].open = TRUE]
  BY DEF Open
<1>2. /\ Grow /\ UNCHANGED <<issued, live, stale, cookie, mixed>>
      /\ call' \in [Calls -> {Free} \cup Made] /\ call[c].pc = "free"
      /\ \A d \in Calls : d # c => call'[d] = call[d]
      /\ call'[c].pc = "sent" /\ call'[c].tab = t /\ call'[c].op = "restore"
      /\ call'[c].cookie = cookie /\ call'[c].grant = 0 /\ GoodCall(call[c])'
  BY <1>1, Begun
<1>3. tab[t] = Fresh /\ \A d \in Calls : ~Of(t, d)
  BY <1>1 DEF TypeInv
<1>4. /\ tab' \in [Tabs -> Stores] /\ \A o \in Tabs : o # t => tab'[o] = tab[o]
      /\ tab'[t].open /\ tab'[t].user = Nobody /\ tab'[t].access = 0
      /\ tab'[t].refresh = NoRefresh
  <2> DEFINE x == [Fresh EXCEPT !.open = TRUE]
  <2>1. tab' = [tab EXCEPT ![t] = x]
    BY <1>1, <1>3
  <2>2. /\ x \in Stores /\ x.open /\ x.user = Nobody /\ x.access = 0 /\ x.refresh = NoRefresh
    BY DEF Fresh, NoRefresh, Stores, Refreshes, Statuses
  <2> HIDE DEF x
  <2> QED BY <2>1, <2>2 DEF TypeInv
<1>5. TypeInv'
  <2>1. GoodStore(tab[t])'
    BY <1>4 DEF GoodStore, Past, Traded, NoRefresh, TypeInv, Grow
  <2>2. \A d \in Calls : Of(t, d)' => GoodCall(call[d])'
    BY <1>2, <1>3 DEF Of
  <2>3. /\ live' \subseteq 1 .. Len(issued') /\ cookie' \in Past'
        /\ \A d \in Calls : \A o \in Tabs : o # t /\ Of(o, d)' => Of(o, d) /\ call'[d] = call[d]
    BY <1>2 DEF TypeInv, Past, Of
  <2>4. Local(t)
    BY <1>2, <1>4, <2>1, <2>2, <2>3 DEF Local
  <2> QED BY <1>2, <2>4, StepTypes
<1>6. ASSUME NEW o \in Tabs \ mixed' PROVE \E a \in Accounts : Agrees(o, a)'
  <2>1. PICK a \in Accounts : Agrees(o, a)
    BY <1>2, <1>6 DEF Match
  <2>2. CASE o # t
    <3>1. Less(o)
      BY <1>2, <1>4, <2>2 DEF Less, Of
    <3> QED BY <1>2, <1>5, <2>1, <3>1, LessAgrees
  <2>3. CASE o = t
    <3>1. Is(cookie, a)'
      BY <1>2, <2>1 DEF Agrees, Is
    <3>2. \A d \in Calls : Of(t, d)' => CallIs(call[d], a)'
      BY <1>2, <1>3, <3>1 DEF Of, CallIs, Is
    <3> QED BY <1>4, <2>3, <3>1, <3>2 DEF Agrees, Is, NoRefresh
  <2> QED BY <2>2, <2>3
<1> QED BY <1>5, <1>6 DEF Match

LEMMA CloseInv ==
  ASSUME TypeInv, Match, NEW t \in Tabs, Close(t) PROVE TypeInv' /\ Match'
<1>1. /\ UNCHANGED <<issued, live, cookie>> /\ Grow /\ mixed' = mixed \ {t}
      /\ tab' = [tab EXCEPT ![t] = Fresh]
      /\ call' = [c \in Calls |-> IF call[c].pc # "free" /\ call[c].tab = t THEN Free ELSE call[c]]
  BY SameGrow DEF Close, backend
<1>2. Fresh \in Stores /\ Fresh.access = 0 /\ Fresh.user = Nobody /\ Fresh.refresh = NoRefresh
  BY DEF Fresh, NoRefresh, Stores, Refreshes, Statuses
<1>3. /\ tab' \in [Tabs -> Stores] /\ tab'[t] = Fresh /\ \A o \in Tabs : o # t => tab'[o] = tab[o]
      /\ call' \in [Calls -> {Free} \cup Made] /\ \A c \in Calls : ~Of(t, c)'
      /\ \A c \in Calls : \A o \in Tabs : o # t /\ Of(o, c)' => Of(o, c) /\ call'[c] = call[c]
  BY <1>1, <1>2 DEF TypeInv, Of, Free
<1>4. TypeInv'
  <2>1. GoodStore(tab[t])'
    BY <1>2, <1>3 DEF GoodStore, Past, Traded, NoRefresh, TypeInv, Grow
  <2>2. Local(t)
    BY <1>1, <1>3, <2>1 DEF Local, TypeInv, Past
  <2> QED BY <1>1, <2>2, StepTypes
<1>5. ASSUME NEW o \in Tabs \ mixed' PROVE \E a \in Accounts : Agrees(o, a)'
  <2>1. CASE o # t
    <3>1. PICK a \in Accounts : Agrees(o, a)
      BY <1>1, <1>5, <2>1 DEF Match
    <3>2. Less(o)
      BY <1>1, <1>3, <2>1 DEF Less
    <3> QED BY <1>1, <1>4, <3>1, <3>2, LessAgrees
  <2>2. CASE o = t
    <3>1. PICK a \in Accounts : Is(cookie, a)
      BY AccountsAssumption DEF TypeInv, Past, Is
    <3>2. Is(cookie, a)'
      BY <1>1, <3>1 DEF Is
    <3> QED BY <1>2, <1>3, <2>2, <3>2 DEF Agrees, Is, NoRefresh, Entered
  <2> QED BY <2>1, <2>2
<1> QED BY <1>4, <1>5 DEF Match

-----------------------------------------------------------------------------
(* Answers *)

LEMMA Granted ==
  ASSUME TypeInv, NEW u \in Accounts, Grant(u)
  PROVE  /\ Grow /\ issued'[Len(issued) + 1] = u
         /\ Len(issued) + 1 \in Past' /\ Len(issued) + 1 # 0
         /\ \A L : L \subseteq live \cup {Len(issued) + 1} => L \subseteq 1 .. Len(issued')
<1>1. /\ Grow /\ Len(issued') = Len(issued) + 1 /\ Len(issued) \in Nat
      /\ issued'[Len(issued) + 1] = u
  BY DEF TypeInv, Grant, Grow
<1>2. \A s \in live : s \in 1 .. Len(issued')
  BY <1>1 DEF TypeInv
<1> QED BY <1>1, <1>2 DEF Past

LEMMA Trades ==
  ASSUME TypeInv, NEW from \in Past, NEW status \in {200, 401}, NEW g \in Nat,
         Trade(from, [status |-> status, grant |-> g])
  PROVE  /\ Grow /\ live' \subseteq 1 .. Len(issued') /\ g \in Past'
         /\ Traded(from, g)' /\ (status = 200 => g # 0)
<1>1. CASE from \in live
  <2>1. from \in 1 .. Len(issued) /\ issued[from] \in Accounts
    BY <1>1 DEF TypeInv
  <2>2. Grant(issued[from]) /\ live' = (live \ {from}) \cup {Len(issued) + 1}
        /\ g = Len(issued) + 1
    BY <1>1 DEF Trade
  <2>3. /\ Grow /\ issued'[g] = issued[from] /\ g \in Past' /\ g # 0
        /\ live' \subseteq 1 .. Len(issued')
    <3>1. live' \subseteq live \cup {Len(issued) + 1}
      BY <2>2
    <3> QED BY <2>1, <2>2, <3>1, Granted
  <2>4. Traded(from, g)'
    BY <2>1, <2>3 DEF Traded, Grow
  <2> QED BY <2>3, <2>4
<1>2. CASE from \notin live
  <2>1. UNCHANGED <<issued, live>> /\ g = 0 /\ status = 401
    BY <1>2 DEF Trade
  <2>2. 0 \in Past' /\ Traded(from, 0)'
    BY <2>1 DEF TypeInv, Past, Traded
  <2> QED BY <2>1, <2>2, SameGrow DEF TypeInv
<1> QED BY <1>1, <1>2

\* An answer is written to its call.
LEMMA Answered ==
  ASSUME TypeInv, NEW c \in Calls, call[c].pc # "free", NEW status \in Statuses, NEW g \in Nat,
         call' = [call EXCEPT ![c].pc = "back", ![c].status = status, ![c].grant = g]
  PROVE  /\ call[c] \in Made /\ call' \in [Calls -> {Free} \cup Made]
         /\ \A d \in Calls : d # c => call'[d] = call[d]
         /\ call'[c].pc = "back" /\ call'[c].status = status /\ call'[c].grant = g
         /\ call'[c].tab = call[c].tab /\ call'[c].op = call[c].op
         /\ call'[c].user = call[c].user /\ call'[c].cookie = call[c].cookie
         /\ call'[c].access = call[c].access /\ call'[c].held = call[c].held
<1>1. call[c] \in Made
  BY DEF TypeInv, Free
<1> DEFINE k == [call[c] EXCEPT !.pc = "back", !.status = status, !.grant = g]
<1>2. /\ k \in Made /\ k.pc = "back" /\ k.status = status /\ k.grant = g
      /\ k.tab = call[c].tab /\ k.op = call[c].op /\ k.user = call[c].user
      /\ k.cookie = call[c].cookie /\ k.access = call[c].access /\ k.held = call[c].held
  BY <1>1 DEF Made
<1>3. call' = [call EXCEPT ![c] = k]
  OBVIOUS
<1> HIDE DEF k
<1> QED BY <1>1, <1>2, <1>3 DEF TypeInv

LEMMA ServeInv ==
  ASSUME TypeInv, Match, NEW c \in Calls, Serve(c) PROVE TypeInv' /\ Match'
<1>1. PICK status \in {200, 401}, g \in 0 .. MaxSessions :
        /\ Handle(c, [status |-> status, grant |-> g])
        /\ call' = [call EXCEPT ![c].pc = "back", ![c].status = status, ![c].grant = g]
  BY DEF Serve
<1>2. UNCHANGED <<cookie, tab, mixed>> /\ call[c].pc = "sent"
  BY DEF Serve
<1>3. status \in Statuses /\ g \in Nat
  BY BrowserBoundsAssumption DEF Statuses
<1>4. /\ call[c] \in Made /\ call' \in [Calls -> {Free} \cup Made]
      /\ \A d \in Calls : d # c => call'[d] = call[d]
      /\ call'[c].pc = "back" /\ call'[c].status = status /\ call'[c].grant = g
      /\ call'[c].tab = call[c].tab /\ call'[c].op = call[c].op
      /\ call'[c].user = call[c].user /\ call'[c].cookie = call[c].cookie
      /\ call'[c].access = call[c].access /\ call'[c].held = call[c].held
  BY <1>1, <1>2, <1>3, Answered
<1>5. GoodCall(call[c]) /\ call[c].tab \in Tabs
  BY <1>2, <1>4 DEF TypeInv, Made
<1> PICK k \in Made, t \in Tabs : k = call[c] /\ t = call[c].tab
  BY <1>4, <1>5
<1>6. /\ Grow /\ live' \subseteq 1 .. Len(issued') /\ g \in Past'
      /\ k.op = "restore" => Traded(k.cookie, g)'
      /\ k.op = "login" /\ g # 0 => issued'[g] = k.user
      /\ k.op \in {"restore", "login"} /\ status = 200 => g # 0
  <2>1. CASE k.op = "restore"
    <3>1. Trade(k.cookie, [status |-> status, grant |-> g]) /\ k.cookie \in Past
      BY <1>1, <1>5, <2>1 DEF Handle, GoodCall
    <3> QED BY <1>3, <2>1, <3>1, Trades
  <2>2. CASE k.op = "login"
    <3>1. k.user \in Accounts
      BY <1>5, <2>2 DEF GoodCall
    <3>2. CASE Grant(k.user) /\ live' = live \cup {Len(issued) + 1} /\ g = Len(issued) + 1
      <4>1. /\ Grow /\ issued'[g] = k.user /\ g \in Past' /\ g # 0
            /\ live' \subseteq 1 .. Len(issued')
        BY <3>1, <3>2, Granted
      <4> QED BY <2>2, <4>1
    <3>3. CASE UNCHANGED <<issued, live>> /\ g = 0 /\ status = 401
      BY <2>2, <3>3, SameGrow DEF TypeInv, Past
    <3> QED BY <1>1, <2>2, <3>2, <3>3 DEF Handle
  <2>3. CASE k.op \in {"logout", "me", "get"}
    <3>1. UNCHANGED issued /\ live' \subseteq live /\ g = 0
      BY <1>1, <2>3 DEF Handle, Revoked
    <3> QED BY <2>3, <3>1, SameGrow DEF TypeInv, Past
  <2> QED BY <2>1, <2>2, <2>3 DEF Made
<1>7. TypeInv'
  <2>1. GoodCall(k)' /\ tab[t] \in Stores /\ GoodStore(tab[t]) /\ tab[t].open
    BY <1>2, <1>5, <1>6, GoodCallStays DEF TypeInv, Of
  <2>2. GoodCall(call[c])'
    BY <1>4, <1>6, <2>1 DEF GoodCall
  <2>3. GoodStore(tab[t])'
    BY <1>2, <1>6, Unwritten
  <2>4. \A d \in Calls : d # c /\ Of(t, d)' => GoodCall(call[d])'
    BY <1>4, <1>6, Unwritten DEF Of
  <2>5. Local(t)
    BY <1>2, <1>4, <1>6, <2>1, <2>2, <2>3, <2>4 DEF Local, TypeInv, Of, Grow, Past
  <2> QED BY <1>6, <2>5, StepTypes
<1>8. \A o \in Tabs : Less(o)
  BY <1>2, <1>4 DEF Less, Of
<1> QED BY <1>2, <1>6, <1>7, <1>8, LessMatch

LEMMA LoseInv ==
  ASSUME TypeInv, Match, NEW c \in Calls, Lose(c) PROVE TypeInv' /\ Match'
<1>1. /\ UNCHANGED <<issued, live, cookie, tab, mixed>> /\ call[c].pc # "free" /\ Grow
      /\ call' = [call EXCEPT ![c].pc = "back", ![c].status = 0, ![c].grant = 0]
  BY SameGrow DEF Lose, backend
<1>2. /\ call[c] \in Made /\ call' \in [Calls -> {Free} \cup Made]
      /\ \A d \in Calls : d # c => call'[d] = call[d]
      /\ call'[c].pc = "back" /\ call'[c].status = 0 /\ call'[c].grant = 0
      /\ call'[c].tab = call[c].tab /\ call'[c].op = call[c].op
      /\ call'[c].user = call[c].user /\ call'[c].cookie = call[c].cookie
      /\ call'[c].access = call[c].access /\ call'[c].held = call[c].held
  BY <1>1, Answered DEF Statuses
<1> PICK k \in Made, t \in Tabs : k = call[c] /\ t = call[c].tab
  BY <1>2 DEF Made
<1>3. TypeInv'
  <2>1. GoodCall(k)' /\ tab[t].open
    BY <1>1, GoodCallStays DEF TypeInv, Of
  <2>2. GoodCall(call[c])'
    BY <1>1, <1>2, <2>1 DEF GoodCall, Traded, Past, TypeInv
  <2>3. GoodStore(tab[t])' /\ \A d \in Calls : d # c /\ Of(t, d)' => GoodCall(call[d])'
    BY <1>1, <1>2, Unwritten DEF Of
  <2>4. Local(t)
    BY <1>1, <1>2, <2>1, <2>2, <2>3 DEF Local, TypeInv, Of, Past
  <2> QED BY <1>1, <2>4, StepTypes
<1>4. \A o \in Tabs : Less(o)
  BY <1>1, <1>2 DEF Less, Of
<1> QED BY <1>1, <1>3, <1>4, LessMatch

\* What a refresh of a tab brings back changes nothing else of the tab.
LEMMA RefreshAnswered ==
  ASSUME TypeInv, NEW t \in Tabs, NEW status \in Statuses, NEW g \in Nat,
         tab' = [tab EXCEPT ![t].refresh.pc = "back", ![t].refresh.status = status,
                            ![t].refresh.grant = g]
  PROVE  /\ tab' \in [Tabs -> Stores] /\ \A o \in Tabs : o # t => tab'[o] = tab[o]
         /\ tab'[t].refresh.status = status /\ tab'[t].refresh.grant = g
         /\ tab'[t].refresh.cookie = tab[t].refresh.cookie
         /\ tab'[t].user = tab[t].user /\ tab'[t].access = tab[t].access
         /\ tab'[t].open = tab[t].open
<1> DEFINE f == [tab[t].refresh EXCEPT !.pc = "back", !.status = status, !.grant = g]
           x == [tab[t] EXCEPT !.refresh = f]
<1>1. tab[t] \in Stores /\ tab[t].refresh \in Refreshes
  BY StoreTypes
<1>2. /\ f \in Refreshes /\ f.status = status /\ f.grant = g
      /\ f.cookie = tab[t].refresh.cookie
  BY <1>1 DEF Refreshes
<1>3. tab' = [tab EXCEPT ![t] = x]
  BY <1>1 DEF TypeInv, Stores, Refreshes
<1> HIDE DEF f
<1>4. /\ x \in Stores /\ x.refresh = f /\ x.user = tab[t].user /\ x.access = tab[t].access
      /\ x.open = tab[t].open
  BY <1>1, <1>2 DEF Stores
<1> HIDE DEF x
<1> QED BY <1>2, <1>3, <1>4 DEF TypeInv

LEMMA RefreshServeInv ==
  ASSUME TypeInv, Match, NEW t \in Tabs, RefreshServe(t) \/ RefreshLose(t)
  PROVE  TypeInv' /\ Match'
<1>1. UNCHANGED <<cookie, call, mixed>> /\ tab[t].refresh.pc \in {"sent", "back"}
  BY DEF RefreshServe, RefreshLose
<1>2. tab[t].open
  BY <1>1 DEF TypeInv, Fresh, NoRefresh
<1> DEFINE Came(status, g) ==
             /\ tab' = [tab EXCEPT ![t].refresh.pc = "back", ![t].refresh.status = status,
                                   ![t].refresh.grant = g]
             /\ Grow /\ live' \subseteq 1 .. Len(issued') /\ g \in Past'
             /\ g # 0 => /\ tab[t].refresh.cookie # 0
                         /\ issued'[g] = issued'[tab[t].refresh.cookie]
             /\ status = 200 => g # 0
<1>3. PICK status \in Statuses, g \in Nat : Came(status, g)
  <2>1. CASE RefreshServe(t)
    <3>1. PICK status \in {200, 401}, g \in 0 .. MaxSessions :
            /\ Trade(tab[t].refresh.cookie, [status |-> status, grant |-> g])
            /\ tab' = [tab EXCEPT ![t].refresh.pc = "back", ![t].refresh.status = status,
                                  ![t].refresh.grant = g]
      BY <2>1 DEF RefreshServe
    <3>2. PICK from \in Past : from = tab[t].refresh.cookie
      BY DEF TypeInv, GoodStore
    <3>3. status \in Statuses /\ g \in Nat
      BY BrowserBoundsAssumption DEF Statuses
    <3>4. /\ Grow /\ live' \subseteq 1 .. Len(issued') /\ g \in Past'
          /\ Traded(from, g)' /\ (status = 200 => g # 0)
      BY <3>1, <3>2, <3>3, Trades
    <3>5. Came(status, g)
      BY <3>1, <3>2, <3>4 DEF Traded
    <3> HIDE DEF Came
    <3> QED BY <3>3, <3>5
  <2>2. CASE RefreshLose(t)
    <3>1. /\ UNCHANGED <<issued, live>> /\ Grow
          /\ tab' = [tab EXCEPT ![t].refresh.pc = "back", ![t].refresh.status = 0,
                                ![t].refresh.grant = 0]
      BY <2>2, SameGrow DEF RefreshLose, backend
    <3>2. 0 \in Past' /\ live' \subseteq 1 .. Len(issued')
      BY <3>1 DEF TypeInv, Past
    <3>3. Came(0, 0)
      BY <3>1, <3>2
    <3> HIDE DEF Came
    <3> QED BY <3>3 DEF Statuses
  <2> QED BY <2>1, <2>2
<1>4. /\ tab' \in [Tabs -> Stores] /\ \A o \in Tabs : o # t => tab'[o] = tab[o]
      /\ tab'[t].refresh.status = status /\ tab'[t].refresh.grant = g
      /\ tab'[t].refresh.cookie = tab[t].refresh.cookie
      /\ tab'[t].user = tab[t].user /\ tab'[t].access = tab[t].access
      /\ tab'[t].open = tab[t].open
  BY <1>3, RefreshAnswered
<1>5. TypeInv'
  <2>1. GoodStore(tab[t])'
    <3>1. PICK s \in Stores : s = tab[t]
      BY StoreTypes
    <3>2. GoodStore(s)'
      BY <1>3, <3>1, GoodStoreStays DEF TypeInv
    <3> QED BY <1>3, <1>4, <3>1, <3>2 DEF GoodStore, Traded
  <2>2. \A d \in Calls : Of(t, d)' => GoodCall(call[d])'
    BY <1>1, <1>3, Unwritten DEF Of
  <2>3. Local(t)
    BY <1>1, <1>2, <1>3, <1>4, <2>1, <2>2 DEF Local, TypeInv, Of, Grow, Past
  <2> QED BY <1>3, <2>3, StepTypes
<1>6. \A o \in Tabs : Less(o)
  BY <1>1, <1>4 DEF Less, Of
<1> QED BY <1>1, <1>3, <1>5, <1>6, LessMatch

-----------------------------------------------------------------------------
(* Answers come back *)

\* One tab's store is written.
LEMMA Stored ==
  ASSUME TypeInv, NEW t \in Tabs, NEW x \in Stores, tab' = [tab EXCEPT ![t] = x]
  PROVE  /\ tab' \in [Tabs -> Stores] /\ tab'[t] = x
         /\ \A o \in Tabs : o # t => tab'[o] = tab[o]
BY DEF TypeInv

\* A call waits, and is otherwise what it was.
LEMMA Delayed ==
  ASSUME TypeInv, NEW c \in Calls, call[c].pc # "free",
         call' = [call EXCEPT ![c].pc = "waiting", ![c].retried = TRUE]
  PROVE  /\ call' \in [Calls -> {Free} \cup Made]
         /\ \A d \in Calls : d # c => call'[d] = call[d]
         /\ call'[c].pc = "waiting" /\ call'[c].tab = call[c].tab /\ call'[c].op = call[c].op
         /\ call'[c].user = call[c].user /\ call'[c].cookie = call[c].cookie
         /\ call'[c].access = call[c].access /\ call'[c].held = call[c].held
         /\ call'[c].status = call[c].status /\ call'[c].grant = call[c].grant
<1>1. call[c] \in Made
  BY DEF TypeInv, Free
<1> DEFINE w == [call[c] EXCEPT !.pc = "waiting", !.retried = TRUE]
<1>2. /\ w \in Made /\ w.pc = "waiting" /\ w.tab = call[c].tab /\ w.op = call[c].op
      /\ w.user = call[c].user /\ w.cookie = call[c].cookie /\ w.access = call[c].access
      /\ w.held = call[c].held /\ w.status = call[c].status /\ w.grant = call[c].grant
  BY <1>1 DEF Made
<1>3. call' = [call EXCEPT ![c] = w]
  OBVIOUS
<1> HIDE DEF w
<1> QED BY <1>1, <1>2, <1>3 DEF TypeInv

LEMMA WaitInv ==
  ASSUME TypeInv, Match, NEW c \in Calls, Wait(c) PROVE TypeInv' /\ Match'
<1>1. /\ UNCHANGED <<issued, live, cookie, mixed>> /\ Grow
      /\ call[c].pc = "back" /\ call[c].status = 401
      /\ call' = [call EXCEPT ![c].pc = "waiting", ![c].retried = TRUE]
  BY SameGrow DEF Wait, backend
<1>2. call[c] \in Made /\ GoodCall(call[c])
  BY <1>1 DEF TypeInv, Free
<1>3. /\ call' \in [Calls -> {Free} \cup Made]
      /\ \A d \in Calls : d # c => call'[d] = call[d]
      /\ call'[c].pc = "waiting" /\ call'[c].tab = call[c].tab /\ call'[c].op = call[c].op
      /\ call'[c].user = call[c].user /\ call'[c].cookie = call[c].cookie
      /\ call'[c].access = call[c].access /\ call'[c].held = call[c].held
      /\ call'[c].status = call[c].status /\ call'[c].grant = call[c].grant
  BY <1>1, Delayed
<1> PICK k \in Made, t \in Tabs : k = call[c] /\ t = call[c].tab
  BY <1>2 DEF Made
<1>6. tab[t] \in Stores /\ GoodStore(tab[t]) /\ tab[t].open
  BY <1>1, StoreTypes DEF TypeInv, Of
<1>7. /\ tab' \in [Tabs -> Stores] /\ \A o \in Tabs : o # t => tab'[o] = tab[o]
      /\ tab'[t].user = tab[t].user /\ tab'[t].access = tab[t].access
      /\ tab'[t].open
      /\ \/ tab'[t].refresh = tab[t].refresh
         \/ /\ tab'[t].refresh.cookie = cookie /\ tab'[t].refresh.grant = 0
            /\ tab'[t].refresh.status = 0
  <2>1. CASE tab[t].refresh.pc # "none"
    BY <1>1, <1>6, <2>1 DEF Wait, TypeInv
  <2>2. CASE tab[t].refresh.pc = "none"
    <3> DEFINE f == [NoRefresh EXCEPT !.pc = "sent", !.cookie = cookie]
               x == [tab[t] EXCEPT !.refresh = f]
    <3>1. f \in Refreshes /\ f.cookie = cookie /\ f.grant = 0 /\ f.status = 0
      <4>1. cookie \in Nat
        BY DEF TypeInv, Past
      <4> QED BY <4>1 DEF NoRefresh, Refreshes, Statuses
    <3>2. tab' = [tab EXCEPT ![t] = x]
      BY <2>2 DEF Wait
    <3> HIDE DEF f
    <3>3. /\ x \in Stores /\ x.user = tab[t].user /\ x.access = tab[t].access
          /\ x.open = tab[t].open /\ x.refresh = f
      BY <1>6, <3>1 DEF Stores
    <3> HIDE DEF x
    <3> QED BY <1>6, <3>1, <3>2, <3>3, Stored
  <2> QED BY <2>1, <2>2
<1>8. TypeInv'
  <2>1. GoodStore(tab[t])'
    BY <1>1, <1>6, <1>7 DEF GoodStore, Traded, Past, TypeInv
  <2>2. GoodCall(call[c])'
    BY <1>1, <1>2, <1>3 DEF GoodCall, Traded, Past
  <2>3. \A d \in Calls : d # c /\ Of(t, d)' => GoodCall(call[d])'
    BY <1>1, <1>3, Unwritten DEF Of
  <2>4. Local(t)
    BY <1>1, <1>3, <1>7, <2>1, <2>2, <2>3 DEF Local, TypeInv, Of, Past
  <2> QED BY <1>1, <2>4, StepTypes
<1>9. \A o \in Tabs : Less(o)
  BY <1>1, <1>3, <1>7 DEF Less, Of
<1> QED BY <1>1, <1>8, <1>9, LessMatch

LEMMA Cleared ==
  ASSUME NEW s \in Stores, NEW b \in BOOLEAN
  PROVE  /\ ClearAuth(s) \in Stores /\ ClearAuth(s).user = Nobody /\ ClearAuth(s).access = 0
         /\ ClearAuth(s).refresh = s.refresh /\ ClearAuth(s).open = s.open
         /\ [ClearAuth(s) EXCEPT !.initializing = b] \in Stores
         /\ [ClearAuth(s) EXCEPT !.initializing = b].user = Nobody
         /\ [ClearAuth(s) EXCEPT !.initializing = b].access = 0
         /\ [ClearAuth(s) EXCEPT !.initializing = b].refresh = s.refresh
         /\ [ClearAuth(s) EXCEPT !.initializing = b].open = s.open
BY DEF ClearAuth, Stores

LEMMA RefreshFailedInv ==
  ASSUME TypeInv, Match, NEW t \in Tabs, RefreshFailed(t) PROVE TypeInv' /\ Match'
<1>1. /\ UNCHANGED <<issued, live, cookie, mixed>> /\ Grow /\ tab[t].refresh.pc = "back"
      /\ call' = [c \in Calls |-> IF c \in Waiting(t) THEN Free ELSE call[c]]
  BY SameGrow DEF RefreshFailed, backend
<1>2. tab[t] \in Stores /\ GoodStore(tab[t]) /\ tab[t].open
  BY <1>1, StoreTypes DEF TypeInv, Fresh, NoRefresh
<1>3. NoRefresh \in Refreshes /\ NoRefresh.cookie = 0 /\ NoRefresh.grant = 0
      /\ NoRefresh.status = 0
  BY DEF NoRefresh, Refreshes, Statuses
<1>4. /\ tab' \in [Tabs -> Stores] /\ \A o \in Tabs : o # t => tab'[o] = tab[o]
      /\ tab'[t].user = Nobody /\ tab'[t].access = 0 /\ tab'[t].refresh = NoRefresh
      /\ tab'[t].open
  <2> DEFINE b == tab[t].initializing /\ Waiting(t) \cap Entering(t) = {}
             x == [ClearAuth(tab[t]) EXCEPT !.refresh = NoRefresh, !.initializing = b]
  <2>1. tab' = [tab EXCEPT ![t] = x]
    BY DEF RefreshFailed
  <2> HIDE DEF b
  <2>2. b \in BOOLEAN
    BY DEF b
  <2>3. PICK y \in Stores : /\ y = ClearAuth(tab[t]) /\ y.user = Nobody /\ y.access = 0
                           /\ y.open = tab[t].open
    BY <1>2, Cleared
  <2>4. /\ x \in Stores /\ x.user = Nobody /\ x.access = 0 /\ x.refresh = NoRefresh
        /\ x.open = tab[t].open
    BY <1>3, <2>2, <2>3 DEF Stores
  <2> HIDE DEF x
  <2> QED BY <1>2, <2>1, <2>4, Stored
<1>5. /\ call' \in [Calls -> {Free} \cup Made]
      /\ \A c \in Calls : \A o \in Tabs :
           Of(o, c)' => Of(o, c) /\ call'[c] = call[c]
      /\ \A c \in Calls : \A o \in Tabs : o # t /\ Of(o, c) => call'[c] = call[c]
  BY <1>1 DEF TypeInv, Of, Waiting, Free
<1>6. TypeInv'
  <2>1. GoodStore(tab[t])'
    BY <1>1, <1>3, <1>4 DEF GoodStore, Traded, Past, TypeInv
  <2>2. \A c \in Calls : Of(t, c)' => GoodCall(call[c])'
    BY <1>1, <1>5, Unwritten DEF Of
  <2>3. Local(t)
    BY <1>1, <1>4, <1>5, <2>1, <2>2 DEF Local, TypeInv, Past
  <2> QED BY <1>1, <2>3, StepTypes
<1>7. \A o \in Tabs : Less(o)
  BY <1>1, <1>3, <1>4, <1>5 DEF Less
<1> QED BY <1>1, <1>6, <1>7, LessMatch

LEMMA TimeInv ==
  ASSUME TypeInv, Match, UNCHANGED <<issued, cookie, tab, call, mixed>>, live' \subseteq live
  PROVE  TypeInv' /\ Match'
<1>1. Grow
  BY SameGrow
<1>2. TypeInv'
  BY DEF TypeInv, GoodStore, GoodCall, Traded, Past, Of
<1>3. \A o \in Tabs : Less(o)
  BY DEF Less, Of
<1> QED BY <1>1, <1>2, <1>3, LessMatch

\* What a settled call leaves of its tab's store.
LEMMA AfterTypes ==
  ASSUME TypeInv, NEW s \in Stores, s.access \in Past, NEW k \in Made, GoodCall(k)
  PROVE  /\ AfterFailure(s, k.op) \in Stores
         /\ AfterFailure(s, k.op).user \in {s.user, Nobody}
         /\ AfterFailure(s, k.op).access \in {s.access, 0}
         /\ AfterFailure(s, k.op).refresh = s.refresh /\ AfterFailure(s, k.op).open = s.open
         /\ AfterSuccess(s, k) \in Stores /\ AfterSuccess(s, k).access \in Past
         /\ AfterSuccess(s, k).refresh = s.refresh /\ AfterSuccess(s, k).open = s.open
         /\ k.op \in {"get", "logout"} => /\ AfterSuccess(s, k).user \in {s.user, Nobody}
                                          /\ AfterSuccess(s, k).access \in {s.access, 0}
         /\ k.op = "restore" => AfterSuccess(s, k) = s
         /\ k.op = "login" => /\ AfterSuccess(s, k).user = k.user
                              /\ AfterSuccess(s, k).access = k.grant
         /\ k.op = "me" => /\ AfterSuccess(s, k).user = issued[k.access]
                           /\ AfterSuccess(s, k).access = k.held
<1>1. 0 \in Past /\ Past \subseteq Nat
  BY DEF Past, TypeInv
<1>2. CASE k.op = "restore"
  BY <1>1, <1>2, Cleared DEF AfterFailure, AfterSuccess
<1>3. CASE k.op = "get"
  BY <1>1, <1>3 DEF AfterFailure, AfterSuccess
<1>4. CASE k.op = "logout"
  BY <1>1, <1>4, Cleared DEF AfterFailure, AfterSuccess
<1>5. CASE k.op = "login"
  <2>1. AfterFailure(s, k.op) = s /\ AfterSuccess(s, k) = SetAuth(s, k.user, k.grant)
    BY <1>5 DEF AfterFailure, AfterSuccess
  <2>2. k.user \in Accounts /\ k.grant \in Past
    BY <1>5 DEF GoodCall
  <2> QED BY <1>1, <1>5, <2>1, <2>2 DEF SetAuth, Stores
<1>6. CASE k.op = "me"
  <2> DEFINE u == issued[k.access]
  <2>1. u \in Accounts /\ k.held \in Past
    BY <1>6 DEF GoodCall, Past, TypeInv
  <2>2. /\ AfterFailure(s, k.op) = [ClearAuth(s) EXCEPT !.initializing = FALSE]
        /\ AfterSuccess(s, k) = [SetAuth(s, u, k.held) EXCEPT !.initializing = FALSE]
    BY <1>6 DEF AfterFailure, AfterSuccess
  <2> HIDE DEF u
  <2>3. /\ AfterSuccess(s, k) \in Stores /\ AfterSuccess(s, k).user = u
        /\ AfterSuccess(s, k).access = k.held /\ AfterSuccess(s, k).refresh = s.refresh
        /\ AfterSuccess(s, k).open = s.open
    BY <1>1, <2>1, <2>2 DEF SetAuth, Stores
  <2>4. /\ AfterFailure(s, k.op) \in Stores /\ AfterFailure(s, k.op).user = Nobody
        /\ AfterFailure(s, k.op).access = 0 /\ AfterFailure(s, k.op).refresh = s.refresh
        /\ AfterFailure(s, k.op).open = s.open
    BY <2>2, Cleared
  <2>5. k.op = "me" /\ u = issued[k.access]
    BY <1>6 DEF u
  <2> QED BY <2>1, <2>3, <2>4, <2>5
<1> QED BY <1>2, <1>3, <1>4, <1>5, <1>6 DEF Made

\* When the cookie becomes session s's, the account of s is that of all that a tab
\* awaits and shows, unless it counts as mixed.
LEMMA TurnedTo ==
  ASSUME TypeInv, Match, NEW s \in Past \ {0}, NEW t \in Tabs, TurnTo(s, t),
         NEW o \in Tabs \ mixed'
  PROVE  /\ o \notin mixed /\ issued[s] \in Accounts /\ cookie' = s
         /\ Is(tab[o].refresh.cookie, issued[s]) /\ Is(tab[o].refresh.grant, issued[s])
         /\ \A c \in Calls : Of(o, c) => CallIs(call[c], issued[s])
         /\ o # t => tab[o].user \in {issued[s], Nobody}
         /\ Entered(o) => tab[o].user \in {issued[s], Nobody}
         /\ (o # t /\ tab[o].user # Nobody) \/ Entered(o) => Is(tab[o].access, issued[s])
<1> DEFINE a == issued[s]
<1>1. /\ o \notin mixed /\ cookie' = s /\ Expected(o) \subseteq {a}
      /\ o # t => Shown(o) \subseteq {a}
  BY DEF TurnTo
<1>2. a \in Accounts
  BY DEF TypeInv, Past
<1>3. \A r \in Awaited(o) : Is(r, a)
  BY <1>1 DEF Expected, Is
<1> HIDE DEF a
<1>4. Is(tab[o].refresh.cookie, a) /\ Is(tab[o].refresh.grant, a)
  BY <1>3 DEF Awaited
<1>5. ASSUME NEW c \in Calls, Of(o, c) PROVE CallIs(call[c], a)
  <2>1. call[c].op \in {"restore", "me"} => c \in Entering(o)
    BY <1>5 DEF Of, Entering, InFlight
  <2>2. CASE call[c].op = "restore"
    <3>1. {call[c].cookie, call[c].grant} \subseteq Awaited(o)
      BY <2>1, <2>2 DEF Awaited
    <3> QED BY <1>3, <2>2, <3>1 DEF CallIs
  <2>3. CASE call[c].op = "me"
    <3>1. {call[c].access, call[c].held} \subseteq Awaited(o)
      BY <2>1, <2>3 DEF Awaited
    <3> QED BY <1>3, <2>3, <3>1 DEF CallIs
  <2> QED BY <2>2, <2>3 DEF CallIs
<1>6. o # t => tab[o].user \in {a, Nobody}
  BY <1>1 DEF Shown
<1>7. PICK b \in Accounts : Agrees(o, b)
  BY <1>1 DEF Match
<1>8. ASSUME Entered(o) PROVE a = b
  <2>1. PICK c \in Calls : /\ Of(o, c)
                           /\ \/ call[c].op = "me"
                              \/ call[c].op = "restore" /\ call[c].cookie # 0
    BY <1>8 DEF Entered
  <2>2. CallIs(call[c], a) /\ CallIs(call[c], b) /\ GoodCall(call[c])
    BY <1>5, <1>7, <2>1, CallTypes DEF Agrees
  <2> QED BY <2>1, <2>2 DEF CallIs, Is, GoodCall
<1>9. ASSUME o # t, tab[o].user # Nobody PROVE a = b
  BY <1>6, <1>7, <1>9 DEF Agrees
<1> QED BY <1>1, <1>2, <1>4, <1>5, <1>6, <1>7, <1>8, <1>9 DEF a, Agrees

\* What settling a call writes.
LEMMA Settled ==
  ASSUME TypeInv, NEW c \in Calls, NEW k \in Made, NEW t \in Tabs, k = call[c], t = k.tab,
         Settle(c)
  PROVE  /\ GoodCall(k) /\ GoodStore(tab[t]) /\ tab[t].access \in Past /\ tab[t].open
         /\ Grow /\ UNCHANGED <<issued, live>> /\ cookie' \in Past /\ cookie \in Past
         /\ IF k.status = 200 /\ k.op \in {"restore", "login"}
            THEN k.grant \in Past \ {0} /\ TurnTo(k.grant, t)
            ELSE UNCHANGED mixed /\ cookie' \in {cookie, 0}
         /\ tab' \in [Tabs -> Stores] /\ \A o \in Tabs : o # t => tab'[o] = tab[o]
         /\ tab'[t].refresh = tab[t].refresh /\ tab'[t].open /\ tab'[t].access \in Past
         /\ ~(k.status = 200 /\ k.op \in {"restore", "login", "me"})
              => tab'[t].user \in {tab[t].user, Nobody} /\ tab'[t].access \in {tab[t].access, 0}
         /\ k.status = 200 /\ k.op = "restore" => tab'[t] = tab[t]
         /\ k.status = 200 /\ k.op = "login" => tab'[t].user = k.user /\ tab'[t].access = k.grant
         /\ k.status = 200 /\ k.op = "me"
              => tab'[t].user = issued[k.access] /\ tab'[t].access = k.held
         /\ call' \in [Calls -> {Free} \cup Made] /\ \A d \in Calls : d # c => call'[d] = call[d]
         /\ \/ call'[c].pc = "free"
            \/ /\ k.status = 200 /\ k.op = "restore" /\ call'[c].tab = t /\ call'[c].op = "me"
               /\ call'[c].cookie = cookie /\ call'[c].held = k.grant /\ call'[c].grant = 0
               /\ call'[c].access = IF tab[t].access # 0 THEN tab[t].access ELSE k.grant
<1>1. GoodCall(k) /\ call[c].pc = "back"
  BY DEF Settle, TypeInv, Free
<1>2. GoodStore(tab[t]) /\ tab[t].access \in Past /\ tab[t].open /\ tab[t] \in Stores
  BY <1>1, StoreTypes DEF TypeInv, GoodStore, Of
<1>3. /\ Grow /\ UNCHANGED <<issued, live>>
      /\ IF k.status = 200 /\ k.op \in {"restore", "login"}
         THEN k.grant \in Past \ {0} /\ TurnTo(k.grant, t)
         ELSE UNCHANGED mixed /\ cookie' \in {cookie, 0}
  BY <1>1, SameGrow DEF Settle, GoodCall, backend
<1>4. cookie' \in Past /\ cookie \in Past /\ 0 \in Past /\ Past \subseteq Nat
  BY <1>3 DEF TurnTo, TypeInv, Past
<1> DEFINE x == IF k.status = 200 THEN AfterSuccess(tab[t], k) ELSE AfterFailure(tab[t], k.op)
           a == Authorization(t, k.grant)
           m == [New(t, "me", Nobody) EXCEPT !.held = k.grant, !.access = a]
           r == IF k.status = 200 /\ k.op = "restore" THEN m ELSE Free
<1>5. tab' = [tab EXCEPT ![t] = x] /\ call' = [call EXCEPT ![c] = r]
  BY DEF Settle
<1>6. /\ x \in Stores /\ x.refresh = tab[t].refresh /\ x.open /\ x.access \in Past
      /\ ~(k.status = 200 /\ k.op \in {"restore", "login", "me"})
           => x.user \in {tab[t].user, Nobody} /\ x.access \in {tab[t].access, 0}
      /\ k.status = 200 /\ k.op = "restore" => x = tab[t]
      /\ k.status = 200 /\ k.op = "login" => x.user = k.user /\ x.access = k.grant
      /\ k.status = 200 /\ k.op = "me" => x.user = issued[k.access] /\ x.access = k.held
  <2>1. CASE k.status = 200
    <3>1. x = AfterSuccess(tab[t], k)
      BY <2>1
    <3> HIDE DEF x
    <3>2. k.op \in {"restore", "login", "me", "get", "logout"}
      BY DEF Made
    <3> QED BY <1>1, <1>2, <2>1, <3>1, <3>2, AfterTypes
  <2>2. CASE k.status # 200
    <3>1. x = AfterFailure(tab[t], k.op)
      BY <2>2
    <3> HIDE DEF x
    <3>2. x.access \in {tab[t].access, 0}
      BY <1>1, <1>2, <3>1, AfterTypes
    <3> QED BY <1>1, <1>2, <1>4, <2>2, <3>1, <3>2, AfterTypes
  <2> QED BY <2>1, <2>2
<1>7. /\ m \in Made /\ m.tab = t /\ m.op = "me" /\ m.cookie = cookie /\ m.held = k.grant
      /\ m.grant = 0 /\ m.access = IF tab[t].access # 0 THEN tab[t].access ELSE k.grant
  <2>1. a = IF tab[t].access # 0 THEN tab[t].access ELSE k.grant
    BY DEF Authorization
  <2>2. a \in Nat /\ Authorization(t, 0) \in Nat /\ cookie \in Nat /\ k.grant \in Nat
    BY <1>2, <1>4 DEF Authorization, Made
  <2> HIDE DEF a
  <2>3. /\ New(t, "me", Nobody) \in Made /\ New(t, "me", Nobody).tab = t
        /\ New(t, "me", Nobody).op = "me" /\ New(t, "me", Nobody).cookie = cookie
        /\ New(t, "me", Nobody).grant = 0
    BY <2>2 DEF New, Made, Statuses
  <2> QED BY <2>1, <2>2, <2>3 DEF Made
<1> HIDE DEF x, m
<1>8. /\ tab' \in [Tabs -> Stores] /\ tab'[t] = x /\ \A o \in Tabs : o # t => tab'[o] = tab[o]
  BY <1>5, <1>6 DEF TypeInv
<1>9. /\ call' \in [Calls -> {Free} \cup Made] /\ call'[c] = r
      /\ \A d \in Calls : d # c => call'[d] = call[d]
  BY <1>5, <1>7 DEF TypeInv
<1>10. \/ call'[c].pc = "free"
       \/ call'[c] = m /\ k.status = 200 /\ k.op = "restore"
  BY <1>9 DEF Free
<1> HIDE DEF r
<1> QED BY <1>1, <1>2, <1>3, <1>4, <1>6, <1>7, <1>8, <1>9, <1>10

LEMMA SettleInv ==
  ASSUME TypeInv, Match, NEW c \in Calls, Settle(c) PROVE TypeInv' /\ Match'
<1>1. PICK k \in Made, t \in Tabs : k = call[c] /\ t = k.tab /\ Of(t, c)
  BY DEF Settle, TypeInv, Free, Made, Of
<1>2. /\ GoodCall(k) /\ GoodStore(tab[t]) /\ tab[t].access \in Past /\ tab[t].open
      /\ Grow /\ UNCHANGED <<issued, live>> /\ cookie' \in Past /\ cookie \in Past
      /\ tab' \in [Tabs -> Stores] /\ \A o \in Tabs : o # t => tab'[o] = tab[o]
      /\ tab'[t].refresh = tab[t].refresh /\ tab'[t].open /\ tab'[t].access \in Past
      /\ call' \in [Calls -> {Free} \cup Made] /\ \A d \in Calls : d # c => call'[d] = call[d]
  BY <1>1, Settled
<1>3. /\ ~(k.status = 200 /\ k.op \in {"restore", "login", "me"})
           => tab'[t].user \in {tab[t].user, Nobody} /\ tab'[t].access \in {tab[t].access, 0}
      /\ k.status = 200 /\ k.op = "restore" => tab'[t] = tab[t]
      /\ k.status = 200 /\ k.op = "login" => tab'[t].user = k.user /\ tab'[t].access = k.grant
      /\ k.status = 200 /\ k.op = "me"
           => tab'[t].user = issued[k.access] /\ tab'[t].access = k.held
  BY <1>1, Settled
<1>4. IF k.status = 200 /\ k.op \in {"restore", "login"}
      THEN k.grant \in Past \ {0} /\ TurnTo(k.grant, t)
      ELSE UNCHANGED mixed /\ cookie' \in {cookie, 0}
  BY <1>1, Settled
<1>5. \/ call'[c].pc = "free"
      \/ /\ k.status = 200 /\ k.op = "restore" /\ call'[c].tab = t /\ call'[c].op = "me"
         /\ call'[c].cookie = cookie /\ call'[c].held = k.grant /\ call'[c].grant = 0
         /\ call'[c].access = IF tab[t].access # 0 THEN tab[t].access ELSE k.grant
  BY <1>1, Settled
<1>6. \A d \in Calls : \A o \in Tabs : o # t /\ Of(o, d)' => Of(o, d) /\ call'[d] = call[d]
  BY <1>2, <1>5 DEF Of
<1>7. TypeInv'
  <2>1. GoodStore(tab[t])'
    BY <1>2 DEF GoodStore, Past, Traded
  <2>2. Of(t, c)' => GoodCall(call[c])'
    BY <1>1, <1>2, <1>4, <1>5 DEF GoodCall, Past, Of
  <2>3. \A d \in Calls : d # c /\ Of(t, d)' => GoodCall(call[d])'
    BY <1>2, Unwritten DEF Of
  <2>4. Local(t)
    BY <1>2, <1>6, <2>1, <2>2, <2>3 DEF Local, TypeInv, Past
  <2> QED BY <1>2, <2>4, StepTypes
<1>8. CASE ~(k.status = 200 /\ k.op \in {"restore", "login", "me"})
  <2>1. \A d \in Calls : \A o \in Tabs : Of(o, d)' => Of(o, d) /\ call'[d] = call[d]
    BY <1>2, <1>5, <1>8 DEF Of
  <2>2. \A o \in Tabs : Less(o)
    BY <1>2, <1>3, <1>4, <1>8, <2>1 DEF Less
  <2> QED BY <1>2, <1>4, <1>7, <1>8, <2>2, LessMatch
<1>9. \A s, a : Is(s, a)' <=> Is(s, a)
  BY <1>2 DEF Is
<1>10. CASE k.status = 200 /\ k.op = "me"
  <2>1. k.access \in Past \ {0} /\ k.held # 0 /\ UNCHANGED mixed /\ cookie' \in {cookie, 0}
    BY <1>2, <1>4, <1>10 DEF GoodCall
  <2>2. \A d \in Calls : \A o \in Tabs : Of(o, d)' => Of(o, d) /\ call'[d] = call[d]
    BY <1>2, <1>5, <1>10 DEF Of
  <2>3. ASSUME NEW o \in Tabs \ mixed' PROVE \E a \in Accounts : Agrees(o, a)'
    <3>1. PICK a \in Accounts : Agrees(o, a)
      BY <2>1, <2>3 DEF Match
    <3>2. CASE o # t
      <4>1. Less(o)
        BY <1>2, <2>1, <2>2, <3>2 DEF Less
      <4> QED BY <1>2, <1>7, <3>1, <4>1, LessAgrees
    <3>3. CASE o = t
      <4>1. CallIs(k, a)
        BY <1>1, <3>1, <3>3 DEF Agrees
      <4>2. tab'[t].user = a /\ Is(tab'[t].access, a)
        BY <1>3, <1>10, <2>1, <4>1 DEF CallIs, Is
      <4>3. \A d \in Calls : Of(t, d)' => CallIs(call[d], a)'
        <5>1. \A d \in Calls : Of(t, d)' => CallIs(call'[d], a)
          BY <2>2, <3>1, <3>3 DEF Agrees
        <5> QED BY <1>9, <5>1 DEF CallIs
      <4>4. /\ Is(tab'[t].refresh.cookie, a) /\ Is(tab'[t].refresh.grant, a) /\ Is(cookie', a)
        BY <1>2, <2>1, <3>1, <3>3 DEF Agrees, Is
      <4> QED BY <1>9, <3>3, <4>2, <4>3, <4>4 DEF Agrees
    <3> QED BY <3>2, <3>3
  <2> QED BY <1>7, <2>3 DEF Match
<1>11. CASE k.status = 200 /\ k.op \in {"restore", "login"}
  <2>1. k.grant \in Past \ {0} /\ TurnTo(k.grant, t)
    BY <1>4, <1>11
  <2> PICK a \in Accounts : a = issued[k.grant]
    BY <2>1 DEF TypeInv, Past
  <2>2. ASSUME NEW o \in Tabs \ mixed' PROVE Agrees(o, a)'
    <3>1. /\ o \notin mixed /\ cookie' = k.grant
          /\ Is(tab[o].refresh.cookie, a) /\ Is(tab[o].refresh.grant, a)
          /\ \A d \in Calls : Of(o, d) => CallIs(call[d], a)
          /\ o # t => tab[o].user \in {a, Nobody}
          /\ Entered(o) => tab[o].user \in {a, Nobody}
          /\ (o # t /\ tab[o].user # Nobody) \/ Entered(o) => Is(tab[o].access, a)
      BY <2>1, <2>2, TurnedTo
    <3>2. Is(k.grant, a)
      BY DEF Is
    <3>3. Is(cookie, a)'
      BY <1>9, <3>1, <3>2
    <3>4. /\ Is(tab'[o].refresh.cookie, a) /\ Is(tab'[o].refresh.grant, a)
      BY <1>2, <3>1
    <3>5. CASE o # t
      <4>1. tab'[o] = tab[o] /\ \A d \in Calls : Of(o, d)' => Of(o, d) /\ call'[d] = call[d]
        BY <1>2, <1>6, <3>5
      <4>2. \A d \in Calls : Of(o, d)' => CallIs(call[d], a)'
        <5>1. \A d \in Calls : Of(o, d)' => CallIs(call'[d], a)
          BY <3>1, <4>1
        <5> QED BY <1>9, <5>1 DEF CallIs
      <4>3. Entered(o)' => Entered(o)
        BY <4>1 DEF Entered
      <4>4. tab'[o].user # Nobody \/ Entered(o)' => Is(tab'[o].access, a)
        BY <3>1, <3>5, <4>1, <4>3
      <4> QED BY <1>9, <3>1, <3>3, <3>4, <3>5, <4>1, <4>2, <4>4 DEF Agrees
    <3>6. CASE o = t /\ k.op = "restore"
      <4>1. k.cookie # 0
        BY <1>2, <1>11, <2>1, <3>6 DEF GoodCall, Traded
      <4>2. Entered(t)
        BY <1>1, <3>6, <4>1 DEF Entered
      <4>3. tab'[t] = tab[t] /\ tab[t].user \in {a, Nobody} /\ Is(tab[t].access, a)
        BY <1>3, <1>11, <3>1, <3>6, <4>2
      <4>4. ASSUME NEW d \in Calls, Of(t, d)' PROVE CallIs(call'[d], a)
        <5>1. CASE d = c
          BY <1>5, <3>2, <4>3, <4>4, <5>1 DEF CallIs, Of
        <5>2. CASE d # c
          BY <1>2, <3>1, <3>6, <4>4, <5>2 DEF Of
        <5> QED BY <5>1, <5>2
      <4>5. \A d \in Calls : Of(t, d)' => CallIs(call[d], a)'
        BY <1>9, <4>4 DEF CallIs
      <4> QED BY <1>9, <3>3, <3>4, <3>6, <4>3, <4>5 DEF Agrees
    <3>7. CASE o = t /\ k.op = "login"
      <4>1. tab'[t].user = a /\ tab'[t].access = k.grant
        BY <1>2, <1>3, <1>11, <2>1, <3>7 DEF GoodCall
      <4>2. ASSUME NEW d \in Calls, Of(t, d)' PROVE CallIs(call'[d], a)
        <5>1. d # c
          BY <1>5, <3>7, <4>2 DEF Of
        <5> QED BY <1>2, <3>1, <3>7, <4>2, <5>1 DEF Of
      <4>3. \A d \in Calls : Of(t, d)' => CallIs(call[d], a)'
        BY <1>9, <4>2 DEF CallIs
      <4> QED BY <1>9, <3>2, <3>3, <3>4, <3>7, <4>1, <4>3 DEF Agrees
    <3> QED BY <1>11, <3>5, <3>6, <3>7
  <2> QED BY <1>7, <2>2 DEF Match
<1> QED BY <1>7, <1>8, <1>10, <1>11

\* A call that goes again.
Again(k, n) == [k EXCEPT !.pc = "sent", !.cookie = n, !.access = n, !.status = 0, !.grant = 0]

LEMMA AgainTypes ==
  ASSUME NEW k \in Made, NEW n \in Nat
  PROVE  /\ Again(k, n) \in Made /\ Again(k, n).pc = "sent"
         /\ Again(k, n).tab = k.tab /\ Again(k, n).op = k.op
         /\ Again(k, n).user = k.user /\ Again(k, n).cookie = n /\ Again(k, n).access = n
         /\ Again(k, n).held = k.held /\ Again(k, n).grant = 0 /\ Again(k, n).status = 0
<1> DEFINE w == Again(k, n)
<1>1. w \in Made
  BY DEF Made, Statuses, Again
<1>2. w.tab = k.tab /\ w.op = k.op /\ w.user = k.user /\ w.held = k.held
  BY DEF Made, Again
<1>3. w.pc = "sent" /\ w.cookie = n /\ w.access = n /\ w.grant = 0 /\ w.status = 0
  BY DEF Made, Again
<1> QED BY <1>1, <1>2, <1>3

LEMMA RefreshDoneInv ==
  ASSUME TypeInv, Match, NEW t \in Tabs, RefreshDone(t) PROVE TypeInv' /\ Match'
<1>1. /\ UNCHANGED <<issued, live>> /\ Grow
      /\ tab[t].refresh.pc = "back" /\ tab[t].refresh.status = 200
  BY SameGrow DEF RefreshDone, backend
<1>2. /\ tab[t] \in Stores /\ GoodStore(tab[t]) /\ tab[t].refresh \in Refreshes
  BY StoreTypes
<1>3. tab[t].open
  BY <1>1 DEF TypeInv, Fresh, NoRefresh
<1> PICK next \in Past \ {0} : next = tab[t].refresh.grant
  BY <1>1, <1>2 DEF GoodStore
<1> PICK a \in Accounts : a = issued[next]
  BY DEF TypeInv, Past
<1>4. TurnTo(next, t) /\ cookie' = next
  BY DEF RefreshDone, TurnTo
<1>5. \A s, b : Is(s, b)' <=> Is(s, b)
  BY <1>1 DEF Is
<1>6. NoRefresh \in Refreshes /\ NoRefresh.cookie = 0 /\ NoRefresh.grant = 0
      /\ NoRefresh.status = 0
  BY DEF NoRefresh, Refreshes, Statuses
<1>7. /\ tab' \in [Tabs -> Stores] /\ \A o \in Tabs : o # t => tab'[o] = tab[o]
      /\ tab'[t].user = tab[t].user /\ tab'[t].access = next
      /\ tab'[t].refresh = NoRefresh /\ tab'[t].open
  <2> DEFINE x == [tab[t] EXCEPT !.access = next, !.refresh = NoRefresh]
  <2>1. tab' = [tab EXCEPT ![t] = x]
    <3>1. tab' = [tab EXCEPT ![t].access = next, ![t].refresh = NoRefresh]
      BY DEF RefreshDone
    <3> QED BY <3>1
  <2>2. next \in Nat
    BY DEF Past
  <2>3. /\ x \in Stores /\ x.user = tab[t].user /\ x.access = next /\ x.refresh = NoRefresh
        /\ x.open
    BY <1>2, <1>3, <1>6, <2>2 DEF Stores
  <2> HIDE DEF x
  <2> QED BY <2>1, <2>3, Stored
<1>8. /\ call' \in [Calls -> {Free} \cup Made]
      /\ \A c \in Waiting(t) :
           /\ Of(t, c) /\ call'[c].tab = t /\ call'[c].op = call[c].op
           /\ call'[c].user = call[c].user /\ call'[c].cookie = next
           /\ call'[c].access = next /\ call'[c].held = call[c].held /\ call'[c].grant = 0
           /\ call'[c].status = 0
      /\ \A c \in Calls \ Waiting(t) : call'[c] = call[c]
  <2>1. call' = [c \in Calls |-> IF c \in Waiting(t) THEN Again(call[c], next) ELSE call[c]]
    BY DEF RefreshDone, Again
  <2>2. ASSUME NEW c \in Waiting(t) PROVE c \in Calls /\ Of(t, c) /\ call[c] \in Made
    BY DEF Waiting, InFlight, Of, TypeInv, Free
  <2>3. \A c \in Waiting(t) : call'[c] = Again(call[c], next)
    BY <2>1, <2>2
  <2>4. \A c \in Calls \ Waiting(t) : call'[c] = call[c]
    BY <2>1
  <2>5. next \in Nat
    BY DEF Past
  <2>6. call' \in [Calls -> {Free} \cup Made]
    <3>1. \A c \in Waiting(t) : Again(call[c], next) \in Made
      BY <2>2, <2>5, AgainTypes
    <3> QED BY <2>1, <3>1 DEF TypeInv
  <2>7. \A c \in Waiting(t) : call[c].tab = t
    BY <2>2 DEF Of
  <2> QED BY <2>2, <2>3, <2>4, <2>5, <2>6, <2>7, AgainTypes
<1>9. \A c \in Calls : \A o \in Tabs : o # t /\ Of(o, c)' => Of(o, c) /\ call'[c] = call[c]
  BY <1>8 DEF Of
<1>10. \A c \in Calls : Of(t, c)' => Of(t, c)
  BY <1>8 DEF Of
<1>11. TypeInv'
  <2>1. GoodStore(tab[t])'
    BY <1>1, <1>6, <1>7 DEF GoodStore, Past, Traded
  <2>2. ASSUME NEW c \in Calls, Of(t, c)' PROVE GoodCall(call[c])'
    <3>1. CASE c \in Waiting(t)
      <4>1. call[c] \in Made /\ GoodCall(call[c])
        BY <1>8, <3>1, CallTypes
      <4>2. 0 \in Past /\ next \in Past /\ next # 0
        BY DEF Past, TypeInv
      <4> QED BY <1>1, <1>8, <3>1, <4>1, <4>2 DEF GoodCall, Traded, Past
    <3>2. CASE c \notin Waiting(t)
      BY <1>1, <1>8, <2>2, <3>2, Unwritten DEF Of
    <3> QED BY <3>1, <3>2
  <2>3. Local(t)
    BY <1>1, <1>4, <1>7, <1>8, <1>9, <2>1, <2>2 DEF Local, TypeInv, Past
  <2> QED BY <1>1, <2>3, StepTypes
<1>12. ASSUME NEW o \in Tabs \ mixed' PROVE Agrees(o, a)'
  <2>1. /\ o \notin mixed
        /\ Is(tab[o].refresh.cookie, a) /\ Is(tab[o].refresh.grant, a)
        /\ \A d \in Calls : Of(o, d) => CallIs(call[d], a)
        /\ o # t => tab[o].user \in {a, Nobody}
        /\ (o # t /\ tab[o].user # Nobody) \/ Entered(o) => Is(tab[o].access, a)
    BY <1>4, <1>12, TurnedTo
  <2>2. Is(next, a) /\ Is(cookie', a) /\ Is(0, a)
    BY <1>4 DEF Is
  <2>3. CASE o # t
    <3>1. tab'[o] = tab[o] /\ \A d \in Calls : Of(o, d)' => Of(o, d) /\ call'[d] = call[d]
      BY <1>7, <1>9, <2>3
    <3>2. \A d \in Calls : Of(o, d)' => CallIs(call[d], a)'
      <4>1. \A d \in Calls : Of(o, d)' => CallIs(call'[d], a)
        BY <2>1, <3>1
      <4> QED BY <1>5, <4>1 DEF CallIs
    <3>3. Entered(o)' => Entered(o)
      BY <3>1 DEF Entered
    <3>4. tab'[o].user # Nobody \/ Entered(o)' => Is(tab'[o].access, a)
      BY <2>1, <2>3, <3>1, <3>3
    <3> QED BY <1>5, <2>1, <2>2, <2>3, <3>1, <3>2, <3>4 DEF Agrees
  <2>4. CASE o = t
    <3>1. tab[t].user \in {a, Nobody}
      <4>1. PICK b \in Accounts : Agrees(t, b)
        BY <2>1, <2>4 DEF Match
      <4>2. Is(next, b)
        BY <4>1 DEF Agrees
      <4> QED BY <4>1, <4>2 DEF Agrees, Is
    <3>2. ASSUME NEW d \in Calls, Of(t, d)' PROVE CallIs(call'[d], a)
      <4>1. Of(t, d) /\ CallIs(call[d], a)
        BY <1>10, <2>1, <2>4, <3>2
      <4> QED BY <1>8, <2>2, <4>1 DEF CallIs
    <3>3. \A d \in Calls : Of(t, d)' => CallIs(call[d], a)'
      BY <1>5, <3>2 DEF CallIs
    <3>4. /\ tab'[t].user \in {a, Nobody} /\ Is(tab'[t].access, a)
          /\ Is(tab'[t].refresh.cookie, a) /\ Is(tab'[t].refresh.grant, a)
      BY <1>6, <1>7, <2>2, <3>1
    <3> QED BY <1>5, <2>2, <2>4, <3>3, <3>4 DEF Agrees
  <2> QED BY <2>3, <2>4
<1> QED BY <1>11, <1>12 DEF Match

-----------------------------------------------------------------------------
(* A tab acts as the account it shows *)

LEMMA InitInv == Init => TypeInv /\ Match
<1> SUFFICES ASSUME Init PROVE TypeInv /\ Match
  OBVIOUS
<1> PICK u \in Accounts : issued = <<u>>
  BY AccountsAssumption DEF Init
<1>1. Fresh \in Stores /\ Fresh.refresh = NoRefresh /\ Fresh.access = 0 /\ Fresh.user = Nobody
      /\ NoRefresh.cookie = 0 /\ NoRefresh.grant = 0 /\ NoRefresh.status = 0
  BY DEF Fresh, NoRefresh, Stores, Refreshes, Statuses
<1>2. Free.pc = "free"
  BY DEF Free
<1>3. /\ issued \in Seq(Accounts) /\ Len(issued) = 1 /\ issued[1] = u
      /\ \A t \in Tabs : tab[t] = Fresh
      /\ \A c \in Calls : call[c] = Free
  BY DEF Init
<1>4. 0 \in Past /\ 1 \in Past
  BY <1>3 DEF Past
<1>5. \A t \in Tabs, c \in Calls : ~Of(t, c)
  BY <1>2, <1>3 DEF Of
<1>6. TypeInv
  <2>1. \A t \in Tabs : GoodStore(tab[t])
    BY <1>1, <1>3, <1>4 DEF GoodStore, Traded
  <2>2. /\ tab \in [Tabs -> Stores] /\ call \in [Calls -> {Free} \cup Made] /\ cookie \in Past
        /\ live \subseteq 1 .. Len(issued)
    BY <1>1, <1>3, <1>4 DEF Init
  <2>3. \A c \in Calls : call[c].pc = "free"
    BY <1>2, <1>3
  <2> QED BY <1>3, <1>5, <2>1, <2>2, <2>3 DEF TypeInv
<1>7. \A t \in Tabs : Agrees(t, u)
  BY <1>1, <1>3, <1>5 DEF Init, Agrees, Is, Entered
<1> QED BY <1>6, <1>7 DEF Match

LEMMA NextInv == TypeInv /\ Match /\ [Next]_vars => TypeInv' /\ Match'
<1> SUFFICES ASSUME TypeInv, Match, [Next]_vars PROVE TypeInv' /\ Match'
  OBVIOUS
<1>1. ASSUME NEW c \in Calls, NEW t \in Tabs,
             Open(c, t) \/ Logout(c, t) \/ Get(c, t) \/ \E u \in Accounts : Login(c, t, u)
      PROVE  TypeInv' /\ Match'
  BY <1>1, OpenInv, RequestInv
<1>2. ASSUME NEW c \in Calls, Serve(c) \/ Lose(c) \/ Wait(c) \/ Settle(c)
      PROVE  TypeInv' /\ Match'
  BY <1>2, ServeInv, LoseInv, WaitInv, SettleInv
<1>3. ASSUME NEW t \in Tabs, \/ Close(t) \/ RefreshServe(t) \/ RefreshLose(t)
                             \/ RefreshDone(t) \/ RefreshFailed(t)
      PROVE  TypeInv' /\ Match'
  BY <1>3, CloseInv, RefreshServeInv, RefreshDoneInv, RefreshFailedInv
<1>4. ASSUME NEW s \in 1 .. Len(issued), RunOut(s) \/ EndSession(s) PROVE TypeInv' /\ Match'
  BY <1>4, TimeInv DEF RunOut, EndSession
<1>5. CASE UNCHANGED vars
  BY <1>5, TimeInv DEF vars, backend
<1> QED BY <1>1, <1>2, <1>3, <1>4, <1>5 DEF Next, Move

LEMMA MatchActs == TypeInv /\ Match => ActsAsShown
BY DEF TypeInv, GoodStore, Past, Match, Agrees, Is, ActsAsShown

\* A tab acts as the account it shows, unless the cookie it shares became another
\* account's (api-client.ts:27, auth-provider.tsx:24).
THEOREM TabActsAsShown == Spec => []ActsAsShown
<1> QED BY InitInv, NextInv, MatchActs, PTL DEF Spec

-----------------------------------------------------------------------------
(* An answered logout *)

\* It carries the browser's cookie, and once it is answered that one is not live.
Ends(c) ==
  /\ call[c].pc # "waiting" => call[c].cookie = cookie
  /\ call[c].pc = "back" /\ call[c].status = 200 => cookie \notin live

LogoutInv == \A c \in Logouts \ met : Alone(c) /\ Ends(c)

LEMMA Untouched ==
  ASSUME NEW c, Ends(c), call'[c] = call[c], cookie' = cookie, live' \subseteq live
  PROVE  Ends(c)'
BY DEF Ends

\* While a logout meets no other exchange, only its own steps write the cookie or
\* make sessions.
LEMMA LogoutStep ==
  ASSUME TypeInv, Move, NEW c \in Calls, c \in Logouts => Alone(c) /\ Ends(c), (c \in Logouts)'
  PROVE  Ends(c)'
<1>1. call'[c].pc # "free" /\ call'[c].op = "logout"
  BY DEF Logouts, InFlight
<1>2. call'[c] = call[c] => c \in Logouts
  BY <1>1 DEF Logouts, InFlight
<1>3. ASSUME NEW d \in Calls, NEW t \in Tabs,
             \/ Open(d, t) \/ Logout(d, t) \/ Get(d, t)
             \/ \E u \in Accounts : Login(d, t, u)
      PROVE  Ends(c)'
  <2>1. PICK op \in {"restore", "login", "logout", "get"}, u \in Accounts \cup {Nobody} :
          (op = "login" => u \in Accounts) /\ Begin(d, t, op, u)
    BY <1>3 DEF Open, Logout, Get, Login
  <2>2. /\ UNCHANGED <<live, cookie>> /\ \A e \in Calls : e # d => call'[e] = call[e]
        /\ call'[d].pc = "sent" /\ call'[d].cookie = cookie
    BY <2>1, Begun
  <2>3. CASE c = d
    BY <2>2, <2>3 DEF Ends
  <2>4. CASE c # d
    BY <1>2, <2>2, <2>4, Untouched
  <2> QED BY <2>3, <2>4
<1>4. ASSUME NEW d \in Calls, Serve(d) PROVE Ends(c)'
  <2>1. PICK status \in {200, 401}, g \in 0 .. MaxSessions :
          /\ Handle(d, [status |-> status, grant |-> g])
          /\ call' = [call EXCEPT ![d].pc = "back", ![d].status = status, ![d].grant = g]
    BY <1>4 DEF Serve
  <2>2. UNCHANGED cookie /\ call[d].pc = "sent"
    BY <1>4 DEF Serve
  <2>3. /\ call[d] \in Made /\ \A e \in Calls : e # d => call'[e] = call[e]
        /\ call'[d].pc = "back" /\ call'[d].status = status
        /\ call'[d].op = call[d].op /\ call'[d].cookie = call[d].cookie
    <3>1. status \in Statuses /\ g \in Nat
      BY BrowserBoundsAssumption DEF Statuses
    <3>2. /\ call' = [call EXCEPT ![d].pc = "back", ![d].status = status, ![d].grant = g]
          /\ call[d].pc # "free"
      BY <2>1, <2>2
    <3>3. /\ call[d] \in Made /\ call' \in [Calls -> {Free} \cup Made]
          /\ \A e \in Calls : e # d => call'[e] = call[e]
          /\ call'[d].pc = "back" /\ call'[d].status = status /\ call'[d].grant = g
          /\ call'[d].tab = call[d].tab /\ call'[d].op = call[d].op
          /\ call'[d].user = call[d].user /\ call'[d].cookie = call[d].cookie
          /\ call'[d].access = call[d].access /\ call'[d].held = call[d].held
      BY <3>1, <3>2, Answered
    <3> QED BY <3>3
  <2>4. call[d].op \in {"logout", "me", "get"} => /\ live' \subseteq live
                                                  /\ call[d].op = "logout" /\ status = 200
                                                       => call[d].cookie \notin live'
    BY <2>1 DEF Handle, Revoked
  <2>5. CASE c = d
    <3>1. call[c].op = "logout" /\ c \in Logouts /\ Ends(c)
      BY <1>1, <2>2, <2>3, <2>5 DEF Logouts, InFlight
    <3> QED BY <2>2, <2>3, <2>4, <2>5, <3>1 DEF Ends
  <2>6. CASE c # d
    <3>1. c \in Logouts /\ Alone(c) /\ Ends(c)
      BY <1>2, <2>3, <2>6
    <3>2. call[d].op = "get"
      BY <2>2, <2>6, <3>1 DEF Alone, Exchanging, InFlight
    <3> QED BY <2>2, <2>3, <2>4, <2>6, <3>1, <3>2, Untouched
  <2> QED BY <2>5, <2>6
<1>5. ASSUME NEW d \in Calls, Lose(d) PROVE Ends(c)'
  <2>1. UNCHANGED <<live, cookie>> /\ call[d].pc # "free"
    BY <1>5 DEF Lose, backend
  <2>2. /\ \A e \in Calls : e # d => call'[e] = call[e]
        /\ call'[d].status = 0 /\ call'[d].op = call[d].op /\ call'[d].cookie = call[d].cookie
    BY <1>5, <2>1, Answered DEF Lose, Statuses
  <2>3. CASE c = d
    <3>1. c \in Logouts /\ Ends(c) /\ call[c].pc # "waiting"
      BY <1>1, <1>5, <2>1, <2>2, <2>3 DEF Logouts, InFlight, Lose
    <3> QED BY <2>1, <2>2, <2>3, <3>1 DEF Ends
  <2>4. CASE c # d
    BY <1>2, <2>1, <2>2, <2>4, Untouched
  <2> QED BY <2>3, <2>4
<1>6. ASSUME NEW d \in Calls, Wait(d) PROVE Ends(c)'
  <2>1. /\ UNCHANGED <<live, cookie>> /\ call[d].pc # "free"
        /\ \A e \in Calls : e # d => call'[e] = call[e]
        /\ call'[d].pc = "waiting"
    <3>1. /\ UNCHANGED <<live, cookie>> /\ call[d].pc # "free"
          /\ call' = [call EXCEPT ![d].pc = "waiting", ![d].retried = TRUE]
      BY <1>6 DEF Wait, backend
    <3> QED BY <3>1, Delayed
  <2>2. CASE c = d
    BY <2>1, <2>2 DEF Ends
  <2>3. CASE c # d
    BY <1>2, <2>1, <2>3, Untouched
  <2> QED BY <2>2, <2>3
<1>7. ASSUME NEW d \in Calls, Settle(d) PROVE Ends(c)'
  <2>1. PICK k \in Made, t \in Tabs : k = call[d] /\ t = k.tab /\ k.pc = "back"
    BY <1>7 DEF Settle, TypeInv, Free, Made
  <2>2. /\ UNCHANGED live /\ \A e \in Calls : e # d => call'[e] = call[e]
        /\ call'[d].pc = "free" \/ call'[d].op = "me"
    BY <1>7, <2>1, Settled
  <2>3. c # d
    BY <1>1, <2>2
  <2>4. c \in Logouts /\ Alone(c) /\ Ends(c)
    BY <1>2, <2>2, <2>3
  <2>5. k.op \in {"get", "me"}
    BY <2>1, <2>3, <2>4 DEF Alone, Exchanging, InFlight
  <2>6. cookie' = cookie
    BY <1>7, <2>1, <2>5 DEF Settle
  <2> QED BY <2>2, <2>3, <2>4, <2>6, Untouched
<1>8. ASSUME NEW t \in Tabs, Close(t) \/ RefreshFailed(t) PROVE Ends(c)'
  <2>1. UNCHANGED <<live, cookie>> /\ (call'[c] = Free \/ call'[c] = call[c])
    BY <1>8 DEF Close, RefreshFailed, backend
  <2>2. call'[c] = call[c]
    BY <1>1, <2>1 DEF Free
  <2> QED BY <1>2, <2>1, <2>2, Untouched
<1>9. ASSUME NEW t \in Tabs, RefreshServe(t) \/ RefreshLose(t) PROVE Ends(c)'
  <2>1. UNCHANGED <<cookie, call>> /\ tab[t].refresh.pc # "none"
    BY <1>9 DEF RefreshServe, RefreshLose
  <2>2. c \in Logouts /\ call[c].pc = "waiting"
    BY <1>2, <2>1 DEF Alone
  <2> QED BY <2>1, <2>2 DEF Ends
<1>10. ASSUME NEW t \in Tabs, RefreshDone(t) PROVE Ends(c)'
  <2> DEFINE next == tab[t].refresh.grant
  <2>1. /\ tab[t].refresh.pc # "none" /\ cookie' = next /\ UNCHANGED live
        /\ call' = [d \in Calls |-> IF d \in Waiting(t) THEN Again(call[d], next) ELSE call[d]]
    BY <1>10 DEF RefreshDone, TurnTo, Again, backend
  <2>2. next \in Nat
    BY StoreTypes DEF GoodStore, Past
  <2> HIDE DEF next
  <2>3. CASE c \in Waiting(t)
    <3>1. call[c] \in Made /\ call'[c] = Again(call[c], next)
      BY <2>1, <2>3 DEF Waiting, InFlight, TypeInv, Free
    <3>2. call'[c].pc = "sent" /\ call'[c].cookie = next
      BY <2>2, <3>1, AgainTypes
    <3> QED BY <2>1, <3>2 DEF Ends
  <2>4. CASE c \notin Waiting(t)
    <3>1. call'[c] = call[c] /\ c \in Logouts /\ Alone(c)
      BY <1>2, <2>1, <2>4
    <3>2. t = call[c].tab /\ call[c].pc = "waiting"
      BY <2>1, <3>1 DEF Alone
    <3> QED BY <2>4, <3>1, <3>2 DEF Waiting, Logouts
  <2> QED BY <2>3, <2>4
<1>11. ASSUME NEW s \in 1 .. Len(issued), RunOut(s) \/ EndSession(s) PROVE Ends(c)'
  <2>1. UNCHANGED <<cookie, call>> /\ live' \subseteq live
    BY <1>11 DEF RunOut, EndSession
  <2> QED BY <1>2, <2>1, Untouched
<1> QED BY <1>3, <1>4, <1>5, <1>6, <1>7, <1>8, <1>9, <1>10, <1>11 DEF Move

LEMMA LogoutInvInit == Init => LogoutInv
BY DEF Init, LogoutInv, Logouts, InFlight, Free

LEMMA LogoutInvNext == TypeInv /\ LogoutInv /\ [Next]_vars => LogoutInv'
<1> SUFFICES ASSUME TypeInv, LogoutInv, [Next]_vars PROVE LogoutInv'
  OBVIOUS
<1>1. CASE Next
  <2>1. ASSUME NEW c \in Calls, (c \in Logouts)', c \notin met' PROVE (Alone(c) /\ Ends(c))'
    <3>1. Move /\ Watch
      BY <1>1 DEF Next
    <3>2. c \notin met /\ c \notin Meeting'
      BY <2>1, <3>1 DEF Watch
    <3>3. Alone(c)'
      BY <2>1, <3>2 DEF Meeting
    <3>4. Ends(c)'
      BY <2>1, <3>1, <3>2, LogoutStep DEF LogoutInv
    <3> QED BY <3>3, <3>4
  <2> QED BY <2>1 DEF LogoutInv, Logouts, InFlight
<1>2. CASE UNCHANGED vars
  BY <1>2 DEF vars, backend, LogoutInv, Logouts, InFlight, Alone, Exchanging, Ends
<1> QED BY <1>1, <1>2

LEMMA LogoutInvEnds ==
  TypeInv /\ LogoutInv /\ [Next]_vars
    => [\A c \in Calls :
          /\ Settle(c) /\ call[c].op = "logout" /\ call[c].status = 200 /\ c \notin met
          => cookie' = 0 /\ cookie \notin live']_vars
<1> SUFFICES ASSUME TypeInv, LogoutInv, NEW c \in Calls,
                    Settle(c), call[c].op = "logout", call[c].status = 200, c \notin met
             PROVE  cookie' = 0 /\ cookie \notin live'
  OBVIOUS
<1>1. c \in Logouts /\ call[c].pc = "back" /\ UNCHANGED live /\ cookie' = 0
  BY DEF Settle, Logouts, InFlight, backend
<1> QED BY <1>1 DEF LogoutInv, Ends

\* An answered logout that met no other exchange of the cookie leaves neither the
\* cookie nor its session, with a refresh that its own 401 caused too
\* (auth.controller.ts:73).
THEOREM LogoutEndsSession == Spec => LogoutEnds
<1> QED BY InitInv, NextInv, LogoutInvInit, LogoutInvNext, LogoutInvEnds, PTL DEF Spec, LogoutEnds
=============================================================================

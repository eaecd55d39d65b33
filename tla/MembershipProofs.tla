-------------------------- MODULE MembershipProofs --------------------------
(***************************************************************************)
(* What Membership guarantees for every number of requests in flight, of   *)
(* accounts, roles and mails: its types, that a pending account keeps a    *)
(* token, that an invitation sets a password once unless two requests      *)
(* cross, that the mail rows follow the provider, that the invitations of  *)
(* an account form a chain, that its newest link works, and that the       *)
(* places which decide on access agree.                                    *)
(***************************************************************************)
EXTENDS Membership, TLAPS

\* The pcs a request reaches only when its subject has an account.
Knowing == {"token", "send", "log", "upsert", "previous", "drop", "change", "accept"}

Known ==
  \A r \in Requests : req[r].pc \in Knowing => user[req[r].subject].status # "none"

TypeInv == TypeOK /\ Known

LogRows == [id : Nat, to : Users, template : Templates, link : Nat,
            status : {"SENT", "FAILED"} \cup Finals, resentFrom : Nat]
SentMails == [to : Users, link : Nat, reported : {"SENT", "MISSED"} \cup Finals]

LEMMA MailTypes == MailTypeOK <=> sent \in Seq(SentMails) /\ log \in Seq(LogRows)
BY DEF MailTypeOK, LogRows, SentMails

\* Hold and Begin write one slot.
LEMMA Slot ==
  ASSUME TypeOK, NEW r \in Requests, NEW held \in {Idle} \cup Held,
         Hold(r, held) \/ Begin(r, held)
  PROVE  /\ req' \in [Requests -> {Idle} \cup Held]
         /\ req'[r] = held
         /\ \A q \in Requests : q # r => req'[q] = req[q]
         /\ begun' \in Nat
BY DEF TypeOK, Hold, Begin

\* A slot that is not idle holds a request.
LEMMA Holding ==
  ASSUME TypeOK, NEW r \in Requests, req[r].pc # "idle"
  PROVE  req[r] \in Held
BY DEF TypeOK, Idle

LEMMA NewHeld ==
  ASSUME NEW pc \in Pcs, NEW op \in Ops \cup {"acceptInvite"}, NEW s \in Users,
         NEW role \in Roles \cup {NoOverride}
  PROVE  /\ New(pc, op, s, role) \in Held
         /\ New(pc, op, s, role).pc = pc /\ New(pc, op, s, role).subject = s
         /\ New(pc, op, s, role).op = op
BY DEF New, Held, Refused, Templates

LEMMA InitTypes == Init => TypeInv
<1> SUFFICES ASSUME Init PROVE TypeInv
  OBVIOUS
<1>1. MailTypeOK
  BY DEF Init, MailInit, MailTypeOK
<1>2. req \in [Requests -> {Idle} \cup Held] /\ Known
  BY DEF Init, Idle, Known, Knowing
<1>3. user \in [Users -> [status : {"none", "PENDING_INVITE", "ACTIVE"},
                          role : Roles \cup {NoOverride}]]
  BY DEF Init
<1>4. /\ member \in [Users -> [row : {"none", "in", "removed"},
                               override : Roles \cup {NoOverride}]]
      /\ \A u \in Users : token[u] = NoToken /\ member[u].row = "none"
  BY DEF Init
<1>5. token \in [Users -> [id : Nat, accepted : BOOLEAN, expired : BOOLEAN]]
  <2>1. NoToken \in [id : Nat, accepted : BOOLEAN, expired : BOOLEAN]
    BY DEF NoToken
  <2> QED BY <2>1 DEF Init
<1> QED BY <1>1, <1>2, <1>3, <1>4, <1>5 DEF Init, TypeInv, TypeOK

-----------------------------------------------------------------------------
(* Steps that move a request and write no row *)

\* What such a step has to show of the value it holds next.
LEMMA MoveTypes ==
  ASSUME TypeInv, NEW r \in Requests, NEW held \in {Idle} \cup Held,
         Hold(r, held) \/ Begin(r, held), UNCHANGED <<rows, mail>>,
         accepts' = accepts, crossed' \in SUBSET Users, cut' \in SUBSET Users,
         held.pc \in Knowing => user[held.subject].status # "none"
  PROVE  TypeInv'
<1>1. /\ req' \in [Requests -> {Idle} \cup Held]
      /\ req'[r] = held
      /\ \A q \in Requests : q # r => req'[q] = req[q]
      /\ begun' \in Nat
  BY Slot DEF TypeInv
<1>2. Known'
  BY <1>1 DEF TypeInv, Known, rows
<1>3. MailTypeOK'
  BY DEF TypeInv, TypeOK, MailTypeOK, mail
<1> QED BY <1>1, <1>2, <1>3 DEF TypeInv, TypeOK, rows

LEMMA EndTypes ==
  ASSUME TypeInv, NEW r \in Requests, End(r), UNCHANGED <<rows, mail>>,
         accepts' = accepts, crossed' \in SUBSET Users, cut' \in SUBSET Users
  PROVE  TypeInv'
BY MoveTypes DEF End, Idle, Knowing

LEMMA BeginTypes ==
  ASSUME TypeInv, NEW r \in Requests, NEW held \in Held, Begin(r, held),
         UNCHANGED <<rows, mail>>,
         held.pc \in Knowing => user[held.subject].status # "none"
  PROVE  TypeInv'
<1>1. accepts' = accepts /\ crossed' \in SUBSET Users /\ cut' \in SUBSET Users
  BY DEF Begin, TypeInv, TypeOK, Touched
<1> QED BY <1>1, MoveTypes

LEMMA EnterTypes ==
  ASSUME TypeInv, NEW r \in Requests, NEW u \in Users, NEW op \in Ops, NEW s \in Users,
         NEW role \in Roles \cup {NoOverride}, Enter(r, u, op, s, role)
  PROVE  TypeInv'
<1>1. FirstStep(op) \in {"delete", "find", "member"}
  BY DEF FirstStep
<1>2. FirstStep(op) \in Pcs /\ FirstStep(op) \notin Knowing
  BY <1>1 DEF Pcs, Knowing
<1> DEFINE held == New(FirstStep(op), op, s, role)
<1>3. held \in Held /\ held.pc = FirstStep(op)
  BY <1>2, NewHeld
<1> QED BY <1>2, <1>3, BeginTypes DEF Enter

LEMMA AcceptFindTypes ==
  ASSUME TypeInv, NEW r \in Requests, NEW u \in Users, AcceptFind(r, u)
  PROVE  TypeInv'
<1> DEFINE new == New("accept", "acceptInvite", u, NoOverride)
           held == [new EXCEPT !.link = token[u].id, !.template = "WELCOME_EMAIL"]
<1>1. new \in Held /\ new.subject = u
  BY NewHeld DEF Pcs
<1>2. token[u].id \in Nat
  BY DEF TypeInv, TypeOK
<1>3. held \in Held /\ held.subject = u
  BY <1>1, <1>2 DEF Held, Templates
<1>4. user[u].status # "none"
  <2>1. token[u].id # 0
    BY DEF AcceptFind
  <2> QED BY <2>1 DEF TypeInv, TypeOK, NoToken
<1> HIDE DEF held
<1>5. Begin(r, held) /\ UNCHANGED <<rows, mail>>
  BY DEF AcceptFind, held
<1> QED BY <1>3, <1>4, <1>5, BeginTypes

LEMMA FindUserTypes ==
  ASSUME TypeInv, NEW r \in Requests, FindUser(r)
  PROVE  TypeInv'
<1>1. req[r] \in Held /\ UNCHANGED <<rows, mail, history>>
  BY Holding DEF FindUser, TypeInv
<1>2. CASE user[req[r].subject].status = "none"
  <2> DEFINE held == [req[r] EXCEPT !.pc = "user"]
  <2>1. held \in Held /\ held.pc \notin Knowing
    BY <1>1 DEF Held, Pcs, Knowing
  <2>2. Hold(r, held)
    BY <1>2 DEF FindUser, Move
  <2> QED BY <1>1, <2>1, <2>2, MoveTypes DEF history, TypeInv, TypeOK
<1>3. CASE user[req[r].subject].status # "none"
  <2> DEFINE held == [req[r] EXCEPT !.pc = "send", !.template = "DATA_ROOM_INVITATION"]
  <2>1. held \in Held /\ held.subject = req[r].subject
    BY <1>1 DEF Held, Pcs, Templates
  <2>2. Hold(r, held)
    BY <1>3 DEF FindUser
  <2> QED BY <1>1, <1>3, <2>1, <2>2, MoveTypes DEF history, TypeInv, TypeOK
<1> QED BY <1>2, <1>3

LEMMA ReadMemberTypes ==
  ASSUME TypeInv, NEW r \in Requests, ReadMember(r)
  PROVE  TypeInv'
<1>1. req[r] \in Held /\ UNCHANGED <<rows, mail, history>>
  BY Holding DEF ReadMember, TypeInv
<1>2. CASE End(r)
  BY <1>1, <1>2, EndTypes DEF history, TypeInv, TypeOK
<1>3. CASE ~End(r)
  <2>1. user[req[r].subject].status # "none"
    BY <1>1, <1>3 DEF ReadMember, TypeInv, TypeOK, Held
  <2>2. \/ Move(r, "previous") \/ Move(r, "change")
        \/ Hold(r, [req[r] EXCEPT !.pc = "send", !.template = "PASSWORD_RESET"])
    BY <1>3 DEF ReadMember
  <2>3. /\ [req[r] EXCEPT !.pc = "previous"] \in Held
        /\ [req[r] EXCEPT !.pc = "change"] \in Held
        /\ [req[r] EXCEPT !.pc = "send", !.template = "PASSWORD_RESET"] \in Held
    BY <1>1 DEF Held, Pcs, Templates
  <2>4. PICK held \in Held : Hold(r, held) /\ held.subject = req[r].subject
    BY <1>1, <2>2, <2>3 DEF Move, Held
  <2> QED BY <1>1, <2>1, <2>4, MoveTypes DEF history, TypeInv, TypeOK
<1> QED BY <1>2, <1>3

LEMMA PreviousLogTypes ==
  ASSUME TypeInv, NEW r \in Requests, PreviousLog(r)
  PROVE  TypeInv'
<1>1. req[r] \in Held /\ UNCHANGED <<rows, mail, history>>
  BY Holding DEF PreviousLog, TypeInv
<1>2. PICK i \in Invitations(req[r].subject) \cup {0} :
        Hold(r, [req[r] EXCEPT !.pc = "drop", !.resentFrom = i])
  BY DEF PreviousLog
<1>3. i \in Nat
  <2>1. log \in Seq(LogRows)
    BY MailTypes DEF TypeInv, TypeOK
  <2> QED BY <2>1 DEF Invitations
<1> DEFINE held == [req[r] EXCEPT !.pc = "drop", !.resentFrom = i]
<1>4. held \in Held /\ held.subject = req[r].subject
  BY <1>1, <1>3 DEF Held, Pcs
<1>5. user[req[r].subject].status # "none"
  BY DEF PreviousLog, TypeInv, Known, Knowing
<1> QED BY <1>1, <1>2, <1>4, <1>5, MoveTypes DEF history, TypeInv, TypeOK

LEMMA AbortTypes ==
  ASSUME TypeInv, NEW r \in Requests, Abort(r)
  PROVE  TypeInv'
<1>1. crossed' \in SUBSET Users /\ cut' \in SUBSET Users
  BY DEF Abort, Touched, TypeInv, TypeOK
<1> QED BY <1>1, EndTypes DEF Abort

-----------------------------------------------------------------------------
(* Steps that write rows *)

Accounts == [status : {"none", "PENDING_INVITE", "ACTIVE"}, role : Roles \cup {NoOverride}]
Members == [row : {"none", "in", "removed"}, override : Roles \cup {NoOverride}]
Tokens == [id : Nat, accepted : BOOLEAN, expired : BOOLEAN]

RowTypes ==
  /\ room \in {"none", "live", "deleted"}
  /\ user \in [Users -> Accounts]
  /\ member \in [Users -> Members]
  /\ token \in [Users -> Tokens]
  /\ made \in Nat
  /\ accepts \in [Users -> Nat]
  /\ \A u \in Users : user[u].status = "none" =>
       token[u] = NoToken /\ member[u].row = "none"

LEMMA RowsTyped == TypeOK => RowTypes
BY DEF TypeOK, RowTypes, Accounts, Members, Tokens

LEMMA NoTokenType == NoToken \in Tokens
BY DEF NoToken, Tokens

\* No account loses its row, so what the other slots know stays true.
LEMMA WriteTypes ==
  ASSUME TypeInv, NEW r \in Requests, NEW held \in {Idle} \cup Held, Hold(r, held),
         RowTypes', MailTypeOK', crossed' = crossed, cut' = cut,
         \A u \in Users : user[u].status # "none" => user'[u].status # "none",
         held.pc \in Knowing => user'[held.subject].status # "none"
  PROVE  TypeInv'
<1>1. /\ req' \in [Requests -> {Idle} \cup Held]
      /\ req'[r] = held
      /\ \A q \in Requests : q # r => req'[q] = req[q]
      /\ begun' \in Nat
  BY Slot DEF TypeInv
<1>2. \A q \in Requests : req[q].pc \in Knowing => req[q].subject \in Users
  BY DEF TypeInv, TypeOK, Idle, Knowing, Held
<1>3. Known'
  BY <1>1, <1>2 DEF TypeInv, Known
<1> QED BY <1>1, <1>3 DEF TypeInv, TypeOK, RowTypes, Accounts, Members, Tokens

LEMMA MailKept == ASSUME TypeInv, UNCHANGED mail PROVE MailTypeOK'
BY DEF TypeInv, TypeOK, MailTypeOK, mail

LEMMA CreateTypes == ASSUME TypeInv, NEW u \in Users, Create(u) PROVE TypeInv'
<1>1. RowTypes
  BY RowsTyped DEF TypeInv
<1>2. user[u].status # "none"
  BY DEF Create, Admitted, Active
<1>3. RowTypes'
  BY <1>1, <1>2 DEF Create, RowTypes, Members, history
<1>4. MailTypeOK'
  BY MailKept DEF Create
<1> QED BY <1>3, <1>4 DEF TypeInv, TypeOK, RowTypes, Accounts, Members, Tokens, Create,
           history, Known

LEMMA ExpireTypes == ASSUME TypeInv, NEW u \in Users, Expire(u) PROVE TypeInv'
<1>1. RowTypes
  BY RowsTyped DEF TypeInv
<1>2. user[u].status # "none"
  BY <1>1 DEF Expire, RowTypes
<1>3. RowTypes'
  BY <1>1, <1>2 DEF Expire, RowTypes, Tokens, history
<1>4. MailTypeOK'
  BY MailKept DEF Expire
<1> QED BY <1>3, <1>4 DEF TypeInv, TypeOK, RowTypes, Accounts, Members, Tokens, Expire,
           history, Known

LEMMA DeleteTypes == ASSUME TypeInv, NEW r \in Requests, Delete(r) PROVE TypeInv'
<1>1. RowTypes
  BY RowsTyped DEF TypeInv
<1>2. RowTypes'
  BY <1>1 DEF Delete, RowTypes, history
<1>3. Idle.pc \notin Knowing
  BY DEF Idle, Knowing
<1> QED BY <1>2, <1>3, MailKept, WriteTypes DEF Delete, End, history

LEMMA CreateUserTypes == ASSUME TypeInv, NEW r \in Requests, CreateUser(r) PROVE TypeInv'
<1>1. RowTypes /\ req[r] \in Held
  BY RowsTyped, Holding DEF TypeInv, CreateUser
<1> DEFINE s == req[r].subject
<1>2. CASE user[s].status = "none"
  <2> DEFINE held == [req[r] EXCEPT !.pc = "token"]
             row == [status |-> "PENDING_INVITE", role |-> req[r].role]
  <2>1. held \in Held /\ held.subject = s /\ Hold(r, held)
    BY <1>1, <1>2 DEF Held, Pcs, CreateUser, Move
  <2>2. s \in Users /\ row \in Accounts
    BY <1>1 DEF Held, Accounts
  <2>3. user' = [user EXCEPT ![s] = row]
    BY <1>2 DEF CreateUser
  <2>4. user' \in [Users -> Accounts] /\ user'[s].status # "none"
        /\ \A u \in Users : user'[u].status = "none" => user[u].status = "none"
    BY <1>1, <2>2, <2>3 DEF RowTypes
  <2>5. RowTypes'
    BY <1>1, <2>4 DEF RowTypes, CreateUser, history
  <2> HIDE DEF held
  <2> QED BY <2>1, <2>4, <2>5, MailKept, WriteTypes DEF CreateUser, history
<1>3. CASE user[s].status # "none"
  <2>1. End(r) /\ UNCHANGED <<rows, mail, history>>
    BY <1>3 DEF CreateUser, rows
  <2> QED BY <2>1, EndTypes DEF history, TypeInv, TypeOK
<1> QED BY <1>2, <1>3

LEMMA CreateTokenTypes == ASSUME TypeInv, NEW r \in Requests, CreateToken(r) PROVE TypeInv'
<1>1. RowTypes /\ req[r] \in Held
  BY RowsTyped, Holding DEF TypeInv, CreateToken
<1>2. user[req[r].subject].status # "none"
  BY DEF TypeInv, Known, Knowing, CreateToken
<1> DEFINE s == req[r].subject
<1>3. CASE token[s] = NoToken
  <2> DEFINE held == [req[r] EXCEPT !.pc = "send", !.link = NewLink]
             row == [NoToken EXCEPT !.id = made + 1]
  <2>0. made + 1 \in Nat /\ NewLink \in Nat
    BY <1>1 DEF RowTypes, NewLink
  <2>1. held \in Held /\ held.subject = s /\ Hold(r, held)
    BY <1>1, <1>3, <2>0 DEF Held, Pcs, CreateToken
  <2>2. s \in Users /\ row \in Tokens
    BY <1>1, <2>0, NoTokenType DEF Held, Tokens
  <2>3. token' = [token EXCEPT ![s] = row] /\ made' = made + 1
    BY <1>3 DEF CreateToken
  <2>4. RowTypes'
    BY <1>1, <1>2, <2>2, <2>3 DEF RowTypes, CreateToken, history
  <2> HIDE DEF held
  <2> QED BY <1>2, <2>1, <2>4, MailKept, WriteTypes DEF CreateToken, history
<1>4. CASE token[s] # NoToken
  <2>1. End(r) /\ UNCHANGED <<rows, mail, history>>
    BY <1>4 DEF CreateToken, rows
  <2> QED BY <2>1, EndTypes DEF history, TypeInv, TypeOK
<1> QED BY <1>3, <1>4

LEMMA UpsertTypes == ASSUME TypeInv, NEW r \in Requests, Upsert(r) PROVE TypeInv'
<1>1. RowTypes /\ req[r] \in Held
  BY RowsTyped, Holding DEF TypeInv, Upsert
<1>2. user[req[r].subject].status # "none"
  BY DEF TypeInv, Known, Knowing, Upsert
<1>3. [row |-> "in", override |-> req[r].role] \in Members
  BY <1>1 DEF Held, Members
<1>4. RowTypes'
  BY <1>1, <1>2, <1>3 DEF Upsert, RowTypes, Held, history
<1>5. Idle.pc \notin Knowing
  BY DEF Idle, Knowing
<1> QED BY <1>4, <1>5, MailKept, WriteTypes DEF Upsert, End, history

LEMMA DropTokenTypes == ASSUME TypeInv, NEW r \in Requests, DropToken(r) PROVE TypeInv'
<1>1. RowTypes /\ req[r] \in Held
  BY RowsTyped, Holding DEF TypeInv, DropToken
<1>2. user[req[r].subject].status # "none"
  BY DEF TypeInv, Known, Knowing, DropToken
<1> DEFINE held == [req[r] EXCEPT !.pc = "token"]
<1>3. held \in Held /\ held.subject = req[r].subject /\ Hold(r, held)
  BY <1>1 DEF Held, Pcs, DropToken, Move
<1>4. RowTypes'
  BY <1>1, NoTokenType DEF DropToken, RowTypes, history
<1> HIDE DEF held
<1> QED BY <1>2, <1>3, <1>4, MailKept, WriteTypes DEF DropToken, history

LEMMA ChangeMemberTypes == ASSUME TypeInv, NEW r \in Requests, ChangeMember(r) PROVE TypeInv'
<1>1. RowTypes /\ req[r] \in Held
  BY RowsTyped, Holding DEF TypeInv, ChangeMember
<1>2. user[req[r].subject].status # "none"
  BY DEF TypeInv, Known, Knowing, ChangeMember
<1>3. RowTypes'
  <2>1. CASE req[r].op = "removeMember"
    BY <1>1, <1>2, <2>1 DEF ChangeMember, RowTypes, Members, Held, history
  <2>2. CASE req[r].op # "removeMember"
    BY <1>1, <1>2, <2>2 DEF ChangeMember, RowTypes, Members, Held, history
  <2> QED BY <2>1, <2>2
<1>4. Idle.pc \notin Knowing
  BY DEF Idle, Knowing
<1> QED BY <1>3, <1>4, MailKept, WriteTypes DEF ChangeMember, End, history

LEMMA AcceptCommitTypes == ASSUME TypeInv, NEW r \in Requests, AcceptCommit(r) PROVE TypeInv'
<1>1. RowTypes /\ req[r] \in Held
  BY RowsTyped, Holding DEF TypeInv, AcceptCommit
<1>2. user[req[r].subject].status # "none"
  BY DEF TypeInv, Known, Knowing, AcceptCommit
<1> DEFINE s == req[r].subject
<1>3. CASE TokenThere(r)
  <2> DEFINE held == [req[r] EXCEPT !.pc = "send", !.link = 0]
  <2>1. held \in Held /\ held.subject = s /\ Hold(r, held)
    BY <1>1, <1>3 DEF Held, Pcs, AcceptCommit
  <2>2. /\ user' = [user EXCEPT ![s].status = "ACTIVE"]
        /\ token' = [token EXCEPT ![s].accepted = TRUE]
        /\ accepts' = [accepts EXCEPT ![s] = @ + 1]
    BY <1>3 DEF AcceptCommit
  <2>3. s \in Users
    BY <1>1 DEF Held
  <2>4. user' \in [Users -> Accounts] /\ user'[s].status = "ACTIVE"
        /\ \A u \in Users : u # s => user'[u] = user[u]
    BY <1>1, <2>2, <2>3 DEF RowTypes, Accounts
  <2>5. token' \in [Users -> Tokens] /\ \A u \in Users : u # s => token'[u] = token[u]
    BY <1>1, <2>2, <2>3 DEF RowTypes, Tokens
  <2>6. accepts' \in [Users -> Nat]
    BY <1>1, <2>2, <2>3 DEF RowTypes
  <2>7. RowTypes'
    BY <1>1, <2>4, <2>5, <2>6 DEF RowTypes, AcceptCommit
  <2> HIDE DEF held
  <2> QED BY <1>2, <2>1, <2>4, <2>7, MailKept, WriteTypes DEF AcceptCommit
<1>4. CASE ~TokenThere(r)
  <2>1. End(r) /\ UNCHANGED <<rows, mail, history>>
    BY <1>4 DEF AcceptCommit, rows, history
  <2> QED BY <2>1, EndTypes DEF history, TypeInv, TypeOK
<1> QED BY <1>3, <1>4

-----------------------------------------------------------------------------
(* Steps that send, log and report *)

LEMMA SendTypes == ASSUME TypeInv, NEW r \in Requests, Send(r) PROVE TypeInv'
<1>1. RowTypes /\ req[r] \in Held /\ sent \in Seq(SentMails) /\ log \in Seq(LogRows)
  BY RowsTyped, Holding, MailTypes DEF TypeInv, TypeOK, Send
<1>2. PICK id \in 0 .. Len(sent) + 1 :
        /\ ProviderSend(id, req[r].subject, req[r].link)
        /\ Hold(r, [req[r] EXCEPT !.pc = "log", !.id = id])
  BY DEF Send
<1> DEFINE held == [req[r] EXCEPT !.pc = "log", !.id = id]
           sending == [to |-> req[r].subject, link |-> req[r].link, reported |-> "SENT"]
<1>0. id \in Nat
  BY <1>1
<1>3. held \in Held /\ held.subject = req[r].subject
  BY <1>0, <1>1 DEF Held, Pcs
<1>4. user[req[r].subject].status # "none"
  BY DEF TypeInv, Known, Knowing, Send
<1>5. MailTypeOK'
  <2>1. sending \in SentMails
    BY <1>1 DEF Held, SentMails
  <2>2. sent' \in Seq(SentMails)
    BY <1>1, <1>2, <2>1 DEF ProviderSend
  <2> QED BY <1>1, <2>2 DEF Send, MailTypeOK, SentMails, LogRows
<1>6. RowTypes'
  BY <1>1 DEF RowTypes, Send, rows, history
<1> HIDE DEF held
<1>7. Hold(r, held)
  BY <1>2 DEF held
<1> QED BY <1>3, <1>4, <1>5, <1>6, <1>7, WriteTypes DEF Send, rows, history

LEMMA LogTypes == ASSUME TypeInv, NEW r \in Requests, Log(r) PROVE TypeInv'
<1>1. RowTypes /\ req[r] \in Held /\ sent \in Seq(SentMails) /\ log \in Seq(LogRows)
  BY RowsTyped, Holding, MailTypes DEF TypeInv, TypeOK, Log
<1>2. user[req[r].subject].status # "none"
  BY DEF TypeInv, Known, Knowing, Log
<1> DEFINE row == [id |-> req[r].id, to |-> req[r].subject, template |-> req[r].template,
                   link |-> req[r].link,
                   status |-> IF req[r].id = Refused THEN "FAILED" ELSE "SENT",
                   resentFrom |-> req[r].resentFrom]
<1>3. MailTypeOK'
  <2>1. row \in LogRows
    BY <1>1 DEF Held, LogRows
  <2>2. log' = Append(log, row)
    BY DEF Log, Record
  <2>3. log' \in Seq(LogRows)
    BY <1>1, <2>1, <2>2
  <2> QED BY <1>1, <2>3 DEF Log, MailTypeOK, SentMails, LogRows
<1>4. RowTypes'
  BY <1>1 DEF RowTypes, Log, rows, history
<1>5. PICK held \in {Idle} \cup Held :
        /\ Hold(r, held)
        /\ held.pc \in Knowing => user[held.subject].status # "none"
  <2>1. CASE req[r].op = "inviteMember"
    <3>1. /\ req[r].op \in Ops \cup {"acceptInvite"} /\ req[r].subject \in Users
          /\ req[r].role \in Roles \cup {NoOverride} /\ "upsert" \in Pcs
      BY <1>1 DEF Held, Pcs
    <3> DEFINE new == New("upsert", req[r].op, req[r].subject, req[r].role)
    <3>2. new \in Held /\ new.subject = req[r].subject
      BY <3>1 DEF New, Held, Refused, Templates
    <3>3. Hold(r, new)
      BY <2>1 DEF Log
    <3> QED BY <1>2, <3>2, <3>3
  <2>2. CASE req[r].op # "inviteMember"
    BY <2>2 DEF Log, End, Idle, Knowing
  <2> QED BY <2>1, <2>2
<1>6. user' = user /\ crossed' = crossed /\ cut' = cut
  BY DEF Log, rows, history
<1> QED BY <1>3, <1>4, <1>5, <1>6, WriteTypes

LEMMA WebhookTypes ==
  ASSUME TypeInv, Webhook, UNCHANGED <<rows, req, begun, history>>
  PROVE  TypeInv'
<1>1. sent \in Seq(SentMails) /\ log \in Seq(LogRows)
  BY MailTypes DEF TypeInv, TypeOK
<1>2. PICK id \in DOMAIN sent, status \in Finals : WebhookEvent(id, status)
  BY DEF Webhook
<1>3. log' \in Seq(LogRows)
  <2>0. \A row \in LogRows : [row EXCEPT !.status = status] \in LogRows
    BY DEF LogRows
  <2>1. \A i \in DOMAIN log : log[i] \in LogRows /\ [log[i] EXCEPT !.status = status] \in LogRows
    BY <1>1, <2>0
  <2>2. DOMAIN log = 1 .. Len(log) /\ Len(log) \in Nat
    BY <1>1
  <2>3. log' \in [1 .. Len(log) -> LogRows]
    BY <1>2, <2>1, <2>2 DEF WebhookEvent, Mark
  <2> QED BY <2>2, <2>3
<1>4. sent' \in Seq(SentMails)
  <2>1. DOMAIN sent = 1 .. Len(sent) /\ Len(sent) \in Nat
    BY <1>1
  <2>2. sent[id] \in SentMails
    BY <1>1
  <2> DEFINE said == IF \E i \in DOMAIN log : log[i].id = id THEN status ELSE "MISSED"
  <2>3. said \in {"SENT", "MISSED"} \cup Finals
    BY <1>2
  <2>4. [sent[id] EXCEPT !.reported = said] \in SentMails
    BY <2>2, <2>3 DEF SentMails
  <2>5. sent' = [sent EXCEPT ![id] = [sent[id] EXCEPT !.reported = said]]
    BY <1>2 DEF WebhookEvent
  <2> QED BY <1>1, <2>1, <2>4, <2>5
<1>5. MailTypeOK'
  BY <1>3, <1>4 DEF MailTypeOK, SentMails, LogRows
<1>6. Known'
  BY DEF TypeInv, Known, rows
<1> QED BY <1>5, <1>6 DEF TypeInv, TypeOK, rows, history

-----------------------------------------------------------------------------
\* Every step writes what its columns may hold.
LEMMA NextTypes == TypeInv /\ [Next]_vars => TypeInv'
<1> SUFFICES ASSUME TypeInv, [Next]_vars PROVE TypeInv'
  OBVIOUS
<1>1. ASSUME NEW u \in Users, Create(u) \/ Expire(u) PROVE TypeInv'
  BY <1>1, CreateTypes, ExpireTypes
<1>2. ASSUME NEW r \in Requests, NEW u \in Users, NEW s \in Users, NEW op \in Ops,
             NEW role \in (Roles \cap ASSIGNABLE_MEMBER_ROLES) \cup {NoOverride},
             Enter(r, u, op, s, role)
      PROVE  TypeInv'
  BY <1>2, EnterTypes
<1>3. ASSUME NEW r \in Requests, NEW u \in Users, AcceptFind(r, u) PROVE TypeInv'
  BY <1>3, AcceptFindTypes
<1>4. ASSUME NEW r \in Requests, Step(r) PROVE TypeInv'
  BY <1>4, DeleteTypes, FindUserTypes, CreateUserTypes, CreateTokenTypes, UpsertTypes,
     SendTypes, LogTypes, ReadMemberTypes, PreviousLogTypes, DropTokenTypes,
     ChangeMemberTypes, AcceptCommitTypes DEF Step
<1>5. ASSUME NEW r \in Requests, Abort(r) PROVE TypeInv'
  BY <1>5, AbortTypes
<1>6. CASE Webhook /\ UNCHANGED <<rows, req, begun, history>>
  BY <1>6, WebhookTypes
<1>7. CASE UNCHANGED vars
  BY <1>7 DEF vars, rows, mail, history, TypeInv, TypeOK, MailTypeOK, Known
<1> QED BY <1>1, <1>2, <1>3, <1>4, <1>5, <1>6, <1>7 DEF Next

\* Accounts, members, tokens, mails and rows keep their types, and no account that
\* was never created has a token or a membership: what inviteMember writes in
\* four statements keeps to the order of the foreign keys.
THEOREM TypeCorrect == Spec => []TypeOK
<1>1. Spec => []TypeInv
  BY InitTypes, NextTypes, PTL DEF Spec
<1>2. TypeInv => TypeOK
  BY DEF TypeInv
<1> QED BY <1>1, <1>2, PTL

-----------------------------------------------------------------------------
(* Tokens and links *)

\* The pcs between which a request reads or replaces a token.
LinkPcs == {"find", "user", "token", "previous", "drop", "accept"}

\* r is a LinkOp on u.
Works(r, u) == r \in Busy /\ req[r].op \in LinkOps /\ req[r].subject = u

LinkRows == <<user, token, accepts>>

\* What a step of r does to the rows about links, by the pc it leaves.
Quiet(r) ==
  /\ UNCHANGED LinkRows
  /\ req[r].pc # "token" /\ req'[r].pc \notin LinkPcs

Advances(r) ==
  /\ UNCHANGED LinkRows
  /\ \/ req[r].pc = "find" /\ req'[r].pc = "user"
     \/ /\ req[r].pc = "member" /\ req'[r].pc = "previous"
        /\ req[r].op = "resendInvite" /\ Pending(req[r].subject)
     \/ req[r].pc = "previous" /\ req'[r].pc = "drop"

Invites(r) ==
  /\ req[r].pc = "user" /\ req'[r].pc = "token"
  /\ user[req[r].subject].status = "none"
  /\ user' = [user EXCEPT ![req[r].subject] =
                [status |-> "PENDING_INVITE", role |-> req[r].role]]
  /\ UNCHANGED <<token, accepts>>

Makes(r) ==
  /\ req[r].pc = "token" /\ req'[r].pc \notin LinkPcs
  /\ \/ token[req[r].subject] # NoToken /\ token' = token
     \/ token' = [token EXCEPT ![req[r].subject] = [NoToken EXCEPT !.id = made + 1]]
  /\ UNCHANGED <<user, accepts>>

Drops(r) ==
  /\ req[r].pc = "drop" /\ req'[r].pc = "token"
  /\ token' = [token EXCEPT ![req[r].subject] = NoToken]
  /\ UNCHANGED <<user, accepts>>

Accepts(r) ==
  /\ req[r].pc = "accept" /\ req'[r].pc \notin LinkPcs
  /\ user' = [user EXCEPT ![req[r].subject].status = "ACTIVE"]
  /\ token' = [token EXCEPT ![req[r].subject].accepted = TRUE]
  /\ accepts' = [accepts EXCEPT ![req[r].subject] = @ + 1]

Keeps(r) ==
  /\ \A q \in Requests : q # r => req'[q] = req[q]
  /\ \/ req'[r] = Idle
     \/ req'[r].op = req[r].op /\ req'[r].subject = req[r].subject
  /\ crossed' = crossed /\ cut' = cut

\* The shape of a Hold that keeps the request's operation and subject.
LEMMA HoldKeeps ==
  ASSUME TypeInv, NEW r \in Requests, NEW held \in {Idle} \cup Held, Hold(r, held),
         held = Idle \/ (held.op = req[r].op /\ held.subject = req[r].subject),
         crossed' = crossed, cut' = cut
  PROVE  Keeps(r) /\ req'[r] = held
BY Slot DEF Keeps, TypeInv

LEMMA MoveKeeps ==
  ASSUME TypeInv, NEW r \in Requests, req[r].pc # "idle", NEW pc \in Pcs, Move(r, pc),
         crossed' = crossed, cut' = cut
  PROVE  Keeps(r) /\ req'[r].pc = pc
<1> DEFINE held == [req[r] EXCEPT !.pc = pc]
<1>1. req[r] \in Held
  BY Holding DEF TypeInv
<1>2. held \in Held /\ held.pc = pc /\ held.op = req[r].op /\ held.subject = req[r].subject
  BY <1>1 DEF Held
<1>3. Hold(r, held)
  BY DEF Move
<1> HIDE DEF held
<1> QED BY <1>2, <1>3, HoldKeeps

LEMMA EndKeeps ==
  ASSUME TypeInv, NEW r \in Requests, End(r), crossed' = crossed, cut' = cut
  PROVE  Keeps(r) /\ req'[r] = Idle
BY HoldKeeps DEF End

LEMMA IdleOff == Idle.pc \notin LinkPcs
BY DEF Idle, LinkPcs

Effect(r) == Quiet(r) \/ Advances(r) \/ Invites(r) \/ Makes(r) \/ Drops(r) \/ Accepts(r)

LEMMA EndsQuietly ==
  ASSUME TypeInv, NEW r \in Requests, End(r), UNCHANGED LinkRows, req[r].pc # "token",
         crossed' = crossed, cut' = cut
  PROVE  Keeps(r) /\ Effect(r)
BY EndKeeps, IdleOff DEF Effect, Quiet

LEMMA HoldsQuietly ==
  ASSUME TypeInv, NEW r \in Requests, NEW held \in Held, Hold(r, held),
         held.op = req[r].op, held.subject = req[r].subject, held.pc \notin LinkPcs,
         UNCHANGED LinkRows, req[r].pc # "token", crossed' = crossed, cut' = cut
  PROVE  Keeps(r) /\ Effect(r)
BY HoldKeeps DEF Effect, Quiet

LEMMA StepEffect ==
  ASSUME TypeInv, NEW r \in Requests, Step(r)
  PROVE  Keeps(r) /\ Effect(r)
<1>0. req[r].pc # "idle" /\ req[r] \in Held
  <2>1. req[r].pc # "idle"
    BY DEF Step, Delete, FindUser, CreateUser, CreateToken, Upsert, Send, Log, ReadMember,
       PreviousLog, DropToken, ChangeMember, AcceptCommit
  <2> QED BY <2>1, Holding DEF TypeInv
<1>1. CASE Delete(r) \/ Upsert(r) \/ ChangeMember(r)
  BY <1>1, EndsQuietly DEF Delete, Upsert, ChangeMember, LinkRows, history
<1>2. CASE FindUser(r)
  <2>1. crossed' = crossed /\ cut' = cut /\ UNCHANGED LinkRows /\ req[r].pc = "find"
    BY <1>2 DEF FindUser, LinkRows, rows, history
  <2>2. CASE user[req[r].subject].status = "none"
    BY <1>0, <1>2, <2>1, <2>2, MoveKeeps DEF FindUser, Effect, Advances, Pcs
  <2>3. CASE user[req[r].subject].status # "none"
    <3> DEFINE held == [req[r] EXCEPT !.pc = "send", !.template = "DATA_ROOM_INVITATION"]
    <3>1. held \in Held /\ held.op = req[r].op /\ held.subject = req[r].subject
          /\ held.pc \notin LinkPcs
      BY <1>0 DEF Held, Pcs, Templates, LinkPcs
    <3>2. Hold(r, held)
      BY <1>2, <2>3 DEF FindUser
    <3> QED BY <2>1, <3>1, <3>2, HoldsQuietly
  <2> QED BY <2>2, <2>3
<1>3. CASE CreateUser(r)
  <2>1. crossed' = crossed /\ cut' = cut /\ UNCHANGED <<token, accepts>> /\ req[r].pc = "user"
    BY <1>3 DEF CreateUser, history
  <2>2. CASE user[req[r].subject].status = "none"
    BY <1>0, <1>3, <2>1, <2>2, MoveKeeps DEF CreateUser, Effect, Invites, Pcs
  <2>3. CASE user[req[r].subject].status # "none"
    BY <1>3, <2>1, <2>3, EndsQuietly DEF CreateUser, LinkRows
  <2> QED BY <2>2, <2>3
<1>4. CASE CreateToken(r)
  <2>1. crossed' = crossed /\ cut' = cut /\ UNCHANGED <<user, accepts>> /\ req[r].pc = "token"
    BY <1>4 DEF CreateToken, history
  <2>2. CASE token[req[r].subject] = NoToken
    <3> DEFINE held == [req[r] EXCEPT !.pc = "send", !.link = NewLink]
    <3>1. NewLink \in Nat
      BY DEF NewLink, TypeInv, TypeOK
    <3>2. held \in Held /\ held.op = req[r].op /\ held.subject = req[r].subject
          /\ held.pc \notin LinkPcs
      BY <1>0, <3>1 DEF Held, Pcs, LinkPcs
    <3>3. Hold(r, held)
          /\ token' = [token EXCEPT ![req[r].subject] = [NoToken EXCEPT !.id = made + 1]]
      BY <1>4, <2>2 DEF CreateToken
    <3>4. Keeps(r) /\ req'[r] = held
      BY <2>1, <3>2, <3>3, HoldKeeps
    <3> QED BY <2>1, <3>2, <3>3, <3>4 DEF Effect, Makes
  <2>3. CASE token[req[r].subject] # NoToken
    BY <1>4, <2>1, <2>3, EndKeeps, IdleOff DEF CreateToken, Effect, Makes
  <2> QED BY <2>2, <2>3
<1>5. CASE Send(r)
  <2>1. crossed' = crossed /\ cut' = cut /\ UNCHANGED LinkRows /\ req[r].pc = "send"
    BY <1>5 DEF Send, LinkRows, rows, history
  <2>2. PICK id \in 0 .. Len(sent) + 1 : Hold(r, [req[r] EXCEPT !.pc = "log", !.id = id])
    BY <1>5 DEF Send
  <2> DEFINE held == [req[r] EXCEPT !.pc = "log", !.id = id]
  <2>3. id \in Nat
    <3>1. sent \in Seq(SentMails)
      BY MailTypes DEF TypeInv, TypeOK
    <3> QED BY <3>1
  <2>4. held \in Held /\ held.op = req[r].op /\ held.subject = req[r].subject
        /\ held.pc \notin LinkPcs
    BY <1>0, <2>3 DEF Held, Pcs, LinkPcs
  <2> QED BY <2>1, <2>2, <2>4, HoldsQuietly
<1>6. CASE Log(r)
  <2>1. crossed' = crossed /\ cut' = cut /\ UNCHANGED LinkRows /\ req[r].pc = "log"
    BY <1>6 DEF Log, LinkRows, rows, history
  <2>2. CASE req[r].op = "inviteMember"
    <3> DEFINE new == New("upsert", req[r].op, req[r].subject, req[r].role)
    <3>1. /\ new \in Held /\ new.subject = req[r].subject /\ new.op = req[r].op
          /\ new.pc \notin LinkPcs
      BY <1>0 DEF New, Held, Refused, Templates, Pcs, LinkPcs
    <3>2. Hold(r, new)
      BY <1>6, <2>2 DEF Log
    <3> HIDE DEF new
    <3> QED BY <2>1, <3>1, <3>2, HoldsQuietly
  <2>3. CASE req[r].op # "inviteMember"
    BY <1>6, <2>1, <2>3, EndsQuietly DEF Log
  <2> QED BY <2>2, <2>3
<1>7. CASE ReadMember(r)
  <2>1. crossed' = crossed /\ cut' = cut /\ UNCHANGED LinkRows /\ req[r].pc = "member"
    BY <1>7 DEF ReadMember, LinkRows, rows, history
  <2>2. \/ End(r) \/ Move(r, "change")
        \/ /\ Move(r, "previous")
           /\ req[r].op = "resendInvite" /\ Pending(req[r].subject)
        \/ Hold(r, [req[r] EXCEPT !.pc = "send", !.template = "PASSWORD_RESET"])
    BY <1>7 DEF ReadMember, Pending
  <2>3. CASE End(r)
    BY <2>1, <2>3, EndsQuietly
  <2>4. CASE Move(r, "change")
    <3>1. Keeps(r) /\ req'[r].pc = "change"
      BY <1>0, <2>1, <2>4, MoveKeeps DEF Pcs
    <3> QED BY <2>1, <3>1 DEF Effect, Quiet, LinkPcs
  <2>5. CASE Move(r, "previous") /\ req[r].op = "resendInvite" /\ Pending(req[r].subject)
    <3>1. Keeps(r) /\ req'[r].pc = "previous"
      BY <1>0, <2>1, <2>5, MoveKeeps DEF Pcs
    <3> QED BY <2>1, <2>5, <3>1 DEF Effect, Advances
  <2>6. CASE Hold(r, [req[r] EXCEPT !.pc = "send", !.template = "PASSWORD_RESET"])
    <3> DEFINE held == [req[r] EXCEPT !.pc = "send", !.template = "PASSWORD_RESET"]
    <3>1. held \in Held /\ held.op = req[r].op /\ held.subject = req[r].subject
          /\ held.pc \notin LinkPcs
      BY <1>0 DEF Held, Pcs, Templates, LinkPcs
    <3> QED BY <2>1, <2>6, <3>1, HoldsQuietly
  <2> QED BY <2>2, <2>3, <2>4, <2>5, <2>6
<1>8. CASE PreviousLog(r)
  <2>1. crossed' = crossed /\ cut' = cut /\ UNCHANGED LinkRows /\ req[r].pc = "previous"
    BY <1>8 DEF PreviousLog, LinkRows, rows, history
  <2>2. PICK i \in Invitations(req[r].subject) \cup {0} :
          Hold(r, [req[r] EXCEPT !.pc = "drop", !.resentFrom = i])
    BY <1>8 DEF PreviousLog
  <2> DEFINE held == [req[r] EXCEPT !.pc = "drop", !.resentFrom = i]
  <2>3. i \in Nat
    <3>1. log \in Seq(LogRows)
      BY MailTypes DEF TypeInv, TypeOK
    <3> QED BY <3>1 DEF Invitations
  <2>4. held \in Held /\ held.op = req[r].op /\ held.subject = req[r].subject
        /\ held.pc = "drop"
    BY <1>0, <2>3 DEF Held, Pcs
  <2>5. Keeps(r) /\ req'[r] = held
    BY <2>1, <2>2, <2>4, HoldKeeps
  <2> QED BY <2>1, <2>4, <2>5 DEF Effect, Advances
<1>9. CASE DropToken(r)
  BY <1>0, <1>9, MoveKeeps DEF DropToken, Effect, Drops, Pcs, history
<1>10. CASE AcceptCommit(r)
  <2>1. crossed' = crossed /\ cut' = cut /\ req[r].pc = "accept"
    BY <1>10 DEF AcceptCommit, history
  <2>2. CASE TokenThere(r)
    <3> DEFINE held == [req[r] EXCEPT !.pc = "send", !.link = 0]
    <3>1. held \in Held /\ held.op = req[r].op /\ held.subject = req[r].subject
          /\ held.pc \notin LinkPcs
      BY <1>0 DEF Held, Pcs, LinkPcs
    <3>2. Hold(r, held)
      BY <1>10, <2>2 DEF AcceptCommit
    <3>3. Keeps(r) /\ req'[r] = held
      BY <2>1, <3>1, <3>2, HoldKeeps
    <3> HIDE DEF held
    <3> QED BY <1>10, <2>1, <2>2, <3>1, <3>3 DEF AcceptCommit, Effect, Accepts
  <2>3. CASE ~TokenThere(r)
    BY <1>10, <2>1, <2>3, EndsQuietly DEF AcceptCommit, LinkRows
  <2> QED BY <2>2, <2>3
<1> QED BY <1>1, <1>2, <1>3, <1>4, <1>5, <1>6, <1>7, <1>8, <1>9, <1>10 DEF Step

\* Which operation is at a pc where tokens are read or replaced.
OpInv ==
  \A r \in Requests :
    /\ req[r].pc \in {"find", "user"} => req[r].op = "inviteMember"
    /\ req[r].pc \in {"previous", "drop"} => req[r].op = "resendInvite"
    /\ req[r].pc = "token" => req[r].op \in {"inviteMember", "resendInvite"}
    /\ req[r].pc = "accept" => req[r].op = "acceptInvite"

\* A pending account without a token has a request about to make one.
PendingInv ==
  \A u \in Users : Pending(u) /\ token[u] = NoToken =>
    u \in cut \/ \E r \in Requests : req[r].pc = "token" /\ req[r].subject = u

\* At most one LinkOp works on an account not yet active, unless two crossed.
OneInv ==
  \A u \in Users \ crossed : ~Active(u) =>
    \A q, r \in Requests : Works(q, u) /\ Works(r, u) => q = r

\* Nobody is about to replace or use the token of an active account, which was
\* accepted or never there, unless two requests crossed before it was active.
SettledInv ==
  \A u \in Users \ crossed : Active(u) =>
    /\ token[u] = NoToken \/ token[u].accepted
    /\ \A r \in Requests : req[r].pc \in LinkPcs /\ req[r].subject = u =>
         req[r].pc \in {"find", "user"}

CountInv ==
  \A u \in Users : /\ ~Active(u) => accepts[u] = 0
                   /\ u \notin crossed => accepts[u] <= 1

LinkInv == OpInv /\ PendingInv /\ OneInv /\ SettledInv /\ CountInv

LEMMA LinkInit == Init => LinkInv
<1> SUFFICES ASSUME Init PROVE LinkInv
  OBVIOUS
<1>1. \A r \in Requests : req[r].pc = "idle"
  BY DEF Init, Idle
<1>2. OpInv /\ OneInv
  BY <1>1 DEF OpInv, OneInv, Works, Busy
<1>3. PendingInv
  BY DEF Init, PendingInv, Pending
<1>4. SettledInv /\ CountInv
  BY <1>1 DEF Init, SettledInv, CountInv, LinkPcs
<1> QED BY <1>2, <1>3, <1>4 DEF LinkInv

\* What a slot at one of these pcs holds.
LEMMA AtLinkPc ==
  ASSUME TypeInv, OpInv, NEW r \in Requests, req[r].pc \in LinkPcs
  PROVE  req[r].subject \in Users /\ Works(r, req[r].subject)
<1>1. req[r].pc # "idle" /\ r \in Busy
  BY DEF LinkPcs, Busy
<1>2. req[r] \in Held
  BY <1>1, Holding DEF TypeInv
<1>3. req[r].op \in LinkOps
  BY DEF OpInv, LinkPcs, LinkOps
<1> QED BY <1>1, <1>2, <1>3 DEF Works, Held

\* A step leaves every other slot and gives none a new subject.
LEMMA WorksKept ==
  ASSUME TypeInv, NEW r \in Requests, req[r].pc # "idle", Keeps(r)
  PROVE  \A q \in Requests, u \in Users : Works(q, u)' => Works(q, u)
BY DEF Keeps, Works, Busy, Idle

LEMMA StepOps ==
  ASSUME TypeInv, OpInv, NEW r \in Requests, Keeps(r), Effect(r)
  PROVE  OpInv'
<1> SUFFICES ASSUME NEW q \in Requests
             PROVE  /\ req'[q].pc \in {"find", "user"} => req'[q].op = "inviteMember"
                    /\ req'[q].pc \in {"previous", "drop"} => req'[q].op = "resendInvite"
                    /\ req'[q].pc = "token" => req'[q].op \in {"inviteMember", "resendInvite"}
                    /\ req'[q].pc = "accept" => req'[q].op = "acceptInvite"
  BY DEF OpInv
<1>1. CASE q # r
  BY <1>1 DEF Keeps, OpInv
<1>2. CASE q = r
  <2>1. CASE req'[r] = Idle
    BY <1>2, <2>1 DEF Idle
  <2>2. CASE req'[r].op = req[r].op
    BY <1>2, <2>2 DEF OpInv, Effect, Quiet, Advances, Invites, Makes, Drops, Accepts, LinkPcs
  <2> QED BY <2>1, <2>2 DEF Keeps
<1> QED BY <1>1, <1>2

LEMMA StepPending ==
  ASSUME TypeInv, OpInv, PendingInv, NEW r \in Requests, Keeps(r), Effect(r)
  PROVE  PendingInv'
<1> DEFINE s == req[r].subject
<1>0. RowTypes
  BY RowsTyped DEF TypeInv
<1>1. SUFFICES ASSUME NEW u \in Users, Pending(u)', token'[u] = NoToken
               PROVE  \/ u \in cut'
                      \/ \E q \in Requests : req'[q].pc = "token" /\ req'[q].subject = u
  BY DEF PendingInv
<1>2. CASE req'[r].pc = "token" /\ s = u
  BY <1>2 DEF Keeps, Idle
<1>3. CASE ~(req'[r].pc = "token" /\ s = u)
  <2>1. Pending(u) /\ token[u] = NoToken /\ ~(req[r].pc = "token" /\ s = u)
    <3>1. CASE Quiet(r) \/ Advances(r)
      BY <1>1, <3>1 DEF Quiet, Advances, LinkRows, Pending
    <3>2. CASE Invites(r)
      BY <1>0, <1>1, <1>3, <3>2 DEF Invites, Pending, RowTypes
    <3>3. CASE Makes(r)
      <4>1. s \in Users /\ made + 1 # 0
        BY <1>0, <3>3, AtLinkPc DEF Makes, LinkPcs, RowTypes
      <4>2. [NoToken EXCEPT !.id = made + 1] # NoToken
        BY <4>1 DEF NoToken
      <4> QED BY <1>0, <1>1, <3>3, <4>1, <4>2 DEF Makes, Pending, RowTypes
    <3>4. CASE Drops(r)
      BY <1>0, <1>1, <1>3, <3>4 DEF Drops, Pending, RowTypes
    <3>5. CASE Accepts(r)
      <4>1. s \in Users
        BY <3>5, AtLinkPc DEF Accepts, LinkPcs
      <4>2. u # s
        BY <1>0, <1>1, <3>5, <4>1 DEF Accepts, Pending, RowTypes, Accounts
      <4> QED BY <1>0, <1>1, <3>5, <4>2 DEF Accepts, Pending, RowTypes
    <3> QED BY <3>1, <3>2, <3>3, <3>4, <3>5 DEF Effect
  <2>2. CASE u \in cut
    BY <2>2 DEF Keeps
  <2>3. CASE \E q \in Requests : req[q].pc = "token" /\ req[q].subject = u
    BY <2>1, <2>3 DEF Keeps
  <2> QED BY <2>1, <2>2, <2>3 DEF PendingInv
<1> QED BY <1>2, <1>3

\* Which accounts a step makes active.
LEMMA ActiveAfter ==
  ASSUME TypeInv, OpInv, NEW r \in Requests, Keeps(r), Effect(r)
  PROVE  /\ \A u \in Users : Active(u) => Active(u)'
         /\ \A u \in Users : Active(u)' /\ ~Active(u) =>
              Accepts(r) /\ req[r].subject = u
<1>0. RowTypes
  BY RowsTyped DEF TypeInv
<1>1. CASE Quiet(r) \/ Advances(r) \/ Makes(r) \/ Drops(r)
  BY <1>1 DEF Quiet, Advances, Makes, Drops, LinkRows, Active
<1>2. CASE Invites(r)
  BY <1>0, <1>2 DEF Invites, Active, RowTypes
<1>3. CASE Accepts(r)
  BY <1>0, <1>3 DEF Accepts, Active, RowTypes, Accounts
<1> QED BY <1>1, <1>2, <1>3 DEF Effect

LEMMA StepOne ==
  ASSUME TypeInv, OpInv, OneInv, NEW r \in Requests, req[r].pc # "idle", Keeps(r), Effect(r)
  PROVE  OneInv'
BY WorksKept, ActiveAfter DEF OneInv, Keeps

LEMMA StepSettled ==
  ASSUME TypeInv, OpInv, OneInv, SettledInv, NEW r \in Requests, Keeps(r), Effect(r)
  PROVE  SettledInv'
<1> DEFINE s == req[r].subject
<1>0. RowTypes
  BY RowsTyped DEF TypeInv
<1>1. SUFFICES ASSUME NEW u \in Users, u \notin crossed, Active(u)'
      PROVE  /\ token'[u] = NoToken \/ token'[u].accepted
             /\ \A q \in Requests : req'[q].pc \in LinkPcs /\ req'[q].subject = u =>
                  req'[q].pc \in {"find", "user"}
  BY DEF SettledInv, Keeps
<1>2. CASE Active(u)
  <2>1. /\ token[u] = NoToken \/ token[u].accepted
        /\ \A q \in Requests : req[q].pc \in LinkPcs /\ req[q].subject = u =>
             req[q].pc \in {"find", "user"}
    BY <1>1, <1>2 DEF SettledInv
  <2>2. CASE s # u
    <3>1. token'[u] = token[u]
      BY <1>0, <2>2 DEF RowTypes, Effect, Quiet, Advances, Invites, Makes, Drops, Accepts,
         LinkRows
    <3>2. \A q \in Requests : req'[q].pc \in LinkPcs /\ req'[q].subject = u =>
            req[q].pc \in LinkPcs /\ req[q].subject = u /\ req'[q].pc = req[q].pc
      BY <2>2, IdleOff DEF Keeps
    <3> QED BY <2>1, <3>1, <3>2
  <2>3. CASE s = u
    <3>1. Quiet(r) \/ (Advances(r) /\ req'[r].pc = "user")
      BY <1>2, <2>1, <2>3 DEF Effect, Advances, Invites, Makes, Drops, Accepts, LinkPcs,
         Pending, Active
    <3> QED BY <2>1, <3>1 DEF Quiet, Advances, LinkRows, Keeps
  <2> QED BY <2>2, <2>3
<1>3. CASE ~Active(u)
  <2>1. Accepts(r) /\ s = u
    BY <1>1, <1>3, ActiveAfter
  <2>2. token'[u].accepted
    BY <1>0, <2>1 DEF Accepts, RowTypes, Tokens
  <2>3. \A q \in Requests : q # r => ~(req[q].pc \in LinkPcs /\ req[q].subject = u)
    <3>1. Works(r, u)
      BY <2>1, AtLinkPc DEF Accepts, LinkPcs
    <3>2. \A q \in Requests : req[q].pc \in LinkPcs /\ req[q].subject = u => Works(q, u)
      BY AtLinkPc
    <3> QED BY <1>1, <1>3, <3>1, <3>2 DEF OneInv
  <2> QED BY <2>1, <2>2, <2>3 DEF Accepts, Keeps
<1> QED BY <1>2, <1>3

LEMMA StepCount ==
  ASSUME TypeInv, OpInv, SettledInv, CountInv, NEW r \in Requests, Keeps(r), Effect(r)
  PROVE  CountInv'
<1> DEFINE s == req[r].subject
<1>0. RowTypes
  BY RowsTyped DEF TypeInv
<1>1. \A u \in Users : Active(u) => Active(u)'
  BY ActiveAfter
<1>2. CASE ~Accepts(r)
  <2>1. accepts' = accepts
    BY <1>2 DEF Effect, Quiet, Advances, Invites, Makes, Drops, LinkRows
  <2> QED BY <1>1, <2>1 DEF CountInv, Keeps
<1>3. CASE Accepts(r)
  <2>1. s \in Users /\ req[r].pc \in LinkPcs /\ req[r].pc \notin {"find", "user"}
    BY <1>3, AtLinkPc DEF Accepts, LinkPcs
  <2>2. /\ accepts' = [accepts EXCEPT ![s] = @ + 1] /\ accepts \in [Users -> Nat]
    BY <1>0, <1>3 DEF Accepts, RowTypes
  <2>3. user'[s].status = "ACTIVE"
    BY <1>0, <1>3, <2>1 DEF Accepts, RowTypes, Accounts
  <2>4. s \notin crossed => accepts[s] = 0
    BY <2>1 DEF SettledInv, CountInv
  <2>5. \A u \in Users : u # s => accepts'[u] = accepts[u]
    BY <2>2
  <2>6. accepts'[s] = accepts[s] + 1
    BY <2>1, <2>2
  <2>7. \A u \in Users : /\ ~Active(u)' => accepts'[u] = 0
                         /\ u \notin crossed' => accepts'[u] <= 1
    BY <1>1, <2>2, <2>3, <2>4, <2>5, <2>6 DEF CountInv, Keeps, Active
  <2> QED BY <2>7 DEF CountInv
<1> QED BY <1>2, <1>3

\* A request that begins, and one that is cut short.
LEMMA BeginLink ==
  ASSUME TypeInv, LinkInv, NEW r \in Requests, NEW held \in Held, Begin(r, held),
         UNCHANGED LinkRows, held.pc \notin LinkPcs \ {"find", "accept"},
         held.pc = "find" => held.op = "inviteMember",
         held.pc = "accept" => /\ held.op = "acceptInvite"
                               /\ token[held.subject] # NoToken
                               /\ ~token[held.subject].accepted
  PROVE  LinkInv'
<1> DEFINE s == held.subject
<1>1. /\ req[r] = Idle /\ req'[r] = held
      /\ \A q \in Requests : q # r => req'[q] = req[q]
      /\ crossed' = crossed \cup (WorkedOn \cap Touched(held)) /\ cut' = cut
  BY Slot DEF Begin, TypeInv
<1>2. OpInv'
  BY <1>1 DEF LinkInv, OpInv, LinkPcs
<1>3. PendingInv'
  <2>1. \A q \in Requests : req[q].pc = "token" => q # r
    BY <1>1 DEF Idle
  <2> QED BY <1>1, <2>1 DEF LinkInv, PendingInv, Pending, LinkRows
<1>4. OneInv'
  <2> SUFFICES ASSUME NEW u \in Users, u \notin crossed', ~Active(u)', NEW p \in Requests,
                      NEW q \in Requests, Works(p, u)', Works(q, u)'
               PROVE  p = q
    BY DEF OneInv
  <2>1. u \notin crossed /\ ~Active(u)
    BY <1>1 DEF Active, LinkRows
  <2>2. \A t \in Requests : t # r /\ Works(t, u)' => Works(t, u) /\ u \in WorkedOn
    BY <1>1 DEF Works, Busy, WorkedOn
  <2>3. Works(r, u)' => u \notin WorkedOn
    BY <1>1, <2>1 DEF Works, Touched
  <2> QED BY <2>1, <2>2, <2>3 DEF LinkInv, OneInv
<1>5. SettledInv'
  <2> SUFFICES ASSUME NEW u \in Users, u \notin crossed', Active(u)'
               PROVE  /\ token'[u] = NoToken \/ token'[u].accepted
                      /\ \A q \in Requests : req'[q].pc \in LinkPcs /\ req'[q].subject = u =>
                           req'[q].pc \in {"find", "user"}
    BY DEF SettledInv
  <2>1. /\ u \notin crossed /\ Active(u) /\ token'[u] = token[u]
    BY <1>1 DEF Active, LinkRows
  <2>2. /\ token[u] = NoToken \/ token[u].accepted
        /\ \A q \in Requests : req[q].pc \in LinkPcs /\ req[q].subject = u =>
             req[q].pc \in {"find", "user"}
    BY <2>1 DEF LinkInv, SettledInv
  <2>3. ~(held.pc = "accept" /\ s = u)
    BY <2>2
  <2> QED BY <1>1, <2>1, <2>2, <2>3
<1>6. CountInv'
  BY <1>1 DEF LinkInv, CountInv, Active, LinkRows
<1> QED BY <1>2, <1>3, <1>4, <1>5, <1>6 DEF LinkInv

LEMMA AbortLink ==
  ASSUME TypeInv, LinkInv, NEW r \in Requests, Abort(r)
  PROVE  LinkInv'
<1>0. UNCHANGED LinkRows /\ crossed' = crossed
  BY DEF Abort, rows, LinkRows
<1>1. /\ req'[r] = Idle /\ req[r].pc # "idle"
      /\ \A q \in Requests : q # r => req'[q] = req[q]
      /\ cut' = cut \cup Touched(req[r])
  <2>1. Idle \in {Idle} \cup Held
    OBVIOUS
  <2> QED BY <2>1, Slot DEF Abort, End, TypeInv, Busy
<1>2. OpInv'
  BY <1>1 DEF LinkInv, OpInv, Idle
<1>3. PendingInv'
  <2> SUFFICES ASSUME NEW u \in Users, Pending(u)', token'[u] = NoToken
               PROVE  \/ u \in cut'
                      \/ \E q \in Requests : req'[q].pc = "token" /\ req'[q].subject = u
    BY DEF PendingInv
  <2>1. Pending(u) /\ token[u] = NoToken
    BY <1>0 DEF Pending, LinkRows
  <2>2. CASE u \in cut
    BY <1>1, <2>2
  <2>3. CASE \E q \in Requests : req[q].pc = "token" /\ req[q].subject = u
    <3>1. PICK q \in Requests : req[q].pc = "token" /\ req[q].subject = u
      BY <2>3
    <3>2. CASE q = r
      <4>1. Works(r, u)
        BY <3>1, <3>2, AtLinkPc DEF LinkInv, LinkPcs
      <4>2. u \in Touched(req[r])
        BY <2>1, <4>1 DEF Works, Touched, Active, Pending
      <4> QED BY <1>1, <4>2
    <3>3. CASE q # r
      BY <1>1, <3>1, <3>3
    <3> QED BY <3>2, <3>3
  <2> QED BY <2>1, <2>2, <2>3 DEF LinkInv, PendingInv
<1>4. OneInv'
  BY <1>0, <1>1 DEF LinkInv, OneInv, Works, Busy, Idle, Active, LinkRows
<1>5. SettledInv'
  BY <1>0, <1>1, IdleOff DEF LinkInv, SettledInv, Active, LinkRows
<1>6. CountInv'
  BY <1>0 DEF LinkInv, CountInv, Active, LinkRows
<1> QED BY <1>2, <1>3, <1>4, <1>5, <1>6 DEF LinkInv

LEMMA LinkSame ==
  ASSUME LinkInv, UNCHANGED <<user, token, accepts, req, crossed, cut>>
  PROVE  LinkInv'
BY DEF LinkInv, OpInv, PendingInv, OneInv, SettledInv, CountInv, Pending, Active, Works, Busy

LEMMA ExpireLink ==
  ASSUME TypeInv, LinkInv, NEW u \in Users, Expire(u)
  PROVE  LinkInv'
<1>0. RowTypes
  BY RowsTyped DEF TypeInv
<1>1. UNCHANGED <<user, accepts, req, crossed, cut>>
  BY DEF Expire, history
<1>2. /\ token[u] # NoToken
      /\ token' = [token EXCEPT ![u].expired = TRUE]
  BY DEF Expire
<1>3. \A v \in Users : /\ token'[v].accepted = token[v].accepted
                       /\ v # u => token'[v] = token[v]
  BY <1>0, <1>2 DEF RowTypes, Tokens
<1>4. token'[u] # NoToken
  <2>1. token'[u].expired = TRUE
    BY <1>0, <1>2 DEF RowTypes, Tokens
  <2> QED BY <2>1 DEF NoToken
<1>5. OpInv' /\ OneInv' /\ CountInv'
  BY <1>1 DEF LinkInv, OpInv, OneInv, CountInv, Active, Works, Busy
<1>6. PendingInv'
  BY <1>1, <1>2, <1>3, <1>4 DEF LinkInv, PendingInv, Pending
<1>7. SettledInv'
  BY <1>1, <1>2, <1>3 DEF LinkInv, SettledInv, Active
<1> QED BY <1>5, <1>6, <1>7 DEF LinkInv

LEMMA LinkNext == TypeInv /\ LinkInv /\ [Next]_vars => LinkInv'
<1> SUFFICES ASSUME TypeInv, LinkInv, [Next]_vars PROVE LinkInv'
  OBVIOUS
<1>1. ASSUME NEW u \in Users, Create(u) PROVE LinkInv'
  BY <1>1, LinkSame DEF Create, history
<1>2. ASSUME NEW u \in Users, Expire(u) PROVE LinkInv'
  BY <1>2, ExpireLink
<1>3. ASSUME NEW r \in Requests, NEW u \in Users, NEW s \in Users, NEW op \in Ops,
             NEW role \in (Roles \cap ASSIGNABLE_MEMBER_ROLES) \cup {NoOverride},
             Enter(r, u, op, s, role)
      PROVE  LinkInv'
  <2>1. FirstStep(op) \in {"delete", "find", "member"}
    BY DEF FirstStep
  <2>2. FirstStep(op) = "find" => op = "inviteMember"
    BY DEF FirstStep
  <2>3. FirstStep(op) \in Pcs /\ FirstStep(op) \notin LinkPcs \ {"find"}
    BY <2>1 DEF Pcs, LinkPcs
  <2> DEFINE held == New(FirstStep(op), op, s, role)
  <2>4. held \in Held /\ held.pc = FirstStep(op) /\ held.op = op
    BY <2>3, NewHeld
  <2>5. Begin(r, held) /\ UNCHANGED LinkRows
    BY <1>3 DEF Enter, rows, LinkRows, Begin
  <2> HIDE DEF held
  <2> QED BY <2>1, <2>2, <2>3, <2>4, <2>5, BeginLink
<1>4. ASSUME NEW r \in Requests, NEW u \in Users, AcceptFind(r, u) PROVE LinkInv'
  <2> DEFINE new == New("accept", "acceptInvite", u, NoOverride)
             held == [new EXCEPT !.link = token[u].id, !.template = "WELCOME_EMAIL"]
  <2>1. new \in Held /\ new.subject = u /\ new.pc = "accept" /\ new.op = "acceptInvite"
    BY NewHeld DEF Pcs
  <2>2. token[u].id \in Nat
    BY DEF TypeInv, TypeOK
  <2>3. held \in Held /\ held.subject = u /\ held.pc = "accept" /\ held.op = "acceptInvite"
    BY <2>1, <2>2 DEF Held, Templates
  <2>4. token[u] # NoToken /\ ~token[u].accepted
    BY <1>4 DEF AcceptFind, NoToken, Usable
  <2> HIDE DEF held
  <2>5. Begin(r, held) /\ UNCHANGED LinkRows
    BY <1>4 DEF AcceptFind, held, rows, LinkRows, Begin
  <2> QED BY <2>3, <2>4, <2>5, BeginLink
<1>5. ASSUME NEW r \in Requests, Step(r) PROVE LinkInv'
  <2>1. Keeps(r) /\ Effect(r)
    BY <1>5, StepEffect
  <2>2. req[r].pc # "idle"
    BY <1>5 DEF Step, Delete, FindUser, CreateUser, CreateToken, Upsert, Send, Log, ReadMember,
       PreviousLog, DropToken, ChangeMember, AcceptCommit
  <2> QED BY <2>1, <2>2, StepOps, StepPending, StepOne, StepSettled, StepCount DEF LinkInv
<1>6. ASSUME NEW r \in Requests, Abort(r) PROVE LinkInv'
  BY <1>6, AbortLink
<1>7. CASE Webhook /\ UNCHANGED <<rows, req, begun, history>>
  BY <1>7, LinkSame DEF rows, history
<1>8. CASE UNCHANGED vars
  BY <1>8, LinkSame DEF vars, rows, history
<1> QED BY <1>1, <1>2, <1>3, <1>4, <1>5, <1>6, <1>7, <1>8 DEF Next

LEMMA LinkAlways == Spec => [](TypeInv /\ LinkInv)
<1>1. Init => TypeInv /\ LinkInv
  BY InitTypes, LinkInit
<1>2. TypeInv /\ LinkInv /\ [Next]_vars => (TypeInv /\ LinkInv)'
  BY NextTypes, LinkNext
<1> QED BY <1>1, <1>2, PTL DEF Spec

\* However many invitations and resends cross, an account left pending with nobody
\* working on it has a token, unless a request on it was cut short.
THEOREM PendingKeepsToken == Spec => []PendingHasToken
<1>1. TypeInv /\ LinkInv => PendingHasToken
  <2> SUFFICES ASSUME TypeInv, LinkInv, NEW u \in Users, Pending(u),
                      u \notin WorkedOn \cup cut, token[u] = NoToken
               PROVE  FALSE
    BY DEF PendingHasToken
  <2>1. PICK r \in Requests : req[r].pc = "token" /\ req[r].subject = u
    BY DEF LinkInv, PendingInv
  <2>2. Works(r, u)
    BY <2>1, AtLinkPc DEF LinkInv, LinkPcs
  <2> QED BY <2>2 DEF Works, WorkedOn
<1> QED BY <1>1, LinkAlways, PTL

\* A password is set through an invitation once, unless two requests on the account
\* crossed before it was active.
THEOREM InvitationUsedOnce == Spec => []AcceptedOnce
<1>1. TypeInv /\ LinkInv => AcceptedOnce
  BY RowsTyped DEF LinkInv, CountInv, AcceptedOnce, TypeInv, RowTypes
<1> QED BY <1>1, LinkAlways, PTL

\* The step that sets a password with a link finds its token row still there: a
\* resend in between leaves the older link dead.
THEOREM ReplacedLinkDies == Spec => ReplacedLinkIsDead
<1> DEFINE A == \A r \in Requests :
                  /\ req[r].pc = "accept" /\ req'[r].pc = "send"
                  => token[req[r].subject].id = req[r].link
<1>1. TypeInv /\ [Next]_vars => [A]_vars
  <2> SUFFICES ASSUME TypeInv, Next, NEW r \in Requests, req[r].pc = "accept",
                      req'[r].pc = "send"
               PROVE  token[req[r].subject].id = req[r].link
    BY DEF vars
  <2>1. req'[r] # req[r]
    OBVIOUS
  <2>2. ASSUME NEW q \in Requests, NEW held \in {Idle} \cup Held, Begin(q, held)
        PROVE  FALSE
    BY <2>1, <2>2, Slot DEF Begin, Idle, TypeInv
  <2>3. ASSUME NEW q \in Requests, NEW u \in Users, NEW s \in Users, NEW op \in Ops,
               NEW role \in (Roles \cap ASSIGNABLE_MEMBER_ROLES) \cup {NoOverride},
               Enter(q, u, op, s, role)
        PROVE  FALSE
    <3>1. FirstStep(op) \in Pcs
      BY DEF FirstStep, Pcs
    <3>2. New(FirstStep(op), op, s, role) \in Held
      BY <3>1, NewHeld
    <3> QED BY <2>2, <2>3, <3>2 DEF Enter
  <2>4. ASSUME NEW q \in Requests, NEW u \in Users, AcceptFind(q, u) PROVE FALSE
    BY <2>1, <2>4 DEF AcceptFind, Begin, Idle, TypeInv, TypeOK
  <2>5. ASSUME NEW q \in Requests, Step(q) PROVE token[req[r].subject].id = req[r].link
    <3>1. Keeps(q)
      BY <2>5, StepEffect
    <3>2. q = r
      BY <2>1, <3>1 DEF Keeps
    <3>3. AcceptCommit(r)
      BY <2>5, <3>2 DEF Step, Delete, FindUser, CreateUser, CreateToken, Upsert, Send, Log,
         ReadMember, PreviousLog, DropToken, ChangeMember
    <3>4. CASE ~TokenThere(r)
      BY <3>3, <3>4, EndKeeps DEF AcceptCommit, Idle
    <3> QED BY <3>4 DEF TokenThere
  <2>6. ASSUME NEW q \in Requests, Abort(q) PROVE FALSE
    <3>1. Idle \in {Idle} \cup Held
      OBVIOUS
    <3> QED BY <2>1, <2>6, <3>1, Slot DEF Abort, End, Idle, TypeInv
  <2>7. ASSUME UNCHANGED req PROVE FALSE
    BY <2>1, <2>7
  <2> QED BY <2>3, <2>4, <2>5, <2>6, <2>7 DEF Next, Create, Expire
<1>2. Spec => [][A]_vars
  BY <1>1, InitTypes, NextTypes, PTL DEF Spec
<1> QED BY <1>2 DEF ReplacedLinkIsDead

-----------------------------------------------------------------------------
(* Mails and their rows *)

AtLog(r) == req[r].pc = "log" /\ req[r].id # Refused

\* A mail taken by the provider has one row, or one request about to write it, or
\* its request was cut short; and only a mail with a row is reported on.
MailInv ==
  /\ \A i \in DOMAIN log : log[i].id <= Len(sent)
  /\ \A r \in Requests : AtLog(r) =>
       /\ req[r].id <= Len(sent)
       /\ \A i \in DOMAIN log : log[i].id # req[r].id
       /\ \A q \in Requests : AtLog(q) /\ req[q].id = req[r].id => q = r
  /\ \A id \in DOMAIN sent : sent[id].reported \in Finals =>
       \E i \in DOMAIN log : log[i].id = id
  /\ RowsFollowProvider

\* A step that touches no mail puts nobody at log.
LEMMA MailSame ==
  ASSUME MailInv, UNCHANGED mail,
         \A r \in Requests : req'[r].pc = "log" => req'[r] = req[r]
  PROVE  MailInv'
<1>1. sent' = sent /\ log' = log
  BY DEF mail
<1>2. \A r \in Requests : AtLog(r)' => AtLog(r) /\ req'[r] = req[r]
  BY DEF AtLog
<1> QED BY <1>1, <1>2 DEF MailInv, RowsFollowProvider

LEMMA HoldAt ==
  ASSUME TypeInv, NEW r \in Requests, NEW held, Hold(r, held) \/ Begin(r, held)
  PROVE  req'[r] = held /\ \A q \in Requests : q # r => req'[q] = req[q]
BY DEF TypeInv, TypeOK, Hold, Begin

LEMMA NotToLog ==
  ASSUME TypeInv, NEW r \in Requests, Step(r), ~Send(r)
  PROVE  \A q \in Requests : req'[q].pc = "log" => req'[q] = req[q]
<1>1. Keeps(r)
  BY StepEffect
<1>2. req[r] \in Held
  <2>1. req[r].pc # "idle"
    BY DEF Step, Delete, FindUser, CreateUser, CreateToken, Upsert, Send, Log, ReadMember,
       PreviousLog, DropToken, ChangeMember, AcceptCommit
  <2> QED BY <2>1, Holding DEF TypeInv
<1>3. req'[r].pc # "log"
  <2>0. ASSUME NEW held, Hold(r, held), held.pc # "log" PROVE req'[r].pc # "log"
    BY <2>0, HoldAt
  <2>1. CASE End(r)
    BY <2>1, HoldAt DEF End, Idle
  <2>2. ASSUME NEW pc \in Pcs \ {"log"}, Move(r, pc) PROVE req'[r].pc # "log"
    BY <1>2, <2>2, HoldAt DEF Move, Held
  <2>3. CASE Delete(r) \/ Upsert(r) \/ ChangeMember(r)
    BY <2>1, <2>3 DEF Delete, Upsert, ChangeMember
  <2>4. CASE FindUser(r)
    <3>1. CASE Move(r, "user")
      BY <2>2, <3>1 DEF Pcs
    <3>2. CASE Hold(r, [req[r] EXCEPT !.pc = "send", !.template = "DATA_ROOM_INVITATION"])
      <4>1. [req[r] EXCEPT !.pc = "send", !.template = "DATA_ROOM_INVITATION"].pc = "send"
        BY <1>2 DEF Held
      <4> QED BY <2>0, <3>2, <4>1
    <3> QED BY <2>4, <3>1, <3>2 DEF FindUser
  <2>5. CASE CreateUser(r)
    BY <2>1, <2>2, <2>5 DEF CreateUser, Pcs
  <2>6. CASE CreateToken(r)
    <3>1. CASE Hold(r, [req[r] EXCEPT !.pc = "send", !.link = NewLink])
      <4>1. [req[r] EXCEPT !.pc = "send", !.link = NewLink].pc = "send"
        BY <1>2 DEF Held
      <4> QED BY <2>0, <3>1, <4>1
    <3> QED BY <2>1, <2>6, <3>1 DEF CreateToken
  <2>7. CASE Log(r)
    <3>1. CASE Hold(r, New("upsert", req[r].op, req[r].subject, req[r].role))
      BY <3>1, HoldAt DEF New
    <3> QED BY <2>1, <2>7, <3>1 DEF Log
  <2>8. CASE ReadMember(r)
    <3>1. CASE Move(r, "previous") \/ Move(r, "change")
      BY <2>2, <3>1 DEF Pcs
    <3>2. CASE Hold(r, [req[r] EXCEPT !.pc = "send", !.template = "PASSWORD_RESET"])
      <4>1. [req[r] EXCEPT !.pc = "send", !.template = "PASSWORD_RESET"].pc = "send"
        BY <1>2 DEF Held
      <4> QED BY <2>0, <3>2, <4>1
    <3> QED BY <2>1, <2>8, <3>1, <3>2 DEF ReadMember
  <2>9. CASE PreviousLog(r)
    <3>1. PICK i : Hold(r, [req[r] EXCEPT !.pc = "drop", !.resentFrom = i])
      BY <2>9 DEF PreviousLog
    <3>2. [req[r] EXCEPT !.pc = "drop", !.resentFrom = i].pc = "drop"
      BY <1>2 DEF Held
    <3> QED BY <2>0, <3>1, <3>2
  <2>10. CASE DropToken(r)
    BY <2>2, <2>10 DEF DropToken, Pcs
  <2>11. CASE AcceptCommit(r)
    <3>1. CASE Hold(r, [req[r] EXCEPT !.pc = "send", !.link = 0])
      <4>1. [req[r] EXCEPT !.pc = "send", !.link = 0].pc = "send"
        BY <1>2 DEF Held
      <4> QED BY <2>0, <3>1, <4>1
    <3> QED BY <2>1, <2>11, <3>1 DEF AcceptCommit
  <2> QED BY <2>3, <2>4, <2>5, <2>6, <2>7, <2>8, <2>9, <2>10, <2>11 DEF Step
<1> QED BY <1>1, <1>3 DEF Keeps

LEMMA SendMail == ASSUME TypeInv, MailInv, NEW r \in Requests, Send(r) PROVE MailInv'
<1>1. sent \in Seq(SentMails) /\ log \in Seq(LogRows) /\ log' = log
  BY MailTypes DEF TypeInv, TypeOK, Send
<1>2. PICK id \in 0 .. Len(sent) + 1 :
        /\ ProviderSend(id, req[r].subject, req[r].link)
        /\ Hold(r, [req[r] EXCEPT !.pc = "log", !.id = id])
  BY DEF Send
<1>3. req[r] \in Held
  BY Holding DEF TypeInv, Send
<1>4. /\ req'[r].id = id
      /\ \A q \in Requests : q # r => req'[q] = req[q]
  BY <1>2, <1>3, HoldAt DEF Held
<1>5. CASE id = Refused /\ sent' = sent
  <2>1. \A q \in Requests : AtLog(q)' => q # r /\ AtLog(q) /\ req'[q] = req[q]
    BY <1>4, <1>5 DEF AtLog
  <2> QED BY <1>1, <1>5, <2>1 DEF MailInv, RowsFollowProvider
<1>6. CASE id = Len(sent) + 1 /\ sent' = Append(sent, [to |-> req[r].subject,
              link |-> req[r].link, reported |-> "SENT"])
  <2>1. /\ Len(sent) \in Nat /\ Len(sent') = Len(sent) + 1
        /\ DOMAIN sent = 1 .. Len(sent) /\ DOMAIN sent' = 1 .. Len(sent) + 1
        /\ \A k \in DOMAIN sent : sent'[k] = sent[k]
        /\ sent'[Len(sent) + 1].reported = "SENT"
    BY <1>1, <1>6
  <2>2. \A i \in DOMAIN log : log[i].id \in Nat
    <3>1. \A i \in DOMAIN log : log[i] \in LogRows
      BY <1>1
    <3> QED BY <3>1 DEF LogRows
  <2>3. \A q \in Requests : q # r /\ AtLog(q)' => AtLog(q)
    BY <1>4 DEF AtLog
  <2>4. \A q \in Requests : AtLog(q)' =>
          /\ req'[q].id <= Len(sent')
          /\ \A i \in DOMAIN log : log[i].id # req'[q].id
          /\ \A p \in Requests : AtLog(p)' /\ req'[p].id = req'[q].id => p = q
    <3>1. \A q \in Requests : AtLog(q) => req[q].id \in Nat /\ req[q].id <= Len(sent)
      BY Holding DEF MailInv, AtLog, TypeInv, Held
    <3>2. \A q \in Requests : q # r /\ AtLog(q)' => req'[q].id < req'[r].id
      BY <1>4, <1>6, <2>1, <2>3, <3>1
    <3>3. \A i \in DOMAIN log : log[i].id # req'[r].id
      BY <1>4, <1>6, <2>1, <2>2 DEF MailInv
    <3>4. \A q \in Requests : AtLog(q)' => req'[q].id <= Len(sent')
      BY <1>4, <1>6, <2>1, <2>3, <3>1
    <3>5. \A q \in Requests : AtLog(q)' => \A i \in DOMAIN log : log[i].id # req'[q].id
      BY <1>4, <2>3, <3>3 DEF MailInv
    <3>6. \A p, q \in Requests : AtLog(q)' /\ AtLog(p)' /\ req'[p].id = req'[q].id => p = q
      <4> SUFFICES ASSUME NEW p \in Requests, NEW q \in Requests, AtLog(q)', AtLog(p)',
                          req'[p].id = req'[q].id, p # q
                   PROVE  FALSE
        OBVIOUS
      <4>1. req'[r].id \in Nat
        BY <1>4, <1>6, <2>1
      <4>2. p # r /\ q # r
        BY <1>4, <1>6, <2>1, <2>3, <3>1, <3>2, <4>1
      <4> QED BY <1>4, <2>3, <4>2 DEF MailInv
    <3> QED BY <3>4, <3>5, <3>6
  <2>5. RowsFollowProvider'
    <3>1. \A i \in DOMAIN log : log[i].id # Refused => log[i].id \in DOMAIN sent
      BY <2>1, <2>2 DEF MailInv, Refused
    <3> QED BY <1>1, <2>1, <3>1 DEF MailInv, RowsFollowProvider
  <2>6. \A k \in DOMAIN sent' : sent'[k].reported \in Finals =>
          \E i \in DOMAIN log' : log'[i].id = k
    <3> SUFFICES ASSUME NEW k \in DOMAIN sent', sent'[k].reported \in Finals
                 PROVE  \E i \in DOMAIN log' : log'[i].id = k
      OBVIOUS
    <3>1. k # Len(sent) + 1
      BY <2>1 DEF Finals
    <3>2. k \in DOMAIN sent
      BY <2>1, <3>1
    <3> QED BY <1>1, <2>1, <3>2 DEF MailInv
  <2>7. \A i \in DOMAIN log' : log'[i].id <= Len(sent')
    BY <1>1, <2>1, <2>2 DEF MailInv
  <2> QED BY <1>1, <2>4, <2>5, <2>6, <2>7 DEF MailInv
<1> QED BY <1>2, <1>5, <1>6 DEF ProviderSend

LEMMA LogMail == ASSUME TypeInv, MailInv, NEW r \in Requests, Log(r) PROVE MailInv'
<1>1. sent \in Seq(SentMails) /\ log \in Seq(LogRows) /\ sent' = sent
  BY MailTypes DEF TypeInv, TypeOK, Log
<1>2. req[r] \in Held /\ req[r].pc = "log"
  BY Holding DEF TypeInv, Log
<1> DEFINE row == [id |-> req[r].id, to |-> req[r].subject, template |-> req[r].template,
                   link |-> req[r].link,
                   status |-> IF req[r].id = Refused THEN "FAILED" ELSE "SENT",
                   resentFrom |-> req[r].resentFrom]
<1>3. log' = Append(log, row)
  BY DEF Log, Record
<1>4. /\ Len(log) \in Nat /\ DOMAIN log = 1 .. Len(log)
      /\ DOMAIN log' = 1 .. Len(log) + 1
      /\ \A i \in DOMAIN log : log'[i] = log[i]
      /\ log'[Len(log) + 1] = row
  <2>1. row \in LogRows
    BY <1>2 DEF Held, LogRows
  <2> QED BY <1>1, <1>3, <2>1
<1>5. row.id = req[r].id /\ row.id \in Nat /\ (row.id # Refused => row.status = "SENT")
  BY <1>2 DEF Held
<1> HIDE DEF row
<1>6. \A q \in Requests : AtLog(q)' => q # r /\ AtLog(q) /\ req'[q] = req[q]
  <2>1. \E held : held.pc # "log" /\ Hold(r, held)
    <3>1. Idle.pc # "log" /\ New("upsert", req[r].op, req[r].subject, req[r].role).pc # "log"
      BY DEF Idle, New
    <3> QED BY <3>1 DEF Log, End
  <2>2. req'[r].pc # "log" /\ \A q \in Requests : q # r => req'[q] = req[q]
    BY <2>1, HoldAt
  <2> QED BY <2>2 DEF AtLog
<1>7. row.id = Refused \/ AtLog(r)
  BY <1>2, <1>5 DEF AtLog
<1>8. Len(sent) \in Nat /\ DOMAIN sent = 1 .. Len(sent)
  BY <1>1
<1>9. row.id <= Len(sent)
  BY <1>5, <1>7, <1>8 DEF MailInv, Refused
<1>10. \A i \in DOMAIN log' : log'[i].id <= Len(sent')
  BY <1>1, <1>4, <1>9 DEF MailInv
<1>11. \A q \in Requests : AtLog(q)' =>
         /\ req'[q].id <= Len(sent')
         /\ \A i \in DOMAIN log' : log'[i].id # req'[q].id
         /\ \A p \in Requests : AtLog(p)' /\ req'[p].id = req'[q].id => p = q
  <2> SUFFICES ASSUME NEW q \in Requests, AtLog(q)'
               PROVE  /\ req'[q].id <= Len(sent')
                      /\ \A i \in DOMAIN log' : log'[i].id # req'[q].id
                      /\ \A p \in Requests : AtLog(p)' /\ req'[p].id = req'[q].id => p = q
    OBVIOUS
  <2>1. q # r /\ AtLog(q) /\ req'[q] = req[q] /\ req[q].id # Refused
    BY <1>6 DEF AtLog
  <2>2. row.id # req[q].id
    BY <1>5, <1>7, <2>1 DEF MailInv
  <2>3. \A i \in DOMAIN log' : log'[i].id # req'[q].id
    BY <1>4, <2>1, <2>2 DEF MailInv
  <2>4. \A p \in Requests : AtLog(p)' /\ req'[p].id = req'[q].id => p = q
    BY <1>6, <2>1 DEF MailInv
  <2> QED BY <1>1, <2>1, <2>3, <2>4 DEF MailInv
<1>12. \A k \in DOMAIN sent' : sent'[k].reported \in Finals =>
         \E i \in DOMAIN log' : log'[i].id = k
  BY <1>1, <1>4 DEF MailInv
<1>13. RowsFollowProvider'
  <2> SUFFICES ASSUME NEW i \in DOMAIN log', log'[i].id # Refused
               PROVE  \/ log'[i].status = sent[log'[i].id].reported
                      \/ log'[i].status = "SENT" /\ sent[log'[i].id].reported = "MISSED"
    BY <1>1 DEF RowsFollowProvider
  <2>1. CASE i \in DOMAIN log
    BY <1>4, <2>1 DEF MailInv, RowsFollowProvider
  <2>2. CASE i = Len(log) + 1
    <3>1. AtLog(r) /\ row.id \in DOMAIN sent
      BY <1>4, <1>5, <1>7, <1>8, <1>9, <2>2 DEF Refused
    <3>2. \A j \in DOMAIN log : log[j].id # row.id
      BY <1>5, <3>1 DEF MailInv
    <3>3. sent[row.id].reported \notin Finals
      BY <3>1, <3>2 DEF MailInv
    <3>4. sent[row.id].reported \in {"SENT", "MISSED"} \cup Finals
      <4>1. sent[row.id] \in SentMails
        BY <1>1, <3>1
      <4> QED BY <4>1 DEF SentMails
    <3> QED BY <1>4, <1>5, <2>2, <3>3, <3>4
  <2> QED BY <1>4, <2>1, <2>2
<1> QED BY <1>10, <1>11, <1>12, <1>13 DEF MailInv

LEMMA WebhookMail ==
  ASSUME TypeInv, MailInv, Webhook, UNCHANGED req
  PROVE  MailInv'
<1>1. sent \in Seq(SentMails) /\ log \in Seq(LogRows)
  BY MailTypes DEF TypeInv, TypeOK
<1>2. PICK id \in DOMAIN sent, status \in Finals : WebhookEvent(id, status)
  BY DEF Webhook
<1> DEFINE found == \E i \in DOMAIN log : log[i].id = id
<1>3. /\ Len(sent') = Len(sent) /\ DOMAIN sent' = DOMAIN sent
      /\ sent'[id].reported = IF found THEN status ELSE "MISSED"
      /\ \A k \in DOMAIN sent : k # id => sent'[k] = sent[k]
  <2>1. sent[id] \in SentMails
    BY <1>1
  <2> DEFINE said == IF found THEN status ELSE "MISSED"
             mark == [sent[id] EXCEPT !.reported = said]
  <2>2. mark.reported = said
    BY <2>1 DEF SentMails
  <2>3. sent' = [sent EXCEPT ![id] = mark]
    BY <1>2 DEF WebhookEvent
  <2> HIDE DEF mark
  <2>4. DOMAIN sent' = DOMAIN sent /\ sent'[id] = mark
        /\ \A k \in DOMAIN sent : k # id => sent'[k] = sent[k]
    BY <1>1, <2>3
  <2>5. Len(sent') = Len(sent)
    <3>1. mark \in SentMails
      <4>1. said \in {"SENT", "MISSED"} \cup Finals
        BY <1>2
      <4> QED BY <2>1, <4>1 DEF mark, SentMails
    <3>2. sent' \in Seq(SentMails)
      BY <1>1, <2>3, <3>1
    <3> QED BY <1>1, <2>4, <3>2
  <2> QED BY <2>2, <2>4, <2>5
<1>4. /\ DOMAIN log' = DOMAIN log
      /\ \A i \in DOMAIN log : log'[i].id = log[i].id
      /\ \A i \in DOMAIN log : log[i].id = id => log'[i].status = status
      /\ \A i \in DOMAIN log : log[i].id # id => log'[i] = log[i]
  <2>1. log' = [i \in DOMAIN log |->
                 IF log[i].id = id THEN [log[i] EXCEPT !.status = status] ELSE log[i]]
    BY <1>2 DEF WebhookEvent, Mark
  <2>2. \A row \in LogRows : /\ [row EXCEPT !.status = status].id = row.id
                             /\ [row EXCEPT !.status = status].status = status
    BY DEF LogRows
  <2>3. \A i \in DOMAIN log : log[i] \in LogRows
    BY <1>1
  <2> QED BY <2>1, <2>2, <2>3
<1>5. \A r \in Requests : AtLog(r)' <=> AtLog(r)
  BY DEF AtLog
<1>6. \A i \in DOMAIN log' : log'[i].id <= Len(sent')
  BY <1>3, <1>4 DEF MailInv
<1>7. \A k \in DOMAIN sent' : sent'[k].reported \in Finals =>
        \E i \in DOMAIN log' : log'[i].id = k
  <2>1. "MISSED" \notin Finals
    BY DEF Finals
  <2> QED BY <1>3, <1>4, <2>1 DEF MailInv
<1>8. RowsFollowProvider'
  <2>1. \A i \in DOMAIN log : log[i].id # Refused => log[i].id \in DOMAIN sent
    <3>1. \A i \in DOMAIN log : log[i] \in LogRows
      BY <1>1
    <3>2. \A i \in DOMAIN log : log[i].id \in Nat
      BY <3>1 DEF LogRows
    <3> QED BY <1>1, <3>2 DEF MailInv, Refused
  <2> QED BY <1>3, <1>4, <2>1 DEF MailInv, RowsFollowProvider
<1> QED BY <1>3, <1>4, <1>5, <1>6, <1>7, <1>8 DEF MailInv

LEMMA MailNext == TypeInv /\ MailInv /\ [Next]_vars => MailInv'
<1> SUFFICES ASSUME TypeInv, MailInv, [Next]_vars PROVE MailInv'
  OBVIOUS
<1>1. ASSUME NEW u \in Users, Create(u) \/ Expire(u) PROVE MailInv'
  BY <1>1, MailSame DEF Create, Expire
<1>2. ASSUME NEW r \in Requests, NEW held, Begin(r, held), held.pc # "log", UNCHANGED mail
      PROVE  MailInv'
  BY <1>2, HoldAt, MailSame
<1>3. ASSUME NEW r \in Requests, NEW u \in Users, NEW s \in Users, NEW op \in Ops,
             NEW role \in (Roles \cap ASSIGNABLE_MEMBER_ROLES) \cup {NoOverride},
             Enter(r, u, op, s, role)
      PROVE  MailInv'
  BY <1>2, <1>3 DEF Enter, New, FirstStep
<1>4. ASSUME NEW r \in Requests, NEW u \in Users, AcceptFind(r, u) PROVE MailInv'
  BY <1>2, <1>4 DEF AcceptFind, New
<1>5. ASSUME NEW r \in Requests, Step(r) PROVE MailInv'
  <2>1. CASE Send(r) \/ Log(r)
    BY <2>1, SendMail, LogMail
  <2>2. CASE ~(Send(r) \/ Log(r))
    <3>1. UNCHANGED mail
      BY <1>5, <2>2 DEF Step, Delete, FindUser, CreateUser, CreateToken, Upsert, ReadMember,
         PreviousLog, DropToken, ChangeMember, AcceptCommit
    <3> QED BY <1>5, <2>2, <3>1, NotToLog, MailSame
  <2> QED BY <2>1, <2>2
<1>6. ASSUME NEW r \in Requests, Abort(r) PROVE MailInv'
  BY <1>6, HoldAt, MailSame DEF Abort, End, Idle
<1>7. CASE Webhook /\ UNCHANGED <<rows, req, begun, history>>
  BY <1>7, WebhookMail
<1>8. CASE UNCHANGED vars
  BY <1>8, MailSame DEF vars
<1> QED BY <1>1, <1>3, <1>4, <1>5, <1>6, <1>7, <1>8 DEF Next

\* For any number of mails and of events, in any order and with repetitions, a row
\* has the status last reported since it was written.
THEOREM RowsFollow == Spec => []RowsFollowProvider
<1>1. Init => MailInv
  BY DEF Init, MailInit, MailInv, AtLog, Idle, RowsFollowProvider
<1>2. TypeInv /\ MailInv => RowsFollowProvider
  BY DEF MailInv
<1> QED BY <1>1, <1>2, InitTypes, NextTypes, MailNext, PTL DEF Spec
-----------------------------------------------------------------------------
(* The chain of an account's invitations                                   *)

\* A request that will write an invitation row, and one that has to.
Carries(q) ==
  \/ q.pc \in {"drop", "token"}
  \/ q.pc \in {"send", "log"} /\ q.template = "USER_INVITATION"
Heading(q) == Carries(q) /\ q.pc # "drop"

\* Its row will name the newest there is, and its link is the token's.
CarriesWell(q) ==
  LET u == q.subject
  IN  /\ ~Active(u)
      /\ q.resentFrom \in Invitations(u) \cup {0} /\ Previous(q.resentFrom, u)
      /\ q.pc = "token" => token[u] = NoToken
      /\ q.pc \in {"send", "log"} => q.link = token[u].id

\* What a request is told apart by before it carries an invitation.
Labelled(q) ==
  /\ q.pc \in {"find", "user", "member", "previous"} =>
       q.template = "USER_INVITATION" /\ q.resentFrom = 0
  /\ q.pc \in {"drop", "token"} => q.template = "USER_INVITATION"
  /\ q.pc = "accept" => q.template = "WELCOME_EMAIL"
  /\ Carries(q) => q.op \in LinkOps

\* The newest invitation has the token's link.
Linked(u) == \E i \in Invitations(u) : Previous(i, u) /\ log[i].link = token[u].id

Chained(u) ==
  \A i \in Invitations(u) :
    /\ log[i].resentFrom \in {j \in Invitations(u) : j < i} \cup {0}
    /\ \A j \in Invitations(u) : j < i => j <= log[i].resentFrom

\* An account's invitations form a chain, and the newest link works or is on its way.
AccountInv(u) ==
  /\ user[u].status = "none" => Invitations(u) = {}
  /\ u \notin crossed => Chained(u)
  /\ Pending(u) /\ u \notin crossed \cup cut =>
       Linked(u) \/ \E r \in Requests : Heading(req[r]) /\ req[r].subject = u

ChainInv ==
  /\ \A r \in Requests :
       /\ Labelled(req[r])
       /\ Carries(req[r]) /\ req[r].subject \notin crossed => CarriesWell(req[r])
  /\ \A u \in Users : AccountInv(u)

\* The step leaves an account, its link and its invitations.
Same(u) ==
  /\ user'[u].status = user[u].status
  /\ token'[u].id = token[u].id /\ (token[u] = NoToken => token'[u] = NoToken)
  /\ Invitations(u)' = Invitations(u)
  /\ \A i \in Invitations(u) :
       log'[i].link = log[i].link /\ log'[i].resentFrom = log[i].resentFrom

LEMMA RowsSame ==
  ASSUME UNCHANGED <<user, token, log>>
  PROVE  \A u \in Users : Same(u)
BY DEF Same, Invitations

LEMMA ChainInit == Init => ChainInv
<1> SUFFICES ASSUME Init PROVE ChainInv
  OBVIOUS
<1>1. \A r \in Requests : req[r].pc = "idle"
  BY DEF Init, Idle
<1>2. \A u \in Users : Invitations(u) = {} /\ ~Pending(u)
  BY DEF Init, MailInit, Invitations, Pending
<1> QED BY <1>1, <1>2 DEF ChainInv, Labelled, Carries, AccountInv, Chained

LEMMA CarriesSame ==
  ASSUME NEW q, Same(q.subject), CarriesWell(q)
  PROVE  CarriesWell(q)'
BY DEF Same, CarriesWell, Active, Previous

\* What an account left alone keeps, but the request on its way to it.
LEMMA AccountSame ==
  ASSUME NEW u \in Users, Same(u), AccountInv(u), crossed \subseteq crossed', cut \subseteq cut',
         \A r \in Requests : Heading(req[r]) /\ req[r].subject = u =>
           \/ u \in crossed' \cup cut' \/ ~Pending(u)
           \/ Heading(req'[r]) /\ req'[r].subject = u
  PROVE  AccountInv(u)'
<1>1. user[u].status = "none" => Invitations(u)' = {}
  BY DEF Same, AccountInv
<1>2. u \notin crossed' => Chained(u)'
  BY DEF Same, AccountInv, Chained
<1>3. Linked(u) => Linked(u)'
  BY DEF Same, Linked, Previous
<1> QED BY <1>1, <1>2, <1>3 DEF AccountInv, Same, Pending

\* A step of r, on the account s or on none.
LEMMA ChainStep ==
  ASSUME TypeInv, ChainInv, NEW r \in Requests, NEW held, req'[r] = held,
         \A q \in Requests : q # r => req'[q] = req[q],
         crossed \subseteq crossed', cut \subseteq cut',
         NEW s \in Users, Heading(req[r]) => req[r].subject = s,
         \A u \in Users : u # s => Same(u),
         \/ Same(s) \/ s \in crossed'
         \/ \A q \in Requests : q # r /\ Carries(req[q]) => req[q].subject # s,
         Labelled(held), Carries(held) /\ held.subject \notin crossed' => CarriesWell(held)',
         AccountInv(s)'
  PROVE  ChainInv'
<1>1. ASSUME NEW q \in Requests, q # r, Carries(req[q]), req[q].subject \notin crossed'
      PROVE  CarriesWell(req[q])'
  <2>1. req[q].subject \in Users
    BY <1>1, Holding DEF Carries, TypeInv, Held
  <2>2. Same(req[q].subject)
    BY <1>1, <2>1
  <2>3. CarriesWell(req[q])
    BY <1>1 DEF ChainInv
  <2>4. PICK p : p = req[q]
    OBVIOUS
  <2>5. CarriesWell(p)'
    BY <2>2, <2>3, <2>4, CarriesSame
  <2>6. p = req'[q]
    BY <1>1, <2>4
  <2> QED BY <2>5, <2>6 DEF CarriesWell, Active, Previous, Invitations
<1>2. ASSUME NEW q \in Requests
      PROVE  /\ Labelled(req'[q])
             /\ Carries(req'[q]) /\ req'[q].subject \notin crossed' => CarriesWell(req[q])'
  <2>1. CASE q = r
    BY <2>1 DEF CarriesWell, Active, Previous, Invitations
  <2>2. CASE q # r
    BY <1>1, <2>2 DEF ChainInv
  <2> QED BY <2>1, <2>2
<1>3. ASSUME NEW u \in Users, u # s PROVE AccountInv(u)'
  <2>1. \A q \in Requests : Heading(req[q]) /\ req[q].subject = u =>
          Heading(req'[q]) /\ req'[q].subject = u
    BY <1>3
  <2> QED BY <1>3, <2>1, AccountSame DEF ChainInv
<1> QED BY <1>2, <1>3 DEF ChainInv, Labelled, Carries

\* A step that writes no account, token or mail row.
LEMMA ChainQuiet ==
  ASSUME TypeInv, ChainInv, NEW r \in Requests, NEW held, req'[r] = held,
         \A q \in Requests : q # r => req'[q] = req[q],
         crossed \subseteq crossed', cut \subseteq cut', UNCHANGED <<user, token, log>>,
         Labelled(held), Carries(held) /\ held.subject \notin crossed => CarriesWell(held),
         Heading(req[r]) =>
           \/ req[r].subject \in crossed' \cup cut' \/ ~Pending(req[r].subject)
           \/ Heading(held) /\ held.subject = req[r].subject
  PROVE  ChainInv'
<1>1. \A u \in Users : Same(u)
  BY RowsSame
<1>2. \A u \in Users : AccountInv(u)'
  BY <1>1, AccountSame DEF ChainInv
<1>3. CarriesWell(held) => CarriesWell(held)'
  BY DEF CarriesWell, Active, Previous, Invitations
<1>4. ASSUME NEW q \in Requests
      PROVE  /\ Labelled(req'[q])
             /\ Carries(req'[q]) /\ req'[q].subject \notin crossed' => CarriesWell(req[q])'
  <2>1. CASE q = r
    BY <1>3, <2>1 DEF CarriesWell, Active, Previous, Invitations
  <2>2. CASE q # r
    BY <2>2 DEF ChainInv, CarriesWell, Active, Previous, Invitations
  <2> QED BY <2>1, <2>2
<1> QED BY <1>2, <1>4 DEF ChainInv, Labelled, Carries

\* Only r carries an invitation of an account it works on that is not yet active.
LEMMA CarriesAlone ==
  ASSUME TypeInv, LinkInv, ChainInv, NEW r \in Requests, NEW s \in Users, Works(r, s), ~Active(s)
  PROVE  s \in crossed \/ \A q \in Requests : q # r /\ Carries(req[q]) => req[q].subject # s
<1>1. ASSUME NEW q \in Requests, Carries(req[q]), req[q].subject = s
      PROVE  Works(q, s)
  BY <1>1 DEF Works, Busy, Carries, ChainInv, Labelled
<1> QED BY <1>1 DEF LinkInv, OneInv

\* A subject at a pc that replaces or uses a token is not active, unless crossed.
LEMMA NotYetActive ==
  ASSUME TypeInv, LinkInv, NEW r \in Requests, req[r].pc \in {"token", "previous", "drop", "accept"},
         req[r].subject \notin crossed
  PROVE  ~Active(req[r].subject)
<1>1. req[r].subject \in Users
  BY AtLinkPc DEF LinkInv, LinkPcs
<1> QED BY <1>1 DEF LinkInv, SettledInv, LinkPcs

LEMMA IdleLabelled == Labelled(Idle) /\ ~Carries(Idle)
BY DEF Idle, Labelled, Carries

LEMMA BeginChain ==
  ASSUME TypeInv, ChainInv, NEW r \in Requests, NEW held, Begin(r, held),
         UNCHANGED <<user, token, log>>, Labelled(held), ~Carries(held)
  PROVE  ChainInv'
<1>1. req'[r] = held /\ \A q \in Requests : q # r => req'[q] = req[q]
  BY HoldAt
<1>2. ~Heading(req[r])
  BY DEF Begin, Idle, Heading, Carries
<1>3. crossed \subseteq crossed' /\ cut \subseteq cut'
  BY DEF Begin
<1> QED BY <1>1, <1>2, <1>3, ChainQuiet

\* A request that carries no invitation goes on without one.
LEMMA HoldChain ==
  ASSUME TypeInv, ChainInv, NEW r \in Requests, NEW held, Hold(r, held),
         UNCHANGED <<user, token, log, crossed, cut>>, Labelled(held), ~Carries(held),
         ~Heading(req[r]) \/ req[r].subject \in crossed
  PROVE  ChainInv'
<1>1. req'[r] = held /\ \A q \in Requests : q # r => req'[q] = req[q]
  BY HoldAt
<1> QED BY <1>1, ChainQuiet

LEMMA EndChain ==
  ASSUME TypeInv, ChainInv, NEW r \in Requests, End(r),
         UNCHANGED <<user, token, log, crossed, cut>>,
         ~Heading(req[r]) \/ req[r].subject \in crossed
  PROVE  ChainInv'
BY HoldChain, IdleLabelled DEF End

\* Steps that write none of the rows.
LEMMA QuietChain ==
  ASSUME TypeInv, LinkInv, ChainInv, NEW r \in Requests,
         Delete(r) \/ FindUser(r) \/ Upsert(r) \/ ReadMember(r) \/ ChangeMember(r)
  PROVE  ChainInv'
<1>1. UNCHANGED <<user, token, log, crossed, cut>> /\ ~Heading(req[r])
  BY DEF Delete, FindUser, Upsert, ReadMember, ChangeMember, rows, mail, history, Heading, Carries
<1>2. CASE Delete(r) \/ Upsert(r) \/ ChangeMember(r)
  BY <1>1, <1>2, EndChain DEF Delete, Upsert, ChangeMember
<1>3. req[r].pc # "idle" => req[r] \in Held
  BY Holding DEF TypeInv
<1>4. CASE FindUser(r)
  <2>1. /\ req[r] \in Held /\ req[r].pc = "find"
        /\ req[r].template = "USER_INVITATION" /\ req[r].resentFrom = 0
    BY <1>3, <1>4 DEF FindUser, ChainInv, Labelled
  <2> DEFINE h == [req[r] EXCEPT !.pc = "user"]
             g == [req[r] EXCEPT !.pc = "send", !.template = "DATA_ROOM_INVITATION"]
  <2>2. h.pc = "user" /\ h.template = "USER_INVITATION" /\ h.resentFrom = 0
    BY <2>1 DEF Held
  <2>3. g.pc = "send" /\ g.template = "DATA_ROOM_INVITATION"
    BY <2>1 DEF Held
  <2>4. Hold(r, h) \/ Hold(r, g)
    BY <1>4 DEF FindUser, Move
  <2> HIDE DEF h, g
  <2>5. Labelled(h) /\ ~Carries(h) /\ Labelled(g) /\ ~Carries(g)
    BY <2>2, <2>3 DEF Labelled, Carries
  <2> QED BY <1>1, <2>4, <2>5, HoldChain
<1>5. CASE ReadMember(r)
  <2>1. /\ req[r] \in Held /\ req[r].pc = "member"
        /\ req[r].template = "USER_INVITATION" /\ req[r].resentFrom = 0
    BY <1>3, <1>5 DEF ReadMember, ChainInv, Labelled
  <2> DEFINE h == [req[r] EXCEPT !.pc = "previous"]
             g == [req[r] EXCEPT !.pc = "send", !.template = "PASSWORD_RESET"]
             f == [req[r] EXCEPT !.pc = "change"]
  <2>2. h.pc = "previous" /\ h.template = "USER_INVITATION" /\ h.resentFrom = 0
    BY <2>1 DEF Held
  <2>3. g.pc = "send" /\ g.template = "PASSWORD_RESET" /\ f.pc = "change"
    BY <2>1 DEF Held
  <2>4. End(r) \/ Hold(r, h) \/ Hold(r, g) \/ Hold(r, f)
    BY <1>5 DEF ReadMember, Move
  <2> HIDE DEF h, g, f
  <2>5. Labelled(h) /\ ~Carries(h) /\ Labelled(g) /\ ~Carries(g) /\ Labelled(f) /\ ~Carries(f)
    BY <2>2, <2>3 DEF Labelled, Carries
  <2> QED BY <1>1, <2>4, <2>5, HoldChain, EndChain
<1> QED BY <1>2, <1>4, <1>5

LEMMA PreviousChain ==
  ASSUME TypeInv, LinkInv, ChainInv, NEW r \in Requests, PreviousLog(r)
  PROVE  ChainInv'
<1>1. /\ req[r] \in Held /\ req[r].pc = "previous" /\ req[r].template = "USER_INVITATION"
      /\ req[r].op = "resendInvite" /\ UNCHANGED <<user, token, log, crossed, cut>>
  BY Holding DEF PreviousLog, ChainInv, Labelled, LinkInv, OpInv, TypeInv, rows, mail, history
<1>2. PICK i \in Invitations(req[r].subject) \cup {0} :
        /\ Previous(i, req[r].subject)
        /\ Hold(r, [req[r] EXCEPT !.pc = "drop", !.resentFrom = i])
  BY DEF PreviousLog
<1> DEFINE held == [req[r] EXCEPT !.pc = "drop", !.resentFrom = i]
<1>3. /\ held.pc = "drop" /\ held.resentFrom = i /\ held.subject = req[r].subject
      /\ held.template = "USER_INVITATION" /\ held.op = "resendInvite"
  BY <1>1 DEF Held
<1>4. Hold(r, held)
  BY <1>2
<1> HIDE DEF held
<1>5. req'[r] = held /\ \A q \in Requests : q # r => req'[q] = req[q]
  BY <1>4, HoldAt
<1>6. Labelled(held) /\ (held.subject \notin crossed => CarriesWell(held))
  BY <1>1, <1>2, <1>3, NotYetActive DEF Labelled, Carries, CarriesWell, LinkOps
<1>7. ~Heading(req[r])
  BY <1>1 DEF Heading, Carries
<1> QED BY <1>1, <1>5, <1>6, <1>7, ChainQuiet

LEMMA SendChain ==
  ASSUME TypeInv, ChainInv, NEW r \in Requests, Send(r)
  PROVE  ChainInv'
<1>1. req[r] \in Held /\ req[r].pc = "send" /\ UNCHANGED <<user, token, log, crossed, cut>>
  BY Holding DEF Send, TypeInv, rows, history
<1>2. PICK id : Hold(r, [req[r] EXCEPT !.pc = "log", !.id = id])
  BY DEF Send
<1> DEFINE held == [req[r] EXCEPT !.pc = "log", !.id = id]
<1>3. /\ held.pc = "log" /\ held.resentFrom = req[r].resentFrom /\ held.op = req[r].op
      /\ held.subject = req[r].subject /\ held.template = req[r].template /\ held.link = req[r].link
  BY <1>1 DEF Held
<1>4. Hold(r, held)
  BY <1>2
<1> HIDE DEF held
<1>5. req'[r] = held /\ \A q \in Requests : q # r => req'[q] = req[q]
  BY <1>4, HoldAt
<1>6. (Carries(req[r]) <=> Carries(held)) /\ (Heading(req[r]) <=> Heading(held))
  BY <1>1, <1>3 DEF Carries, Heading
<1>7. Labelled(held) /\ (Carries(held) /\ held.subject \notin crossed => CarriesWell(held))
  <2>1. /\ Carries(req[r]) => req[r].op \in LinkOps
        /\ Carries(req[r]) /\ req[r].subject \notin crossed => CarriesWell(req[r])
    BY DEF ChainInv, Labelled
  <2>2. CarriesWell(req[r]) => CarriesWell(held)
    BY <1>1, <1>3 DEF CarriesWell
  <2> QED BY <1>3, <1>6, <2>1, <2>2 DEF Labelled
<1> QED BY <1>1, <1>3, <1>5, <1>6, <1>7, ChainQuiet

LEMMA AbortChain ==
  ASSUME TypeInv, ChainInv, NEW r \in Requests, Abort(r)
  PROVE  ChainInv'
<1>1. /\ UNCHANGED <<user, token, log, crossed>> /\ cut' = cut \cup Touched(req[r])
      /\ Hold(r, Idle)
  BY DEF Abort, End, rows, mail
<1>2. req'[r] = Idle /\ \A q \in Requests : q # r => req'[q] = req[q]
  BY <1>1, HoldAt
<1>3. ASSUME Heading(req[r]), Pending(req[r].subject)
      PROVE  req[r].subject \in cut'
  <2>1. req[r] \in Held /\ req[r].op \in LinkOps
    BY <1>3, Holding DEF Heading, Carries, TypeInv, ChainInv, Labelled
  <2> QED BY <1>1, <1>3, <2>1 DEF Touched, Held, Active, Pending
<1> QED BY <1>1, <1>2, <1>3, IdleLabelled, ChainQuiet

\* The new account has no invitation yet, and its request goes on to make it a token.
LEMMA CreateUserChain ==
  ASSUME TypeInv, LinkInv, ChainInv, NEW r \in Requests, CreateUser(r)
  PROVE  ChainInv'
<1> DEFINE s == req[r].subject
<1>1. /\ req[r] \in Held /\ s \in Users /\ req[r].pc = "user" /\ Works(r, s)
      /\ req[r].template = "USER_INVITATION" /\ req[r].resentFrom = 0
      /\ req[r].op = "inviteMember" /\ UNCHANGED <<token, log, crossed, cut>>
      /\ ~Heading(req[r])
  BY Holding, AtLinkPc DEF CreateUser, ChainInv, Labelled, LinkInv, OpInv, TypeInv, mail, history,
     LinkPcs, Heading, Carries
<1>2. CASE user[s].status # "none"
  BY <1>1, <1>2, EndChain DEF CreateUser
<1>3. CASE user[s].status = "none"
  <2> DEFINE held == [req[r] EXCEPT !.pc = "token"]
             row == [status |-> "PENDING_INVITE", role |-> req[r].role]
  <2>1. /\ held.pc = "token" /\ held.subject = s /\ held.template = "USER_INVITATION"
        /\ held.resentFrom = 0 /\ held.op = "inviteMember"
    BY <1>1 DEF Held
  <2>2. Hold(r, held) /\ user' = [user EXCEPT ![s] = row] /\ row.status = "PENDING_INVITE"
    BY <1>3 DEF CreateUser, Move
  <2>h. PICK h : h = held
    OBVIOUS
  <2>u. PICK u \in Users : u = s
    BY <1>1
  <2>1a. /\ h.pc = "token" /\ h.subject = u /\ h.template = "USER_INVITATION"
        /\ h.resentFrom = 0 /\ h.op = "inviteMember" /\ Hold(r, h)
    BY <2>1, <2>2, <2>h, <2>u
  <2>3. req'[r] = h /\ \A q \in Requests : q # r => req'[q] = req[q]
    BY <2>1a, HoldAt
  <2>4. /\ user'[u].status = "PENDING_INVITE" /\ \A v \in Users : v # u => user'[v] = user[v]
        /\ token[u] = NoToken /\ ~Active(u)
    BY <1>1, <1>3, <2>2, <2>u DEF TypeInv, TypeOK, Active
  <2>5. \A v \in Users : Invitations(v)' = Invitations(v)
    BY <1>1 DEF Invitations
  <2>6. Invitations(u) = {}
    BY <1>1, <1>3, <2>u DEF ChainInv, AccountInv
  <2>7. \A v \in Users : v # u => Same(v)
    BY <1>1, <2>4, <2>5 DEF Same
  <2>9. Invitations(u)' = {} /\ ~Active(u)' /\ token'[u] = NoToken /\ Heading(h)
    BY <1>1, <2>1a, <2>4, <2>5, <2>6 DEF Active, Heading, Carries
  <2>10. CarriesWell(h)'
    BY <2>1a, <2>9 DEF CarriesWell, Previous
  <2>11. Labelled(h)
    BY <2>1a DEF Labelled, Carries, LinkOps
  <2>12. AccountInv(u)'
    BY <2>1a, <2>3, <2>4, <2>9 DEF AccountInv, Chained
  <2>13. u \in crossed' \/ \A q \in Requests : q # r /\ Carries(req[q]) => req[q].subject # u
    BY <1>1, <2>4, <2>u, CarriesAlone
  <2>14. crossed \subseteq crossed' /\ cut \subseteq cut' /\ ~Heading(req[r])
    BY <1>1
  <2> QED BY <2>3, <2>7, <2>10, <2>11, <2>12, <2>13, <2>14, ChainStep
<1> QED BY <1>2, <1>3

\* The new link is the account's, and on its way in the request's own mail.
LEMMA CreateTokenChain ==
  ASSUME TypeInv, LinkInv, ChainInv, NEW r \in Requests, CreateToken(r)
  PROVE  ChainInv'
<1>1. PICK s \in Users : s = req[r].subject
  BY AtLinkPc DEF CreateToken, LinkInv, LinkPcs
<1>2. /\ req[r] \in Held /\ req[r].pc = "token" /\ Works(r, s)
      /\ req[r].template = "USER_INVITATION" /\ req[r].op \in LinkOps
      /\ Carries(req[r]) /\ (s \notin crossed => CarriesWell(req[r]) /\ ~Active(s))
      /\ UNCHANGED <<user, log, crossed, cut>>
  BY <1>1, Holding, AtLinkPc, NotYetActive
  DEF CreateToken, ChainInv, Labelled, Carries, LinkInv, TypeInv, mail, history, LinkPcs
<1>3. CASE token[s] # NoToken
  BY <1>1, <1>2, <1>3, EndChain DEF CreateToken, CarriesWell
<1>4. CASE token[s] = NoToken
  <2> DEFINE held == [req[r] EXCEPT !.pc = "send", !.link = NewLink]
  <2>1. PICK h : h = held
    OBVIOUS
  <2>2. /\ h.pc = "send" /\ h.subject = s /\ h.template = "USER_INVITATION"
        /\ h.resentFrom = req[r].resentFrom /\ h.op \in LinkOps /\ h.link = made + 1
    BY <1>1, <1>2, <2>1 DEF Held, NewLink
  <2>3. Hold(r, h) /\ token' = [token EXCEPT ![s] = [NoToken EXCEPT !.id = made + 1]]
    BY <1>1, <1>4, <2>1 DEF CreateToken
  <2> HIDE DEF held
  <2>4. req'[r] = h /\ \A q \in Requests : q # r => req'[q] = req[q]
    BY <2>3, HoldAt
  <2>5. token'[s].id = made + 1 /\ \A u \in Users : u # s => token'[u] = token[u]
    BY <2>3 DEF TypeInv, TypeOK, NoToken
  <2>6. \A u \in Users : Invitations(u)' = Invitations(u)
    BY <1>2 DEF Invitations
  <2>7. \A u \in Users : u # s => Same(u)
    BY <1>2, <2>5, <2>6 DEF Same
  <2>8. s \notin crossed => CarriesWell(h)'
    BY <1>1, <1>2, <2>2, <2>5, <2>6 DEF CarriesWell, Previous, Active
  <2>9. Labelled(h) /\ Heading(h)
    BY <2>2 DEF Labelled, Carries, Heading
  <2>10. AccountInv(s)'
    <3>1. AccountInv(s)
      BY DEF ChainInv
    <3>2. \E q \in Requests : Heading(req'[q]) /\ req'[q].subject = s
      BY <2>2, <2>4, <2>9
    <3> QED BY <1>2, <2>6, <3>1, <3>2 DEF AccountInv, Chained
  <2>11. s \in crossed' \/ \A q \in Requests : q # r /\ Carries(req[q]) => req[q].subject # s
    BY <1>2, CarriesAlone
  <2> QED BY <1>1, <1>2, <2>2, <2>4, <2>7, <2>8, <2>9, <2>10, <2>11, ChainStep
<1> QED BY <1>3, <1>4

\* Without its token the account has a request about to make the next.
LEMMA DropTokenChain ==
  ASSUME TypeInv, LinkInv, ChainInv, NEW r \in Requests, DropToken(r)
  PROVE  ChainInv'
<1>1. PICK s \in Users : s = req[r].subject
  BY AtLinkPc DEF DropToken, LinkInv, LinkPcs
<1>2. /\ req[r] \in Held /\ req[r].pc = "drop" /\ Works(r, s)
      /\ req[r].template = "USER_INVITATION" /\ req[r].op \in LinkOps
      /\ Carries(req[r]) /\ (s \notin crossed => CarriesWell(req[r]) /\ ~Active(s))
      /\ UNCHANGED <<user, log, crossed, cut>>
  BY <1>1, Holding, AtLinkPc, NotYetActive
  DEF DropToken, ChainInv, Labelled, Carries, LinkInv, TypeInv, mail, history, LinkPcs
<1> DEFINE held == [req[r] EXCEPT !.pc = "token"]
<1>3. PICK h : h = held
  OBVIOUS
<1>4. /\ h.pc = "token" /\ h.subject = s /\ h.template = "USER_INVITATION"
      /\ h.resentFrom = req[r].resentFrom /\ h.op \in LinkOps
  BY <1>1, <1>2, <1>3 DEF Held
<1>5. Hold(r, h) /\ token' = [token EXCEPT ![s] = NoToken]
  BY <1>1, <1>3 DEF DropToken, Move
<1> HIDE DEF held
<1>6. req'[r] = h /\ \A q \in Requests : q # r => req'[q] = req[q]
  BY <1>5, HoldAt
<1>7. token'[s] = NoToken /\ \A u \in Users : u # s => token'[u] = token[u]
  BY <1>5 DEF TypeInv, TypeOK
<1>8. \A u \in Users : Invitations(u)' = Invitations(u)
  BY <1>2 DEF Invitations
<1>9. \A u \in Users : u # s => Same(u)
  BY <1>2, <1>7, <1>8 DEF Same
<1>10. s \notin crossed => CarriesWell(h)'
  BY <1>1, <1>2, <1>4, <1>7, <1>8 DEF CarriesWell, Previous, Active
<1>11. Labelled(h) /\ Heading(h)
  BY <1>4 DEF Labelled, Carries, Heading
<1>12. AccountInv(s)'
  <2>1. AccountInv(s)
    BY DEF ChainInv
  <2>2. \E q \in Requests : Heading(req'[q]) /\ req'[q].subject = s
    BY <1>4, <1>6, <1>11
  <2> QED BY <1>2, <1>8, <2>1, <2>2 DEF AccountInv, Chained
<1>13. s \in crossed' \/ \A q \in Requests : q # r /\ Carries(req[q]) => req[q].subject # s
  BY <1>2, CarriesAlone
<1> QED BY <1>1, <1>2, <1>4, <1>6, <1>9, <1>10, <1>11, <1>12, <1>13, ChainStep

\* An account made active is pending no more, and nobody is left to invite it.
LEMMA AcceptCommitChain ==
  ASSUME TypeInv, LinkInv, ChainInv, NEW r \in Requests, AcceptCommit(r)
  PROVE  ChainInv'
<1>1. PICK s \in Users : s = req[r].subject
  BY AtLinkPc DEF AcceptCommit, LinkInv, LinkPcs
<1>2. /\ req[r] \in Held /\ req[r].pc = "accept" /\ Works(r, s)
      /\ req[r].template = "WELCOME_EMAIL" /\ ~Heading(req[r])
      /\ (s \notin crossed => ~Active(s))
      /\ UNCHANGED <<log, crossed, cut>>
  BY <1>1, Holding, AtLinkPc, NotYetActive
  DEF AcceptCommit, ChainInv, Labelled, Carries, Heading, LinkInv, TypeInv, mail, LinkPcs
<1>3. CASE ~TokenThere(r)
  BY <1>2, <1>3, EndChain DEF AcceptCommit
<1>4. CASE TokenThere(r)
  <2> DEFINE held == [req[r] EXCEPT !.pc = "send", !.link = 0]
  <2>1. PICK h : h = held
    OBVIOUS
  <2>2. h.pc = "send" /\ h.template = "WELCOME_EMAIL"
    BY <1>2, <2>1 DEF Held
  <2>3. /\ Hold(r, h) /\ user' = [user EXCEPT ![s].status = "ACTIVE"]
        /\ token' = [token EXCEPT ![s].accepted = TRUE]
    BY <1>1, <1>4, <2>1 DEF AcceptCommit
  <2> HIDE DEF held
  <2>4. req'[r] = h /\ \A q \in Requests : q # r => req'[q] = req[q]
    BY <2>3, HoldAt
  <2>5. /\ user'[s].status = "ACTIVE"
        /\ \A u \in Users : u # s => token'[u] = token[u] /\ user'[u] = user[u]
    BY <2>3 DEF TypeInv, TypeOK
  <2>6. \A u \in Users : Invitations(u)' = Invitations(u)
    BY <1>2 DEF Invitations
  <2>7. \A u \in Users : u # s => Same(u)
    BY <1>2, <2>5, <2>6 DEF Same
  <2>8. Labelled(h) /\ ~Carries(h)
    BY <2>2 DEF Labelled, Carries
  <2>9. AccountInv(s)'
    <3>1. AccountInv(s)
      BY DEF ChainInv
    <3> QED BY <1>2, <2>5, <2>6, <3>1 DEF AccountInv, Chained, Pending
  <2>10. s \in crossed' \/ \A q \in Requests : q # r /\ Carries(req[q]) => req[q].subject # s
    BY <1>2, CarriesAlone
  <2> QED BY <1>2, <2>4, <2>7, <2>8, <2>9, <2>10, ChainStep
<1> QED BY <1>3, <1>4

\* What a mail row added to the log leaves of an account's invitations.
LEMMA LogRow ==
  ASSUME TypeInv, NEW r \in Requests, Log(r)
  PROVE  /\ req[r] \in Held /\ req[r].pc = "log" /\ UNCHANGED <<user, token, crossed, cut>>
         /\ Len(log) \in Nat /\ \A u \in Users : \A i \in Invitations(u) :
              i \in 1 .. Len(log) /\ log'[i] = log[i]
         /\ \A u \in Users : Invitations(u)' =
              IF u = req[r].subject /\ req[r].template = "USER_INVITATION"
              THEN Invitations(u) \cup {Len(log) + 1} ELSE Invitations(u)
         /\ log'[Len(log) + 1].link = req[r].link
         /\ log'[Len(log) + 1].resentFrom = req[r].resentFrom
<1>1. log \in Seq(LogRows)
  BY MailTypes DEF TypeInv, TypeOK
<1>2. /\ req[r] \in Held /\ req[r].pc = "log" /\ UNCHANGED <<user, token, crossed, cut>>
  BY Holding DEF TypeInv, Log, rows, history
<1> DEFINE row == [id |-> req[r].id, to |-> req[r].subject, template |-> req[r].template,
                   link |-> req[r].link,
                   status |-> IF req[r].id = Refused THEN "FAILED" ELSE "SENT",
                   resentFrom |-> req[r].resentFrom]
<1>3. row \in LogRows
  BY <1>2 DEF Held, LogRows
<1>4. log' = Append(log, row)
  BY DEF Log, Record
<1>5. /\ row.to = req[r].subject /\ row.template = req[r].template /\ row.link = req[r].link
      /\ row.resentFrom = req[r].resentFrom
  OBVIOUS
<1> HIDE DEF row
<1>6. /\ Len(log) \in Nat /\ DOMAIN log = 1 .. Len(log) /\ DOMAIN log' = 1 .. Len(log) + 1
      /\ \A i \in DOMAIN log : log'[i] = log[i]
      /\ log'[Len(log) + 1] = row
  BY <1>1, <1>3, <1>4
<1>7. ASSUME NEW u \in Users
      PROVE  Invitations(u)' = IF u = req[r].subject /\ req[r].template = "USER_INVITATION"
                               THEN Invitations(u) \cup {Len(log) + 1} ELSE Invitations(u)
  BY <1>5, <1>6 DEF Invitations
<1> QED BY <1>2, <1>5, <1>6, <1>7 DEF Invitations

\* A row names the newest before it and has the link the account has.
LEMMA LogChain ==
  ASSUME TypeInv, LinkInv, ChainInv, NEW r \in Requests, Log(r)
  PROVE  ChainInv'
<1>1. PICK s \in Users : s = req[r].subject
  BY LogRow DEF Held
<1>2. /\ req[r] \in Held /\ req[r].pc = "log" /\ UNCHANGED <<user, token, crossed, cut>>
  BY LogRow
<1>3. PICK h : Hold(r, h) /\ Labelled(h) /\ ~Carries(h)
  <2>1. New("upsert", req[r].op, req[r].subject, req[r].role).pc = "upsert"
    BY DEF New
  <2> DEFINE n == New("upsert", req[r].op, req[r].subject, req[r].role)
  <2>2. Hold(r, Idle) \/ Hold(r, n)
    BY DEF Log, End
  <2> HIDE DEF n
  <2>3. Labelled(n) /\ ~Carries(n)
    BY <2>1 DEF n, Labelled, Carries
  <2> QED BY <2>2, <2>3, IdleLabelled
<1>4. req'[r] = h /\ \A q \in Requests : q # r => req'[q] = req[q]
  BY <1>3, HoldAt
<1>5. CASE req[r].template # "USER_INVITATION"
  <2>1. \A u \in Users : Same(u)
    BY <1>2, <1>5, LogRow DEF Same
  <2>2. ~Heading(req[r])
    BY <1>2, <1>5 DEF Heading, Carries
  <2>3. AccountInv(s)'
    BY <1>2, <1>4, <2>1, <2>2, AccountSame DEF ChainInv
  <2> QED BY <1>2, <1>3, <1>4, <2>1, <2>2, <2>3, ChainStep
<1>6. CASE req[r].template = "USER_INVITATION"
  <2>1. Carries(req[r]) /\ req[r].op \in LinkOps /\ Works(r, s)
    BY <1>1, <1>2, <1>6 DEF Carries, ChainInv, Labelled, Works, Busy
  <2>2. s \notin crossed => CarriesWell(req[r]) /\ ~Active(s)
    BY <1>1, <2>1 DEF ChainInv, CarriesWell
  <2>3. PICK n \in Nat : n = Len(log) + 1
    BY LogRow
  <2>4. /\ \A i \in Invitations(s) : i \in Nat /\ i < n /\ log'[i] = log[i]
        /\ Invitations(s)' = Invitations(s) \cup {n}
        /\ log'[n].link = req[r].link /\ log'[n].resentFrom = req[r].resentFrom
    BY <1>1, <1>6, <2>3, LogRow
  <2>5. \A u \in Users : u # s => Same(u)
    BY <1>1, <1>2, LogRow DEF Same
  <2>6. user'[s].status # "none"
    BY <1>1, <1>2 DEF TypeInv, Known, Knowing
  <2>7. s \notin crossed => Chained(s)'
    <3> SUFFICES ASSUME s \notin crossed, NEW i \in Invitations(s)'
                 PROVE  /\ log'[i].resentFrom \in {j \in Invitations(s)' : j < i} \cup {0}
                        /\ \A j \in Invitations(s)' : j < i => j <= log'[i].resentFrom
      BY DEF Chained
    <3>1. Chained(s)
      BY DEF ChainInv, AccountInv
    <3>2. CASE i \in Invitations(s)
      BY <2>4, <3>1, <3>2 DEF Chained
    <3>3. CASE i = n
      BY <1>1, <2>2, <2>4, <3>3 DEF CarriesWell, Previous
    <3> QED BY <2>4, <3>2, <3>3
  <2>8. s \notin crossed => Linked(s)'
    <3> SUFFICES ASSUME s \notin crossed PROVE Linked(s)'
      OBVIOUS
    <3>1. log'[n].link = token'[s].id
      BY <1>1, <1>2, <2>2, <2>4 DEF CarriesWell
    <3>2. n \in Invitations(s)' /\ \A j \in Invitations(s)' : j <= n
      BY <2>4
    <3> QED BY <3>1, <3>2 DEF Linked, Previous
  <2>9. AccountInv(s)'
    BY <1>2, <2>6, <2>7, <2>8 DEF AccountInv
  <2>10. s \in crossed' \/ \A q \in Requests : q # r /\ Carries(req[q]) => req[q].subject # s
    BY <1>2, <2>1, <2>2, CarriesAlone
  <2> QED BY <1>1, <1>2, <1>3, <1>4, <2>5, <2>9, <2>10, ChainStep
<1> QED BY <1>5, <1>6

LEMMA StepChain ==
  ASSUME TypeInv, LinkInv, ChainInv, NEW r \in Requests, Step(r)
  PROVE  ChainInv'
BY QuietChain, CreateUserChain, CreateTokenChain, SendChain, LogChain, PreviousChain,
   DropTokenChain, AcceptCommitChain DEF Step

\* A step of no request leaves each account what the chain is about.
LEMMA SameChain ==
  ASSUME TypeInv, ChainInv, \A u \in Users : Same(u), UNCHANGED <<req, crossed, cut>>
  PROVE  ChainInv'
<1>1. \A u \in Users : AccountInv(u)'
  BY AccountSame DEF ChainInv
<1>2. ASSUME NEW r \in Requests, Carries(req[r]), req[r].subject \notin crossed
      PROVE  CarriesWell(req[r])'
  <2>1. PICK q : q = req[r]
    OBVIOUS
  <2>2. q.subject \in Users /\ CarriesWell(q)
    BY <1>2, <2>1, Holding DEF Carries, TypeInv, Held, ChainInv
  <2>3. CarriesWell(q)' /\ q = req'[r]
    BY <2>1, <2>2, CarriesSame
  <2> QED BY <2>3 DEF CarriesWell, Active, Previous, Invitations
<1> QED BY <1>1, <1>2 DEF ChainInv

\* The provider's events change a row's status only.
LEMMA WebhookSame ==
  ASSUME TypeInv, Webhook, UNCHANGED <<user, token>>
  PROVE  \A u \in Users : Same(u)
<1>1. log \in Seq(LogRows)
  BY MailTypes DEF TypeInv, TypeOK
<1>2. PICK id \in DOMAIN sent, status \in Finals : Mark(id, status)
  BY DEF Webhook, WebhookEvent
<1>3. DOMAIN log' = DOMAIN log
  BY <1>2 DEF Mark
<1>4. ASSUME NEW i \in DOMAIN log
      PROVE  /\ log'[i].to = log[i].to /\ log'[i].template = log[i].template
             /\ log'[i].link = log[i].link /\ log'[i].resentFrom = log[i].resentFrom
  <2>1. log[i] \in LogRows
    BY <1>1
  <2>2. log'[i] = IF log[i].id = id THEN [log[i] EXCEPT !.status = status] ELSE log[i]
    BY <1>2 DEF Mark
  <2> QED BY <2>1, <2>2 DEF LogRows
<1> QED BY <1>3, <1>4 DEF Same, Invitations

LEMMA NextChain == TypeInv /\ LinkInv /\ ChainInv /\ [Next]_vars => ChainInv'
<1> SUFFICES ASSUME TypeInv, LinkInv, ChainInv, [Next]_vars PROVE ChainInv'
  OBVIOUS
<1>1. ASSUME NEW u \in Users, Create(u) PROVE ChainInv'
  BY <1>1, RowsSame, SameChain DEF Create, mail, history
<1>2. ASSUME NEW u \in Users, Expire(u) PROVE ChainInv'
  <2>1. /\ token[u] # NoToken /\ token' = [token EXCEPT ![u].expired = TRUE]
        /\ UNCHANGED <<user, log, req, crossed, cut>>
    BY <1>2 DEF Expire, mail, history
  <2>2. \A v \in Users : token'[v].id = token[v].id /\ (token[v] = NoToken => token'[v] = NoToken)
    BY <2>1 DEF TypeInv, TypeOK
  <2>3. \A v \in Users : Same(v)
    BY <2>1, <2>2 DEF Same, Invitations
  <2> QED BY <2>1, <2>3, SameChain
<1>3. ASSUME NEW r \in Requests, NEW u \in Users, NEW s \in Users, NEW op \in Ops,
             NEW role \in (Roles \cap ASSIGNABLE_MEMBER_ROLES) \cup {NoOverride},
             Enter(r, u, op, s, role)
      PROVE  ChainInv'
  <2> DEFINE held == New(FirstStep(op), op, s, role)
  <2>1. /\ held.pc \in {"delete", "find", "member"} /\ held.template = "USER_INVITATION"
        /\ held.resentFrom = 0
    BY DEF New, FirstStep
  <2>2. Begin(r, held) /\ UNCHANGED <<user, token, log>>
    BY <1>3 DEF Enter, rows, mail
  <2> HIDE DEF held
  <2>3. Labelled(held) /\ ~Carries(held)
    BY <2>1 DEF Labelled, Carries
  <2> QED BY <2>2, <2>3, BeginChain
<1>4. ASSUME NEW r \in Requests, NEW u \in Users, AcceptFind(r, u) PROVE ChainInv'
  <2> DEFINE held == [New("accept", "acceptInvite", u, NoOverride)
                      EXCEPT !.link = token[u].id, !.template = "WELCOME_EMAIL"]
  <2>1. held.pc = "accept" /\ held.template = "WELCOME_EMAIL"
    BY DEF New
  <2>2. Begin(r, held) /\ UNCHANGED <<user, token, log>>
    BY <1>4 DEF AcceptFind, rows, mail
  <2> HIDE DEF held
  <2>3. Labelled(held) /\ ~Carries(held)
    BY <2>1 DEF Labelled, Carries
  <2> QED BY <2>2, <2>3, BeginChain
<1>5. ASSUME NEW r \in Requests, Step(r) PROVE ChainInv'
  BY <1>5, StepChain
<1>6. ASSUME NEW r \in Requests, Abort(r) PROVE ChainInv'
  BY <1>6, AbortChain
<1>7. CASE Webhook /\ UNCHANGED <<rows, req, begun, history>>
  BY <1>7, WebhookSame, SameChain DEF rows, history
<1>8. CASE UNCHANGED vars
  BY <1>8, RowsSame, SameChain DEF vars, rows, mail, history
<1> QED BY <1>1, <1>2, <1>3, <1>4, <1>5, <1>6, <1>7, <1>8 DEF Next

LEMMA ChainAlways == Spec => [](TypeInv /\ LinkInv /\ ChainInv)
<1>1. Init => TypeInv /\ LinkInv /\ ChainInv
  BY InitTypes, LinkInit, ChainInit
<1>2. TypeInv /\ LinkInv /\ ChainInv /\ [Next]_vars => (TypeInv /\ LinkInv /\ ChainInv)'
  BY NextTypes, LinkNext, NextChain
<1> QED BY <1>1, <1>2, PTL DEF Spec

\* The greatest element of a set of numbers is its Max.
LEMMA Greatest ==
  ASSUME NEW S \in SUBSET Nat, NEW n \in S, \A j \in S : j <= n
  PROVE  Max(S) = n
<1>1. \A x \in S : (\A y \in S : x >= y) <=> x = n
  OBVIOUS
<1> QED BY <1>1 DEF Max

LEMMA InvitationNumbers == ASSUME TypeInv, NEW u \in Users PROVE Invitations(u) \subseteq Nat
<1>1. log \in Seq(LogRows)
  BY MailTypes DEF TypeInv, TypeOK
<1> QED BY <1>1 DEF Invitations

\* However many mails are refused and requests cut short, the invitations of an
\* account form one chain, each naming the one before it, unless two requests crossed.
THEOREM ResendsFormChain == Spec => []ResendsChain
<1>1. TypeInv /\ LinkInv /\ ChainInv => ResendsChain
  <2> SUFFICES ASSUME TypeInv, ChainInv, NEW u \in Users \ crossed, NEW i \in Invitations(u)
               PROVE  log[i].resentFrom = Max({j \in Invitations(u) : j < i} \cup {0})
    BY DEF ResendsChain
  <2> DEFINE S == {j \in Invitations(u) : j < i} \cup {0}
  <2>1. S \in SUBSET Nat
    BY InvitationNumbers
  <2>2. log[i].resentFrom \in S /\ \A j \in Invitations(u) : j < i => j <= log[i].resentFrom
    BY DEF ChainInv, AccountInv, Chained
  <2>3. \A j \in S : j <= log[i].resentFrom
    BY <2>1, <2>2
  <2> HIDE DEF S
  <2>4. Max(S) = log[i].resentFrom
    BY <2>1, <2>2, <2>3, Greatest
  <2> QED BY <2>4 DEF S
<1> QED BY <1>1, ChainAlways, PTL

\* The newest invitation mail of a pending account has the link that works, unless
\* two requests on the account crossed or one was cut short.
THEOREM NewestInvitationWorks == Spec => []NewestLinkWorks
<1>1. TypeInv /\ LinkInv /\ ChainInv => NewestLinkWorks
  <2> SUFFICES ASSUME TypeInv, ChainInv, NEW u \in Users, Pending(u),
                      u \notin WorkedOn \cup cut \cup crossed
               PROVE  /\ Invitations(u) # {}
                      /\ log[Max(Invitations(u))].link = token[u].id
    BY DEF NewestLinkWorks
  <2>1. ASSUME NEW r \in Requests, Heading(req[r]), req[r].subject = u PROVE FALSE
    BY <2>1 DEF Heading, Carries, ChainInv, Labelled, WorkedOn, Busy
  <2>2. PICK i \in Invitations(u) : Previous(i, u) /\ log[i].link = token[u].id
    BY <2>1 DEF ChainInv, AccountInv, Linked
  <2>3. Max(Invitations(u)) = i
    BY <2>2, InvitationNumbers, Greatest DEF Previous
  <2> QED BY <2>2, <2>3
<1> QED BY <1>1, ChainAlways, PTL

\* What an account is shown, offered and allowed agrees, but for the two cases that
\* AccessAgrees names.  This rests on the role tables alone and on no step: it is
\* proved for every role, override and membership row, those no run has included.
THEOREM RoleTablesAgree == Spec => []AccessAgrees
<1>1. AccessAgrees
  <2> SUFFICES ASSUME NEW u \in Users, RoomFound
               PROVE  /\ HasAccess(u) => MaySee(u)
                      /\ MaySee(u) => HasAccess(u) \/ user[u].role = "RP_LIQUIDATOR"
                      /\ HasAccess(u) /\ Offers(u).manage # MayManage(u) =>
                           /\ member[u].override # NoOverride
                           /\ MayManage(u) # (member[u].override \in DATA_ROOM_MANAGER_ROLES)
    BY DEF AccessAgrees
  <2>1. HasAccess(u) => MaySee(u)
    BY DEF HasAccess, MaySee, MayManage, DATA_ROOM_MANAGER_ROLES
  <2>2. MaySee(u) => HasAccess(u) \/ user[u].role = "RP_LIQUIDATOR"
    BY DEF HasAccess, MaySee, MayManage, DATA_ROOM_MANAGER_ROLES
  <2>3. Offers(u).manage = (EffectiveRole(u) \in DATA_ROOM_MANAGER_ROLES)
    BY DEF Offers
  <2>4. CASE user[u].role \in ORG_WIDE_ROLES \/ member[u].override = NoOverride
    <3>1. EffectiveRole(u) = user[u].role
      BY <2>4 DEF EffectiveRole
    <3> QED BY <2>1, <2>2, <2>3, <3>1 DEF MayManage
  <2>5. CASE ~(user[u].role \in ORG_WIDE_ROLES \/ member[u].override = NoOverride)
    <3>1. EffectiveRole(u) = member[u].override
      BY <2>5 DEF EffectiveRole
    <3> QED BY <2>1, <2>2, <2>3, <2>5, <3>1
  <2> QED BY <2>4, <2>5
<1> QED BY <1>1, PTL
=============================================================================

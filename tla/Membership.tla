----------------------------- MODULE Membership -----------------------------
(***************************************************************************)
(* One data room, its members and the invitations to it, as                *)
(* data-rooms.service.ts keeps them, with acceptInvite of auth.service.ts  *)
(* and the mails of both (Mail).  A manager's request reads the room once, *)
(* in assertManager, and then writes in several statements, each an action *)
(* here; requests run concurrently and may be cut short anywhere.          *)
(*                                                                         *)
(* An account is known by its email, which the schema makes unique, and    *)
(* all are of one organisation.  Names, dates and the audit rows, which    *)
(* come last in every handler, are left out.                               *)
(***************************************************************************)
EXTENDS Mail

CONSTANTS
  Requests,   \* the slots a request in flight occupies
  Roles,      \* the roles of UserRole that occur
  MaxRequests \* bound: requests ever made

AllRoles == {"SUPER_ADMIN", "ORG_ADMIN", "RP_LIQUIDATOR", "PRA", "COC_MEMBER",
             "AUDITOR", "LEGAL_ADVISOR", "GUEST"}

ASSUME RolesAssumption == Roles \subseteq AllRoles
ASSUME RequestBoundAssumption == MaxRequests \in Nat

VARIABLES
  room,    \* the DataRoom row: none, live or deleted
  user,    \* per account its User row: status (none: no row) and role
  member,  \* per account its DataRoomMember row: none, in or removed, and override
  token,   \* per account its InviteToken row, one at most: id, accepted, expired
  made,    \* tokens ever made: their ids are 1 .. made
  begun,   \* requests begun so far
  req,     \* what each request in flight holds between two awaits
  accepts, \* history: per account how often an invite link set its password
  crossed, \* history: accounts not yet active two LinkOps worked on at once
  cut      \* history: accounts not yet active on which a LinkOp was cut short

rows == <<room, user, member, token, made>>
history == <<accepts, crossed, cut>>
vars == <<rows, mail, req, begun, history>>

-----------------------------------------------------------------------------
(* Roles and access: content-roles.ts, data-room-access.service.ts *)

ORG_WIDE_ROLES == {"SUPER_ADMIN", "ORG_ADMIN"}
DATA_ROOM_MANAGER_ROLES == ORG_WIDE_ROLES \cup {"RP_LIQUIDATOR"}
CONTENT_MANAGER_ROLES == DATA_ROOM_MANAGER_ROLES \cup {"AUDITOR"}
CONTENT_DELETE_ROLES == DATA_ROOM_MANAGER_ROLES
NO_DOWNLOAD_ROLES == {"GUEST"}
ASSIGNABLE_MEMBER_ROLES == AllRoles \ {"SUPER_ADMIN"}

NoOverride == "none"

RoomFound == room = "live"

\* getAccess: an org-wide account needs no row, any other a row not removed.
HasAccess(u) ==
  /\ RoomFound
  /\ user[u].role \in ORG_WIDE_ROLES \/ member[u].row = "in"

EffectiveRole(u) ==
  IF user[u].role \in ORG_WIDE_ROLES \/ member[u].override = NoOverride
  THEN user[u].role ELSE member[u].override

\* getMyAccess: what the pages offer.
Offers(u) ==
  [manage   |-> EffectiveRole(u) \in DATA_ROOM_MANAGER_ROLES,
   upload   |-> EffectiveRole(u) \in CONTENT_MANAGER_ROLES,
   delete   |-> EffectiveRole(u) \in CONTENT_DELETE_ROLES,
   download |-> EffectiveRole(u) \notin NO_DOWNLOAD_ROLES]

MayManageOrgWide(u) == user[u].role \in ORG_WIDE_ROLES  \* mutant of MayManage

\* RolesGuard and assertManager: the account's own role, and no row needed.
MayManage(u) == user[u].role \in DATA_ROOM_MANAGER_ROLES

\* findAll and findOne: the rooms an account is shown.
MaySee(u) == MayManage(u) \/ member[u].row = "in"

-----------------------------------------------------------------------------
(* Requests *)

Active(u) == user[u].status = "ACTIVE"

Idle == [pc |-> "idle"]
Busy == {r \in Requests : req[r].pc # "idle"}

\* The requests that read or write invite tokens, and the accounts they work on.
LinkOps == {"inviteMember", "resendInvite", "acceptInvite"}
WorkedOn == {req[r].subject : r \in {q \in Busy : req[q].op \in LinkOps}}
Touched(held) == {u \in Users : u = held.subject /\ held.op \in LinkOps /\ ~Active(u)}

NoToken == [id |-> 0, accepted |-> FALSE, expired |-> FALSE]

Begin(r, held) ==
  /\ req[r] = Idle
  /\ begun < MaxRequests /\ begun' = begun + 1
  /\ req' = [req EXCEPT ![r] = held]
  /\ crossed' = crossed \cup (WorkedOn \cap Touched(held))
  /\ UNCHANGED <<accepts, cut>>

Hold(r, held) == req' = [req EXCEPT ![r] = held] /\ UNCHANGED begun

New(pc, op, subject, role) ==
  [pc |-> pc, op |-> op, subject |-> subject, role |-> role, link |-> 0,
   id |-> Refused, resentFrom |-> 0, template |-> "USER_INVITATION"]

Move(r, pc) == Hold(r, [req[r] EXCEPT !.pc = pc])

\* The handler's last write, or a throw.
End(r) == Hold(r, Idle)

Ops == {"remove", "inviteMember", "resendInvite", "updateMemberRole", "removeMember",
        "resetMemberPassword"}

FirstStep(op) ==
  CASE op = "remove" -> "delete" [] op = "inviteMember" -> "find" [] OTHER -> "member"

\* jwt.strategy.ts reads the account and roles.guard.ts its role.  Neither changes
\* once an account is active, so that they are read with the room is no loss.
Admitted(u) == Active(u) /\ user[u].role \in DATA_ROOM_MANAGER_ROLES

\* The guards and assertManager; a request refused by one of them changes nothing.
Enter(r, u, op, subject, role) ==
  /\ Admitted(u) /\ RoomFound
  /\ op = "removeMember" => subject # u
  /\ op = "remove" => subject = u
  /\ (role = NoOverride) = (op \notin {"inviteMember", "updateMemberRole"})
  /\ Begin(r, New(FirstStep(op), op, subject, role))
  /\ UNCHANGED <<rows, mail>>

-----------------------------------------------------------------------------
(* The room's life: create and remove *)

\* One nested write.  The folders seeded next are FolderTree's.
Create(u) ==
  /\ Admitted(u)
  /\ room = "none"
  /\ room' = "live"
  /\ member' = [member EXCEPT ![u] = [row |-> "in", override |-> NoOverride]]
  /\ UNCHANGED <<user, token, made, mail, req, begun, history>>

\* By id alone: the row may have been deleted since it was read.
Delete(r) ==
  /\ req[r].pc = "delete"
  /\ room' = "deleted"
  /\ End(r)
  /\ UNCHANGED <<user, member, token, made, mail, history>>

-----------------------------------------------------------------------------
(* inviteMember *)

FindUserOnly(r) ==  \* mutant of FindUser: no account is created
  /\ req[r].pc = "find"
  /\ IF user[req[r].subject].status = "none"
     THEN Move(r, "token")
     ELSE Hold(r, [req[r] EXCEPT !.pc = "send", !.template = "DATA_ROOM_INVITATION"])
  /\ UNCHANGED <<rows, mail, history>>

\* An account there is, pending or not, is only told of the room.
FindUser(r) ==
  /\ req[r].pc = "find"
  /\ IF user[req[r].subject].status = "none"
     THEN Move(r, "user")
     ELSE Hold(r, [req[r] EXCEPT !.pc = "send", !.template = "DATA_ROOM_INVITATION"])
  /\ UNCHANGED <<rows, mail, history>>

\* The email is unique: the second of two creates fails.
CreateUser(r) ==
  /\ req[r].pc = "user"
  /\ IF user[req[r].subject].status = "none"
     THEN /\ user' = [user EXCEPT ![req[r].subject] =
                        [status |-> "PENDING_INVITE", role |-> req[r].role]]
          /\ Move(r, "token")
     ELSE End(r) /\ UNCHANGED user
  /\ UNCHANGED <<room, member, token, made, mail, history>>

LinkBefore == made  \* mutant of NewLink: the link of the token just deleted

NewLink == made + 1

\* userId is unique too: a create fails where there is a row.
CreateToken(r) ==
  /\ req[r].pc = "token"
  /\ IF token[req[r].subject] = NoToken
     THEN /\ made' = made + 1
          /\ token' = [token EXCEPT ![req[r].subject] = [NoToken EXCEPT !.id = made + 1]]
          /\ Hold(r, [req[r] EXCEPT !.pc = "send", !.link = NewLink])
     ELSE End(r) /\ UNCHANGED <<made, token>>
  /\ UNCHANGED <<room, user, member, mail, history>>

Upsert(r) ==
  /\ req[r].pc = "upsert"
  /\ member' = [member EXCEPT ![req[r].subject] =
                  [row |-> "in", override |-> req[r].role]]
  /\ End(r)
  /\ UNCHANGED <<room, user, token, made, mail, history>>

-----------------------------------------------------------------------------
(* The mail of a request: dispatch *)

Send(r) ==
  /\ req[r].pc = "send"
  /\ \E id \in 0 .. Len(sent) + 1 :
       /\ ProviderSend(id, req[r].subject, req[r].link)
       /\ Hold(r, [req[r] EXCEPT !.pc = "log", !.id = id])
  /\ UNCHANGED <<rows, log, history>>

Log(r) ==
  /\ req[r].pc = "log"
  /\ Record(req[r].id, req[r].subject, req[r].template, req[r].link, req[r].resentFrom)
  /\ IF req[r].op = "inviteMember"
     THEN Hold(r, New("upsert", req[r].op, req[r].subject, req[r].role)) ELSE End(r)
  /\ UNCHANGED <<rows, sent, history>>

-----------------------------------------------------------------------------
(* resendInvite, updateMemberRole, removeMember, resetMemberPassword *)

\* The member row, and with it the account.  A password reset is Auth's; here is
\* its mail, which forgotPassword sends only to an active account.
ReadMember(r) ==
  /\ req[r].pc = "member"
  /\ LET s == req[r].subject
         op == req[r].op
     IN  IF member[s].row # "in" THEN End(r)
         ELSE CASE op = "resendInvite" ->
                     IF user[s].status = "PENDING_INVITE" THEN Move(r, "previous") ELSE End(r)
                [] op = "resetMemberPassword" ->
                     IF Active(s)
                     THEN Hold(r, [req[r] EXCEPT !.pc = "send", !.template = "PASSWORD_RESET"])
                     ELSE End(r)
                [] OTHER -> Move(r, "change")
  /\ UNCHANGED <<rows, mail, history>>

Invitations(u) == {i \in DOMAIN log : log[i].to = u /\ log[i].template = "USER_INVITATION"}

PreviousNone(i, u) == i = 0  \* mutant of Previous: resentFromId not passed on

\* findFirst by sentAt, newest first; 0 when there is none.
Previous(i, u) == \A j \in Invitations(u) : j <= i

PreviousLog(r) ==
  /\ req[r].pc = "previous"
  /\ \E i \in Invitations(req[r].subject) \cup {0} :
       /\ Previous(i, req[r].subject)
       /\ Hold(r, [req[r] EXCEPT !.pc = "drop", !.resentFrom = i])
  /\ UNCHANGED <<rows, mail, history>>

DropTokenOnly(r) ==  \* mutant of DropToken: no new token follows
  /\ req[r].pc = "drop"
  /\ token' = [token EXCEPT ![req[r].subject] = NoToken]
  /\ Move(r, "send")
  /\ UNCHANGED <<room, user, member, made, mail, history>>

DropToken(r) ==
  /\ req[r].pc = "drop"
  /\ token' = [token EXCEPT ![req[r].subject] = NoToken]
  /\ Move(r, "token")
  /\ UNCHANGED <<room, user, member, made, mail, history>>

\* By key alone: a row removed meanwhile takes the new override too.
ChangeMember(r) ==
  /\ req[r].pc = "change"
  /\ member' = IF req[r].op = "removeMember"
               THEN [member EXCEPT ![req[r].subject].row = "removed"]
               ELSE [member EXCEPT ![req[r].subject].override = req[r].role]
  /\ End(r)
  /\ UNCHANGED <<room, user, token, made, mail, history>>

-----------------------------------------------------------------------------
(* acceptInvite, by whoever holds a link that was mailed *)

Mailed(u) == {sent[i].link : i \in {j \in DOMAIN sent : sent[j].to = u}}

UsableTwice(t) == ~t.expired  \* mutant of Usable: acceptedAt not looked at

Usable(t) == ~t.accepted /\ ~t.expired

AcceptFind(r, u) ==
  /\ token[u].id \in Mailed(u) \ {0}
  /\ Usable(token[u])
  /\ Begin(r, [New("accept", "acceptInvite", u, NoOverride)
               EXCEPT !.link = token[u].id, !.template = "WELCOME_EMAIL"])
  /\ UNCHANGED <<rows, mail>>

TokenAny(r) == TRUE  \* mutant of TokenThere: updateMany, which may match no row

TokenThere(r) == token[req[r].subject].id = req[r].link

\* The transaction: update by the token's id fails when a resend has deleted it.
\* acceptedAt is not looked at again.
AcceptCommit(r) ==
  /\ req[r].pc = "accept"
  /\ IF TokenThere(r)
     THEN /\ user' = [user EXCEPT ![req[r].subject].status = "ACTIVE"]
          /\ token' = [token EXCEPT ![req[r].subject].accepted = TRUE]
          /\ accepts' = [accepts EXCEPT ![req[r].subject] = @ + 1]
          /\ Hold(r, [req[r] EXCEPT !.pc = "send", !.link = 0])
     ELSE End(r) /\ UNCHANGED <<user, token, accepts>>
  /\ UNCHANGED <<room, member, made, mail, crossed, cut>>

\* inviteExpiresHours pass.  Of an accepted token nobody asks.
Expire(u) ==
  /\ token[u] # NoToken /\ Usable(token[u])
  /\ token' = [token EXCEPT ![u].expired = TRUE]
  /\ UNCHANGED <<room, user, member, made, mail, req, begun, history>>

\* The process dies, or a statement fails.
Abort(r) ==
  /\ r \in Busy
  /\ End(r)
  /\ cut' = cut \cup Touched(req[r])
  /\ UNCHANGED <<rows, mail, accepts, crossed>>

-----------------------------------------------------------------------------
\* One manager, the seeded one, and accounts that are there or not.
Init ==
  /\ room = "none"
  /\ user \in [Users -> [status : {"ACTIVE"}, role : Roles]
                          \cup [status : {"none"}, role : {NoOverride}]]
  /\ Cardinality({u \in Users : Admitted(u)}) = 1
  /\ member = [u \in Users |-> [row |-> "none", override |-> NoOverride]]
  /\ token = [u \in Users |-> NoToken]
  /\ made = 0
  /\ req = [r \in Requests |-> Idle] /\ begun = 0
  /\ MailInit
  /\ accepts = [u \in Users |-> 0] /\ crossed = {} /\ cut = {}

Step(r) ==
  \/ Delete(r)
  \/ FindUser(r) \/ CreateUser(r) \/ CreateToken(r) \/ Upsert(r)
  \/ Send(r) \/ Log(r)
  \/ ReadMember(r) \/ PreviousLog(r) \/ DropToken(r) \/ ChangeMember(r)
  \/ AcceptCommit(r)

Next ==
  \/ \E u \in Users : Create(u) \/ Expire(u)
  \/ \E r \in Requests :
       \/ \E u, s \in Users, op \in Ops,
             role \in (Roles \cap ASSIGNABLE_MEMBER_ROLES) \cup {NoOverride} :
            Enter(r, u, op, s, role)
       \/ \E u \in Users : AcceptFind(r, u)
       \/ Step(r)
       \/ Abort(r)
  \/ Webhook /\ UNCHANGED <<rows, req, begun, history>>

Spec == Init /\ [][Next]_vars

-----------------------------------------------------------------------------
Pcs == {"delete", "find", "user", "token", "send", "log", "upsert",
        "member", "previous", "drop", "change", "accept"}

Held == [pc : Pcs, op : Ops \cup {"acceptInvite"},
         subject : Users, role : Roles \cup {NoOverride}, link : Nat, id : Nat,
         resentFrom : Nat, template : Templates]

\* Every state component has its type, and an unknown account has no rows.
TypeOK ==
  /\ MailTypeOK
  /\ room \in {"none", "live", "deleted"}
  /\ user \in [Users -> [status : {"none", "PENDING_INVITE", "ACTIVE"},
                         role : Roles \cup {NoOverride}]]
  /\ member \in [Users -> [row : {"none", "in", "removed"},
                           override : Roles \cup {NoOverride}]]
  /\ token \in [Users -> [id : Nat, accepted : BOOLEAN, expired : BOOLEAN]]
  /\ made \in Nat /\ begun \in Nat
  /\ req \in [Requests -> {Idle} \cup Held]
  /\ accepts \in [Users -> Nat]
  /\ crossed \in SUBSET Users /\ cut \in SUBSET Users
  /\ \A u \in Users : user[u].status = "none" =>
       token[u] = NoToken /\ member[u].row = "none"

Pending(u) == user[u].status = "PENDING_INVITE"

\* An invited account on which nobody works has a token row, which a resend can
\* replace, unless a request on it was cut short, between the account and its
\* token (data-rooms.service.ts:202) or between the old token and the new
\* (:286).  Requests that cross leave it one: who fails finds a row there.
PendingHasToken ==
  \A u \in Users : Pending(u) /\ u \notin WorkedOn \cup cut => token[u] # NoToken

\* The newest invitation mail of such an account carries the link that works.
\* Two resends that cross may mail the two links the other way round.
NewestLinkWorks ==
  \A u \in Users : Pending(u) /\ u \notin WorkedOn \cup cut \cup crossed =>
    /\ Invitations(u) # {}
    /\ log[Max(Invitations(u))].link = token[u].id

\* An invitation sets a password once, unless two requests crossed: two uses of
\* one link that both find it unaccepted (auth.service.ts:243), or a resend that
\* found the account pending and replaces the token just accepted
\* (data-rooms.service.ts:271).
AcceptedOnce == \A u \in Users : accepts[u] > 1 => u \in crossed

\* A link that a resend has replaced, or is about to, sets no password, even when
\* it was found before (auth.service.ts:254).
ReplacedLinkIsDead ==
  [][\A r \in Requests :
       /\ req[r].pc = "accept" /\ req'[r].pc = "send"
       => token[req[r].subject].id = req[r].link]_vars

\* Each invitation row of an account names the one before it, the first none:
\* the resends of an account form one chain unless two crossed.
ResendsChain ==
  \A u \in Users \ crossed : \A i \in Invitations(u) :
    log[i].resentFrom = Max({j \in Invitations(u) : j < i} \cup {0})

\* What an account is shown, offered and allowed agrees but in two cases: an
\* RP_LIQUIDATOR who is no member is shown and may manage a room it has no access
\* to (data-room-access.service.ts:14), and an override of another tier than
\* the account's role is offered what its account may not do, or the reverse.
AccessAgrees ==
  \A u \in Users : RoomFound /\ Active(u) =>
    /\ HasAccess(u) => MaySee(u)
    /\ MaySee(u) => HasAccess(u) \/ user[u].role = "RP_LIQUIDATOR"
    /\ HasAccess(u) /\ Offers(u).manage # MayManage(u) =>
         /\ member[u].override # NoOverride
         /\ MayManage(u) # (member[u].override \in DATA_ROOM_MANAGER_ROLES)
=============================================================================

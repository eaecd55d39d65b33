-------------------------------- MODULE Auth --------------------------------
(***************************************************************************)
(* One user's account as auth.service.ts keeps it: the password and its    *)
(* history, the lockout counter, the refresh-token sessions and the        *)
(* password-reset tokens.  Handlers run concurrently; each await of the    *)
(* database ends an action, so everything a handler read earlier may be    *)
(* stale when it writes.  Every statement on the database is keyed by one  *)
(* user, which is why one user is enough.                                  *)
(*                                                                         *)
(* A request turned down before it has written anything changes no state   *)
(* and is a stuttering step.  That covers an expired reset token too, so   *)
(* only the expiry of sessions, which the session limit counts, is an      *)
(* action.                                                                 *)
(***************************************************************************)
EXTENDS Integers, Sequences, FiniteSets

CONSTANTS
  Requests,       \* the slots a request in flight occupies
  Passwords,      \* the passwords a user may choose or type
  InitialPassword,
  MaxLoginAttempts, MaxConcurrentSessions, PasswordHistoryLimit,
  MaxIssued,      \* bound: sessions that exist or may yet come of a request in flight
  MaxAttempts,    \* bound: no wrong password is typed once the counter is here
  MaxResetTokens  \* bound: reset links ever mailed

ASSUME RequestsAssumption == IsFiniteSet(Requests)
ASSUME InitialPasswordAssumption == InitialPassword \in Passwords
ASSUME LimitsAssumption ==
  /\ MaxLoginAttempts \in Nat \ {0}
  /\ MaxConcurrentSessions \in Nat \ {0}
  /\ PasswordHistoryLimit \in Nat
ASSUME BoundsAssumption ==
  MaxIssued \in Nat /\ MaxAttempts \in Nat /\ MaxResetTokens \in Nat

VARIABLES
  user,        \* the User row: pw, hist (newest first), attempts, locked (lockedUntil > now)
  sessions,    \* the Session rows in the order of createdAt; an id is a position
  revoked,     \* the sessions with a revokedAt
  expired,     \* the sessions past their expiresAt
  tokens,      \* how many reset tokens exist: they are 1 .. tokens
  usedTokens,  \* those with a usedAt
  req,         \* what each request in flight holds between two awaits
  overlapped,  \* history: the requests that were in flight together with another
  epoch,       \* history: resets committed
  clean        \* history: the last epoch begun while no other request was in flight

vars == <<user, sessions, revoked, expired, tokens, usedTokens, req,
          overlapped, epoch, clean>>

NoSession == 0
Ids == DOMAIN sessions

LiveIgnoringRevocation == Ids \ expired  \* mutant of Live

\* The sessions refresh accepts and the session limit counts.
Live == Ids \ (revoked \cup expired)

RecentIgnoringCurrent(pw, hist) == {hist[i] : i \in DOMAIN hist}  \* mutant of Recent

\* The passwords resetPassword compares the new one with.
Recent(pw, hist) == {pw} \cup {hist[i] : i \in DOMAIN hist}

(***************************************************************************)
(* What a handler carries across an await.  cred is history: the epoch of  *)
(* the password the request rests on.                                      *)
(***************************************************************************)
Idle == [pc |-> "idle"]
Comparing == [pc : {"compare"}, right : BOOLEAN, attempts : Nat, cred : Nat]
Counting == [pc : {"count"}, cred : Nat]
Trimming == [pc : {"trim"}, cred : Nat, excess : SUBSET Nat]
Rotating == [pc : {"rotate"}, cred : Nat, parent : Nat]
Issuing == [pc : {"issue"}, cred : Nat, parent : Nat]
Resetting == [pc : {"commit"}, token : Nat, new : Passwords, pw : Passwords,
              hist : Seq(Passwords)]
Request == {Idle} \cup Comparing \cup Counting \cup Trimming \cup Rotating
             \cup Issuing \cup Resetting

Busy == {r \in Requests : req[r].pc # "idle"}

Room == Len(sessions) + Cardinality({r \in Busy : req[r].pc # "commit"}) < MaxIssued

Begin(r, held) ==
  /\ req[r] = Idle
  /\ req' = [req EXCEPT ![r] = held]
  /\ overlapped' = IF Busy = {} THEN overlapped \ {r}
                   ELSE overlapped \cup Busy \cup {r}

Continue(r, held) ==
  /\ req' = [req EXCEPT ![r] = held]
  /\ UNCHANGED overlapped

Init ==
  /\ user = [pw |-> InitialPassword, hist |-> <<>>, attempts |-> 0,
             locked |-> FALSE]
  /\ sessions = <<>>
  /\ revoked = {} /\ expired = {}
  /\ tokens = 0 /\ usedTokens = {}
  /\ req = [r \in Requests |-> Idle]
  /\ overlapped = {}
  /\ epoch = 0 /\ clean = 0

-----------------------------------------------------------------------------
(* login *)

\* login reads the user row and turns a locked account away.  bcrypt.compare
\* works on the row just read, so it needs no step of its own.
LoginRead(r, guess) ==
  /\ Room
  /\ guess # user.pw => user.attempts < MaxAttempts
  /\ ~user.locked
  /\ Begin(r, [pc |-> "compare", right |-> guess = user.pw,
               attempts |-> user.attempts, cred |-> epoch])
  /\ UNCHANGED <<user, sessions, revoked, expired, tokens, usedTokens, epoch, clean>>

LockRecomputed(attempts, locked) == attempts >= MaxLoginAttempts  \* mutant of LockAfter

\* Below the limit lockedUntil is undefined in the update, which leaves the
\* column alone.
LockAfter(attempts, locked) == locked \/ attempts >= MaxLoginAttempts

\* handleFailedLogin counts on from the attempts read before the compare.
LoginFail(r) ==
  LET attempts == req[r].attempts + 1 IN
  /\ req[r].pc = "compare" /\ ~req[r].right
  /\ user' = [user EXCEPT !.attempts = attempts,
                          !.locked = LockAfter(attempts, @)]
  /\ Continue(r, Idle)
  /\ UNCHANGED <<sessions, revoked, expired, tokens, usedTokens, epoch, clean>>

LoginPass(r) ==
  /\ req[r].pc = "compare" /\ req[r].right
  /\ user' = [user EXCEPT !.attempts = 0, !.locked = FALSE]
  /\ Continue(r, [pc |-> "count", cred |-> req[r].cred])
  /\ UNCHANGED <<sessions, revoked, expired, tokens, usedTokens, epoch, clean>>

ExcessOffByOne(active) ==  \* mutant of Excess: slice(0, length - max)
  {s \in active : Cardinality({t \in active : t > s}) >= MaxConcurrentSessions}

\* The oldest sessions to revoke so that one more fits under the limit.
Excess(active) ==
  {s \in active : Cardinality({t \in active : t > s}) >= MaxConcurrentSessions - 1}

FindActive(r) ==
  /\ req[r].pc = "count"
  /\ Continue(r,
       IF Cardinality(Live) >= MaxConcurrentSessions
       THEN [pc |-> "trim", cred |-> req[r].cred, excess |-> Excess(Live)]
       ELSE [pc |-> "issue", cred |-> req[r].cred, parent |-> NoSession])
  /\ UNCHANGED <<user, sessions, revoked, expired, tokens, usedTokens, epoch, clean>>

RevokeExcess(r) ==
  /\ req[r].pc = "trim"
  /\ revoked' = revoked \cup req[r].excess
  /\ Continue(r, [pc |-> "issue", cred |-> req[r].cred, parent |-> NoSession])
  /\ UNCHANGED <<user, sessions, expired, tokens, usedTokens, epoch, clean>>

\* issueTokens, the last step of login and of refresh.  parent, cred and
\* shared are history: the session rotated away, the password behind it, and
\* whether the issuing request overlapped another.
IssueTokens(r) ==
  /\ req[r].pc = "issue"
  /\ sessions' = Append(sessions, [parent |-> req[r].parent, cred |-> req[r].cred,
                                   shared |-> r \in overlapped])
  /\ Continue(r, Idle)
  /\ UNCHANGED <<user, revoked, expired, tokens, usedTokens, epoch, clean>>

-----------------------------------------------------------------------------
(* refresh, logout *)

RefreshRead(r, s) ==
  /\ Room
  /\ s \in Live
  /\ Begin(r, [pc |-> "rotate", cred |-> sessions[s].cred, parent |-> s])
  /\ UNCHANGED <<user, sessions, revoked, expired, tokens, usedTokens, epoch, clean>>

RotateKeepingOld(r) ==  \* mutant of Rotate
  /\ req[r].pc = "rotate"
  /\ Continue(r, [pc |-> "issue", cred |-> req[r].cred, parent |-> req[r].parent])
  /\ UNCHANGED <<user, sessions, revoked, expired, tokens, usedTokens, epoch, clean>>

\* The update is by id alone: it succeeds whatever became of the session since.
Rotate(r) ==
  /\ req[r].pc = "rotate"
  /\ revoked' = revoked \cup {req[r].parent}
  /\ Continue(r, [pc |-> "issue", cred |-> req[r].cred, parent |-> req[r].parent])
  /\ UNCHANGED <<user, sessions, expired, tokens, usedTokens, epoch, clean>>

\* One updateMany, which matches no row when the cookie is absent or unknown.
Logout(s) ==
  /\ revoked' = revoked \cup ({s} \cap Ids)
  /\ UNCHANGED <<user, sessions, expired, tokens, usedTokens, req, overlapped,
                 epoch, clean>>

-----------------------------------------------------------------------------
(* forgotPassword, resetPassword *)

ForgotPassword ==
  /\ tokens < MaxResetTokens
  /\ tokens' = tokens + 1
  /\ UNCHANGED <<user, sessions, revoked, expired, usedTokens, req, overlapped,
                 epoch, clean>>

UnusedIgnored(t) == TRUE  \* mutant of Unused: usedAt not looked at

Unused(t) == t \notin usedTokens

ResetRead(r, t, new) ==
  /\ Unused(t)
  /\ new \notin Recent(user.pw, user.hist)
  /\ Begin(r, [pc |-> "commit", token |-> t, new |-> new, pw |-> user.pw,
               hist |-> user.hist])
  /\ UNCHANGED <<user, sessions, revoked, expired, tokens, usedTokens, epoch, clean>>

WholeHistory(pw, hist) == <<pw>> \o hist  \* mutant of UpdatedHistory

\* [user.password, ...previousHashes].slice(0, PASSWORD_HISTORY_LIMIT)
UpdatedHistory(pw, hist) ==
  SubSeq(<<pw>> \o hist, 1,
         IF Len(hist) < PasswordHistoryLimit THEN Len(hist) + 1
                                             ELSE PasswordHistoryLimit)

\* The transaction: password and history from the row read earlier, the lock
\* lifted, the token used, and every session of this moment revoked.
ResetCommit(r) ==
  /\ req[r].pc = "commit"
  /\ user' = [pw |-> req[r].new, hist |-> UpdatedHistory(req[r].pw, req[r].hist),
              attempts |-> 0, locked |-> FALSE]
  /\ usedTokens' = usedTokens \cup {req[r].token}
  /\ revoked' = revoked \cup Ids
  /\ epoch' = epoch + 1
  /\ clean' = IF Busy = {r} THEN epoch' ELSE clean
  /\ Continue(r, Idle)
  /\ UNCHANGED <<sessions, expired, tokens>>

-----------------------------------------------------------------------------
(* the clock, and a request cut short *)

LockExpires ==
  /\ user.locked
  /\ user' = [user EXCEPT !.locked = FALSE]
  /\ UNCHANGED <<sessions, revoked, expired, tokens, usedTokens, req, overlapped,
                 epoch, clean>>

\* Of a revoked session nothing asks whether it has expired too.
SessionExpires(s) ==
  /\ s \in Live
  /\ expired' = expired \cup {s}
  /\ UNCHANGED <<user, sessions, revoked, tokens, usedTokens, req, overlapped,
                 epoch, clean>>

\* A database error or the end of the process: what was written stays.
Abort(r) ==
  /\ r \in Busy
  /\ Continue(r, Idle)
  /\ UNCHANGED <<user, sessions, revoked, expired, tokens, usedTokens, epoch, clean>>

Step(r) ==
  \/ \E guess \in Passwords : LoginRead(r, guess)
  \/ LoginFail(r)
  \/ LoginPass(r)
  \/ FindActive(r)
  \/ RevokeExcess(r)
  \/ IssueTokens(r)
  \/ \E s \in Ids : RefreshRead(r, s)
  \/ Rotate(r)
  \/ \E t \in 1 .. tokens, new \in Passwords : ResetRead(r, t, new)
  \/ ResetCommit(r)
  \/ Abort(r)

Next ==
  \/ \E r \in Requests : Step(r)
  \/ \E s \in Ids \cup {NoSession} : Logout(s)
  \/ ForgotPassword
  \/ LockExpires
  \/ \E s \in Ids : SessionExpires(s)

Spec == Init /\ [][Next]_vars

-----------------------------------------------------------------------------
SessionRows == [parent : Nat, cred : Nat, shared : BOOLEAN]

\* The rows a request in flight refers to exist: no handler deletes one.
PointsToRows(held) ==
  /\ held.pc = "trim" => held.excess \subseteq Ids
  /\ held.pc = "rotate" => held.parent \in Ids
  /\ held.pc = "issue" => held.parent \in Ids \cup {NoSession}
  /\ held.pc = "commit" => /\ held.token \in 1 .. tokens
                           /\ Len(held.hist) <= PasswordHistoryLimit

\* The shape of every row and of every request in flight; the stored history
\* never outgrows PASSWORD_HISTORY_LIMIT.
TypeOK ==
  /\ user \in [pw : Passwords, hist : Seq(Passwords), attempts : Nat,
               locked : BOOLEAN]
  /\ Len(user.hist) <= PasswordHistoryLimit
  /\ sessions \in Seq(SessionRows)
  /\ revoked \subseteq Ids /\ expired \subseteq Ids
  /\ tokens \in Nat /\ usedTokens \subseteq 1 .. tokens
  /\ req \in [Requests -> Request]
  /\ \A r \in Requests : PointsToRows(req[r])
  /\ overlapped \subseteq Requests
  /\ epoch \in Nat /\ clean \in 0 .. epoch

\* Rotation consumes: however refreshes, logins, aborts and resets interleave,
\* a session issued by refresh exists only once the session it was traded for
\* is revoked (auth.service.ts:144-157).
ParentRevoked ==
  \A s \in Ids : sessions[s].parent # NoSession => sessions[s].parent \in revoked

\* A refresh token yields two sessions only to refreshes that were in flight
\* with other requests: the check at :136 and the update at :145 are apart.
ForksOnlyFromOverlap ==
  \A s, t \in Ids :
    s # t /\ sessions[s].parent = sessions[t].parent /\ sessions[s].parent # NoSession
      => sessions[s].shared /\ sessions[t].shared

\* The most the session limit can be exceeded by logins: one session for each
\* request in flight beyond the first, for the reads at :302 precede the
\* creation at :336.
LoginBound ==
  Cardinality({s \in Live : sessions[s].parent = NoSession})
    <= MaxConcurrentSessions - 1 + Cardinality(Requests)

\* The limit repairs itself: a login that met no other request on its way
\* leaves at most MaxConcurrentSessions live sessions, whatever earlier
\* overlaps had left behind (:307-312).
AloneLoginMeetsLimit ==
  [][\A r \in Requests :
       IssueTokens(r) /\ req[r].parent = NoSession /\ r \notin overlapped
         => Cardinality(Live') <= MaxConcurrentSessions]_vars

\* A reset that found no other request in flight ends everything before it:
\* no session that rests on an earlier password is live again (:226-230).
ResetCutsOff == \A s \in Live : sessions[s].cred >= clean

\* Two resets in flight together can lose history, yet the current password
\* is never one the stored history holds (:203-210).
PasswordNotInHistory ==
  \A i \in DOMAIN user.hist : user.hist[i] # user.pw

\* A failed login that counts on from a stale number never lifts a lock that
\* another failed login has set meanwhile (:288).
WrongPasswordNeverUnlocks ==
  [][\A r \in Requests : LoginFail(r) /\ user.locked => user'.locked]_vars

\* A reset link sets a password a second time only for a request that another
\* was in flight with: usedAt is read at :196 and written, whatever it holds by
\* then, at :223.
UsedLinkOverlapped ==
  [][\A r \in Requests :
       ResetCommit(r) /\ req[r].token \in usedTokens => r \in overlapped]_vars

-----------------------------------------------------------------------------
(* What the properties above need to be inductive.                         *)

\* A rotation has revoked its old session before it issues the new one.
IssuingRotated ==
  \A r \in Requests : req[r].pc = "issue" /\ req[r].parent # NoSession
                         => req[r].parent \in revoked

\* Two requests in flight know of each other.
OverlapSeen == \A r, q \in Busy : r # q => r \in overlapped

\* A refresh under way whose session another has already traded met it in flight.
RotationShared ==
  \A r \in Requests : req[r].pc \in {"rotate", "issue"} /\ req[r].parent # NoSession =>
    \A s \in Ids : sessions[s].parent = req[r].parent
                     => sessions[s].shared /\ r \in overlapped

RotationInv == ParentRevoked /\ IssuingRotated /\ OverlapSeen /\ RotationShared
                 /\ ForksOnlyFromOverlap

\* No request in flight rests on a password from before the last clean reset.
HeldSinceClean ==
  \A r \in Requests : req[r].pc \in {"compare", "count", "trim", "rotate", "issue"}
                         => req[r].cred >= clean

CutOffInv == ResetCutsOff /\ HeldSinceClean

\* A reset under way has compared its password with all it will store.
NewPasswordCompared ==
  \A r \in Requests : req[r].pc = "commit"
                         => req[r].new \notin Recent(req[r].pw, req[r].hist)

HistoryInv == PasswordNotInHistory /\ NewPasswordCompared

\* A reset under way whose link another has used meanwhile met that one in flight.
ResetShared ==
  \A r \in Requests :
    req[r].pc = "commit" /\ req[r].token \in usedTokens => r \in overlapped

-----------------------------------------------------------------------------
(* What the repository says, and the concurrent handlers do not keep.      *)

\* What the Session model says of itself in schema.prisma:178-179.
SessionLimit == Cardinality(Live) <= MaxConcurrentSessions

\* "Reset password invalidates all existing sessions" (auth.service.ts:226):
\* no live session rests on a password that has been reset.
ResetInvalidatesAll == \A s \in Live : sessions[s].cred = epoch

=============================================================================

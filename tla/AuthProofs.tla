----------------------------- MODULE AuthProofs -----------------------------
(***************************************************************************)
(* What Auth guarantees for every number of requests in flight, every set  *)
(* of passwords and every configured limit: rotation, resets and their     *)
(* links, locks, and how far racing logins exceed the limit of sessions.   *)
(***************************************************************************)
EXTENDS Auth, FiniteSetTheorems, WellFoundedInduction, TLAPS

\* Begin and Continue write only a request's own slot.
LEMMA BeginTypes ==
  ASSUME TypeOK, NEW r \in Requests, NEW held \in Request, Begin(r, held),
         PointsToRows(held), UNCHANGED <<sessions, tokens>>
  PROVE  /\ req' \in [Requests -> Request] /\ overlapped' \subseteq Requests
         /\ \A q \in Requests : PointsToRows(req[q])'
BY DEF TypeOK, Begin, Busy, PointsToRows, Ids

LEMMA ContinueTypes ==
  ASSUME TypeOK, NEW r \in Requests, NEW held \in Request, Continue(r, held),
         PointsToRows(held), Ids \subseteq Ids', tokens' = tokens
  PROVE  /\ req' \in [Requests -> Request] /\ overlapped' \subseteq Requests
         /\ \A q \in Requests : PointsToRows(req[q])'
<1>1. req' \in [Requests -> Request] /\ overlapped' \subseteq Requests
  BY DEF TypeOK, Continue
<1>2. \A q \in Requests : PointsToRows(req'[q])
  BY DEF TypeOK, Continue
<1>3. \A q \in Requests : PointsToRows(req[q])'
  BY <1>1, <1>2 DEF PointsToRows, NoSession
<1> QED BY <1>1, <1>3

LEMMA UnchangedTypes ==
  ASSUME TypeOK, UNCHANGED <<req, overlapped>>, Ids \subseteq Ids', tokens' \in Nat,
         tokens <= tokens'
  PROVE  /\ req' \in [Requests -> Request] /\ overlapped' \subseteq Requests
         /\ \A q \in Requests : PointsToRows(req[q])'
BY DEF TypeOK, PointsToRows, NoSession

\* What a slot's pc says of the rest of it.
LEMMA Held ==
  ASSUME TypeOK, NEW r \in Requests
  PROVE  /\ req[r].pc = "compare" => req[r] \in Comparing
         /\ req[r].pc = "count" => req[r] \in Counting
         /\ req[r].pc = "trim" => req[r] \in Trimming
         /\ req[r].pc = "rotate" => req[r] \in Rotating
         /\ req[r].pc = "issue" => req[r] \in Issuing
         /\ req[r].pc = "commit" => req[r] \in Resetting
BY DEF TypeOK, Request, Idle, Comparing, Counting, Trimming, Rotating, Issuing, Resetting

\* slice keeps a history of passwords within the limit.
LEMMA HistoryTypes ==
  ASSUME NEW pw \in Passwords, NEW hist \in Seq(Passwords),
         Len(hist) <= PasswordHistoryLimit
  PROVE  /\ UpdatedHistory(pw, hist) \in Seq(Passwords)
         /\ Len(UpdatedHistory(pw, hist)) <= PasswordHistoryLimit
         /\ \A i \in DOMAIN UpdatedHistory(pw, hist) :
              UpdatedHistory(pw, hist)[i] \in Recent(pw, hist)
<1> DEFINE all == <<pw>> \o hist
<1>1. all \in Seq(Passwords) /\ Len(all) = Len(hist) + 1
  OBVIOUS
<1>2. \A i \in DOMAIN all : all[i] \in Recent(pw, hist)
  BY DEF Recent
<1>3. UpdatedHistory(pw, hist) = SubSeq(all, 1,
          IF Len(hist) < PasswordHistoryLimit THEN Len(hist) + 1
                                              ELSE PasswordHistoryLimit)
  BY DEF UpdatedHistory
<1> HIDE DEF all
<1> QED
  BY <1>1, <1>2, <1>3, LimitsAssumption

-----------------------------------------------------------------------------
(* Type correctness *)

LEMMA InitTypes == Init => TypeOK
BY InitialPasswordAssumption, LimitsAssumption
   DEF Init, TypeOK, Request, Idle, SessionRows, Ids, PointsToRows

LEMMA StepTypes ==
  ASSUME TypeOK, [Next]_vars
  PROVE  TypeOK'
<1> USE DEF NoSession
<1>1. ASSUME NEW r \in Requests, NEW guess \in Passwords, LoginRead(r, guess)
      PROVE  TypeOK'
  <2> DEFINE held == [pc |-> "compare", right |-> guess = user.pw,
                      attempts |-> user.attempts, cred |-> epoch]
  <2>1. held \in Request /\ PointsToRows(held)
    BY DEF TypeOK, Request, Comparing, PointsToRows
  <2> QED BY <1>1, <2>1, BeginTypes DEF LoginRead, TypeOK, Ids
<1>2. ASSUME NEW r \in Requests, LoginFail(r)
      PROVE  TypeOK'
  <2>1. req[r].attempts + 1 \in Nat
    BY <1>2, Held DEF LoginFail, Comparing
  <2>2. Idle \in Request /\ PointsToRows(Idle)
    BY DEF Idle, Request, PointsToRows
  <2>3. LockAfter(req[r].attempts + 1, user.locked) \in BOOLEAN
    BY DEF LockAfter, TypeOK
  <2> QED BY <1>2, <2>1, <2>2, <2>3, ContinueTypes DEF LoginFail, TypeOK, Ids
<1>3. ASSUME NEW r \in Requests, LoginPass(r)
      PROVE  TypeOK'
  <2> DEFINE held == [pc |-> "count", cred |-> req[r].cred]
  <2>1. held \in Request /\ PointsToRows(held)
    BY <1>3, Held DEF LoginPass, Comparing, Request, Counting, PointsToRows
  <2> QED BY <1>3, <2>1, ContinueTypes DEF LoginPass, TypeOK, Ids
<1>4. ASSUME NEW r \in Requests, FindActive(r)
      PROVE  TypeOK'
  <2> DEFINE trim == [pc |-> "trim", cred |-> req[r].cred, excess |-> Excess(Live)]
             issue == [pc |-> "issue", cred |-> req[r].cred, parent |-> NoSession]
  <2>1. trim \in Request /\ PointsToRows(trim)
    BY <1>4, Held DEF FindActive, Counting, Request, Trimming, PointsToRows, Excess,
                     Live, Ids, TypeOK
  <2>2. issue \in Request /\ PointsToRows(issue)
    BY <1>4, Held DEF FindActive, Counting, Request, Issuing, PointsToRows
  <2>3. Continue(r, trim) \/ Continue(r, issue)
    BY <1>4 DEF FindActive
  <2> QED BY <1>4, <2>1, <2>2, <2>3, ContinueTypes DEF FindActive, TypeOK, Ids
<1>5. ASSUME NEW r \in Requests, RevokeExcess(r)
      PROVE  TypeOK'
  <2> DEFINE held == [pc |-> "issue", cred |-> req[r].cred, parent |-> NoSession]
  <2>1. held \in Request /\ PointsToRows(held)
    BY <1>5, Held DEF RevokeExcess, Trimming, Request, Issuing, PointsToRows
  <2>2. req[r].excess \subseteq Ids
    BY <1>5 DEF RevokeExcess, TypeOK, PointsToRows
  <2> QED BY <1>5, <2>1, <2>2, ContinueTypes DEF RevokeExcess, TypeOK, Ids
<1>6. ASSUME NEW r \in Requests, IssueTokens(r)
      PROVE  TypeOK'
  <2>1. [parent |-> req[r].parent, cred |-> req[r].cred, shared |-> r \in overlapped]
          \in SessionRows
    BY <1>6, Held DEF IssueTokens, Issuing, SessionRows
  <2>2. Idle \in Request /\ PointsToRows(Idle)
    BY DEF Idle, Request, PointsToRows
  <2>3. sessions' \in Seq(SessionRows) /\ Ids \subseteq Ids'
    <3> DEFINE row == [parent |-> req[r].parent, cred |-> req[r].cred,
                       shared |-> r \in overlapped]
    <3>1. row \in SessionRows /\ sessions' = Append(sessions, row)
      BY <1>6, <2>1 DEF IssueTokens
    <3> HIDE DEF row
    <3>2. sessions \in Seq(SessionRows)
      BY DEF TypeOK
    <3>3. sessions' \in Seq(SessionRows) /\ Len(sessions') = Len(sessions) + 1
      BY <3>1, <3>2
    <3> QED BY <3>2, <3>3 DEF Ids
  <2> QED BY <1>6, <2>2, <2>3, ContinueTypes DEF IssueTokens, TypeOK
<1>7. ASSUME NEW r \in Requests, NEW s \in Ids, RefreshRead(r, s)
      PROVE  TypeOK'
  <2> DEFINE held == [pc |-> "rotate", cred |-> sessions[s].cred, parent |-> s]
  <2>1. held \in Request /\ PointsToRows(held)
    <3>1. sessions \in Seq(SessionRows) /\ s \in 1 .. Len(sessions)
      BY DEF TypeOK, Ids
    <3>2. sessions[s] \in SessionRows /\ s \in Nat
      BY <3>1
    <3> QED BY <3>2 DEF Request, Rotating, SessionRows, PointsToRows
  <2> QED BY <1>7, <2>1, BeginTypes DEF RefreshRead, TypeOK, Ids
<1>8. ASSUME NEW r \in Requests, Rotate(r)
      PROVE  TypeOK'
  <2> DEFINE held == [pc |-> "issue", cred |-> req[r].cred, parent |-> req[r].parent]
  <2>1. req[r].parent \in Ids
    BY <1>8 DEF Rotate, TypeOK, PointsToRows
  <2>2. held \in Request /\ PointsToRows(held)
    BY <1>8, <2>1, Held DEF Rotate, Rotating, Request, Issuing, PointsToRows
  <2> QED BY <1>8, <2>1, <2>2, ContinueTypes DEF Rotate, TypeOK, Ids
<1>9. ASSUME NEW r \in Requests, NEW t \in 1 .. tokens, NEW new \in Passwords,
             ResetRead(r, t, new)
      PROVE  TypeOK'
  <2> DEFINE held == [pc |-> "commit", token |-> t, new |-> new, pw |-> user.pw,
                      hist |-> user.hist]
  <2>1. held \in Request /\ PointsToRows(held)
    BY DEF TypeOK, Request, Resetting, PointsToRows
  <2> QED BY <1>9, <2>1, BeginTypes DEF ResetRead, TypeOK, Ids
<1>10. ASSUME NEW r \in Requests, ResetCommit(r)
       PROVE  TypeOK'
  <2>1. /\ req[r] \in Resetting
        /\ req[r].token \in 1 .. tokens
        /\ Len(req[r].hist) <= PasswordHistoryLimit
    BY <1>10, Held DEF ResetCommit, TypeOK, PointsToRows
  <2>2. Idle \in Request /\ PointsToRows(Idle)
    BY DEF Idle, Request, PointsToRows
  <2>3. /\ user' \in [pw : Passwords, hist : Seq(Passwords), attempts : Nat,
                      locked : BOOLEAN]
        /\ Len(user'.hist) <= PasswordHistoryLimit
    BY <1>10, <2>1, HistoryTypes DEF ResetCommit, Resetting
  <2>4. epoch' \in Nat /\ clean' \in 0 .. epoch'
    BY <1>10 DEF ResetCommit, TypeOK
  <2> QED BY <1>10, <2>1, <2>2, <2>3, <2>4, ContinueTypes DEF ResetCommit, TypeOK, Ids
<1>11. ASSUME NEW r \in Requests, Abort(r)
       PROVE  TypeOK'
  <2>1. Idle \in Request /\ PointsToRows(Idle)
    BY DEF Idle, Request, PointsToRows
  <2> QED BY <1>11, <2>1, ContinueTypes DEF Abort, TypeOK, Ids
<1>12. ASSUME NEW s \in Ids \cup {NoSession}, Logout(s)
       PROVE  TypeOK'
  BY <1>12, UnchangedTypes DEF Logout, TypeOK, Ids
<1>13. CASE ForgotPassword
  BY <1>13, UnchangedTypes DEF ForgotPassword, TypeOK, Ids
<1>14. CASE LockExpires
  <2>1. user' \in [pw : Passwords, hist : Seq(Passwords), attempts : Nat,
                   locked : BOOLEAN] /\ user'.hist = user.hist
    BY <1>14 DEF LockExpires, TypeOK
  <2> QED BY <1>14, <2>1, UnchangedTypes DEF LockExpires, TypeOK, Ids
<1>15. ASSUME NEW s \in Ids, SessionExpires(s)
       PROVE  TypeOK'
  BY <1>15, UnchangedTypes DEF SessionExpires, TypeOK, Ids, Live
<1>16. CASE UNCHANGED vars
  BY <1>16, UnchangedTypes DEF vars, TypeOK, Ids
<1> QED
  BY <1>1, <1>2, <1>3, <1>4, <1>5, <1>6, <1>7, <1>8, <1>9, <1>10, <1>11, <1>12,
     <1>13, <1>14, <1>15, <1>16 DEF Next, Step

\* Every reachable state is well formed, and a request in flight refers only to
\* rows that exist.
THEOREM TypeCorrect == Spec => []TypeOK
BY InitTypes, StepTypes, PTL DEF Spec

-----------------------------------------------------------------------------
(* Slots *)

\* A slot other than the one that steps keeps what it holds.
LEMMA BeginSlots ==
  ASSUME TypeOK, NEW r \in Requests, NEW held, Begin(r, held), NEW q \in Requests
  PROVE  /\ req[r] = Idle /\ req'[r] = held
         /\ q # r => req'[q] = req[q]
BY DEF TypeOK, Begin

LEMMA ContinueSlots ==
  ASSUME TypeOK, NEW r \in Requests, NEW held, Continue(r, held), NEW q \in Requests
  PROVE  /\ req'[r] = held /\ overlapped' = overlapped
         /\ q # r => req'[q] = req[q]
BY DEF TypeOK, Continue

-----------------------------------------------------------------------------
(* History of passwords *)

LEMMA HistoryStep ==
  ASSUME TypeOK, HistoryInv, [Next]_vars
  PROVE  HistoryInv'
<1> USE DEF HistoryInv, NoSession
<1>1. ASSUME NEW r \in Requests, NEW t \in 1 .. tokens, NEW new \in Passwords,
             ResetRead(r, t, new)
      PROVE  HistoryInv'
  BY <1>1, BeginSlots DEF ResetRead, PasswordNotInHistory, NewPasswordCompared
<1>2. ASSUME NEW r \in Requests, ResetCommit(r)
      PROVE  HistoryInv'
  <2>1. /\ req[r] \in Resetting
        /\ Len(req[r].hist) <= PasswordHistoryLimit
    BY <1>2, Held DEF ResetCommit, TypeOK, PointsToRows
  <2>2. PasswordNotInHistory'
    BY <1>2, <2>1, HistoryTypes
       DEF ResetCommit, Resetting, PasswordNotInHistory, NewPasswordCompared
  <2>3. NewPasswordCompared'
    BY <1>2, ContinueSlots DEF ResetCommit, NewPasswordCompared, Idle
  <2> QED BY <2>2, <2>3
<1>3. ASSUME NEW r \in Requests, NEW held, held.pc # "commit",
             Begin(r, held) \/ Continue(r, held)
      PROVE  NewPasswordCompared'
  BY <1>3, BeginSlots, ContinueSlots DEF NewPasswordCompared
<1>4. ASSUME NEW r \in Requests, NEW guess \in Passwords, LoginRead(r, guess)
      PROVE  HistoryInv'
  BY <1>4, <1>3 DEF LoginRead, PasswordNotInHistory
<1>5. ASSUME NEW r \in Requests,
             LoginFail(r) \/ LoginPass(r) \/ FindActive(r) \/ RevokeExcess(r)
             \/ IssueTokens(r) \/ Rotate(r) \/ Abort(r)
      PROVE  HistoryInv'
  <2>1. NewPasswordCompared'
    BY <1>5, <1>3 DEF LoginFail, LoginPass, FindActive, RevokeExcess, IssueTokens,
                      Rotate, Abort, Idle
  <2>2. user'.pw = user.pw /\ user'.hist = user.hist
    BY <1>5 DEF LoginFail, LoginPass, FindActive, RevokeExcess, IssueTokens,
                Rotate, Abort, TypeOK
  <2> QED BY <2>1, <2>2 DEF PasswordNotInHistory
<1>6. ASSUME NEW r \in Requests, NEW s \in Ids, RefreshRead(r, s)
      PROVE  HistoryInv'
  BY <1>6, <1>3 DEF RefreshRead, PasswordNotInHistory
<1>7. ASSUME UNCHANGED req, user'.pw = user.pw, user'.hist = user.hist
      PROVE  HistoryInv'
  BY <1>7 DEF PasswordNotInHistory, NewPasswordCompared
<1>8. ASSUME NEW s \in Ids \cup {NoSession}, Logout(s)
      PROVE  HistoryInv'
  BY <1>7, <1>8 DEF Logout
<1>9. CASE ForgotPassword \/ LockExpires \/ UNCHANGED vars
  BY <1>7, <1>9 DEF ForgotPassword, LockExpires, vars, TypeOK
<1>10. ASSUME NEW s \in Ids, SessionExpires(s)
       PROVE  HistoryInv'
  BY <1>7, <1>10 DEF SessionExpires
<1> QED
  BY <1>1, <1>2, <1>4, <1>5, <1>6, <1>8, <1>9, <1>10 DEF Next, Step

\* The current password is never one of the stored history.
THEOREM CurrentPasswordIsNew == Spec => []PasswordNotInHistory
<1>1. Init => HistoryInv
  BY DEF Init, HistoryInv, PasswordNotInHistory, NewPasswordCompared, Idle
<1> QED
  BY <1>1, HistoryStep, TypeCorrect, PTL DEF Spec, HistoryInv

-----------------------------------------------------------------------------
(* A clean reset ends every session before it *)

LEMMA CutOffStep ==
  ASSUME TypeOK, CutOffInv, [Next]_vars
  PROVE  CutOffInv'
<1> USE DEF CutOffInv, NoSession
<1>1. ASSUME NEW r \in Requests, NEW held, UNCHANGED clean,
             held.pc \in {"compare", "count", "trim", "rotate", "issue"}
               => held.cred >= clean,
             Begin(r, held) \/ Continue(r, held)
      PROVE  HeldSinceClean'
  BY <1>1, BeginSlots, ContinueSlots DEF HeldSinceClean
<1>2. ASSUME UNCHANGED <<sessions, clean>>, revoked \subseteq revoked',
             expired \subseteq expired'
      PROVE  ResetCutsOff'
  BY <1>2 DEF ResetCutsOff, Live, Ids
<1>3. ASSUME NEW r \in Requests, NEW guess \in Passwords, LoginRead(r, guess)
      PROVE  CutOffInv'
  <2>1. epoch >= clean
    BY DEF TypeOK
  <2> QED BY <1>1, <1>2, <1>3, <2>1 DEF LoginRead
<1>4. ASSUME NEW r \in Requests, LoginFail(r) \/ Abort(r)
      PROVE  CutOffInv'
  BY <1>1, <1>2, <1>4 DEF LoginFail, Abort, Idle
<1>5. ASSUME NEW r \in Requests,
             LoginPass(r) \/ FindActive(r) \/ RevokeExcess(r) \/ Rotate(r)
      PROVE  CutOffInv'
  <2>1. req[r].cred >= clean
    BY <1>5 DEF LoginPass, FindActive, RevokeExcess, Rotate, HeldSinceClean
  <2> QED BY <1>1, <1>2, <1>5, <2>1 DEF LoginPass, FindActive, RevokeExcess, Rotate
<1>6. ASSUME NEW r \in Requests, IssueTokens(r)
      PROVE  CutOffInv'
  <2> DEFINE row == [parent |-> req[r].parent, cred |-> req[r].cred,
                     shared |-> r \in overlapped]
  <2>1. row.cred >= clean /\ sessions' = Append(sessions, row)
    BY <1>6 DEF IssueTokens, HeldSinceClean
  <2> HIDE DEF row
  <2>2. /\ \A s \in Ids : s \in Ids' /\ sessions'[s] = sessions[s]
        /\ \A s \in Ids' \ Ids : sessions'[s] = row
    BY <2>1 DEF TypeOK, Ids
  <2>3. ResetCutsOff'
    BY <1>6, <2>1, <2>2 DEF IssueTokens, ResetCutsOff, Live
  <2> QED BY <1>1, <1>6, <2>3 DEF IssueTokens, Idle
<1>7. ASSUME NEW r \in Requests, NEW s \in Ids, RefreshRead(r, s)
      PROVE  CutOffInv'
  <2>1. sessions[s].cred >= clean
    BY <1>7 DEF RefreshRead, ResetCutsOff
  <2> QED BY <1>1, <1>2, <1>7, <2>1 DEF RefreshRead
<1>8. ASSUME NEW r \in Requests, NEW t \in 1 .. tokens, NEW new \in Passwords,
             ResetRead(r, t, new)
      PROVE  CutOffInv'
  BY <1>1, <1>2, <1>8 DEF ResetRead
<1>9. ASSUME NEW r \in Requests, ResetCommit(r)
      PROVE  CutOffInv'
  <2>1. ResetCutsOff'
    BY <1>9 DEF ResetCommit, ResetCutsOff, Live, Ids
  <2>2. CASE Busy = {r}
    BY <1>9, <2>1, <2>2, ContinueSlots DEF ResetCommit, HeldSinceClean, Idle, Busy
  <2>3. CASE Busy # {r}
    BY <1>1, <1>9, <2>1, <2>3 DEF ResetCommit, Idle
  <2> QED BY <2>2, <2>3
<1>10. ASSUME NEW s \in Ids \cup {NoSession}, Logout(s)
       PROVE  CutOffInv'
  BY <1>2, <1>10 DEF Logout, HeldSinceClean
<1>11. CASE ForgotPassword \/ LockExpires \/ UNCHANGED vars
  BY <1>2, <1>11 DEF ForgotPassword, LockExpires, vars, HeldSinceClean
<1>12. ASSUME NEW s \in Ids, SessionExpires(s)
       PROVE  CutOffInv'
  BY <1>2, <1>12 DEF SessionExpires, HeldSinceClean
<1> QED
  BY <1>3, <1>4, <1>5, <1>6, <1>7, <1>8, <1>9, <1>10, <1>11, <1>12 DEF Next, Step

\* A reset with no other request in flight leaves no live session that rests on
\* an earlier password, then or later.
THEOREM CleanResetCutsOff == Spec => []ResetCutsOff
<1>1. Init => CutOffInv
  BY DEF Init, CutOffInv, ResetCutsOff, HeldSinceClean, Idle, Live, Ids
<1> QED
  BY <1>1, CutOffStep, TypeCorrect, PTL DEF Spec, CutOffInv

-----------------------------------------------------------------------------
(* Rotation *)

LEMMA OverlapStep ==
  ASSUME TypeOK, OverlapSeen, [Next]_vars
  PROVE  OverlapSeen'
<1>1. ASSUME NEW r \in Requests, NEW held, Begin(r, held)
      PROVE  OverlapSeen'
  BY <1>1 DEF Begin, OverlapSeen, Busy, TypeOK
<1>2. ASSUME NEW r \in Requests, NEW held, Continue(r, held), r \in Busy
      PROVE  OverlapSeen'
  BY <1>2 DEF Continue, OverlapSeen, Busy, TypeOK
<1>3. ASSUME NEW r \in Requests, Step(r)
      PROVE  OverlapSeen'
  <2>1. (\E held : Begin(r, held)) \/ (r \in Busy /\ \E held : Continue(r, held))
    BY <1>3 DEF Step, LoginRead, LoginFail, LoginPass, FindActive, RevokeExcess,
                IssueTokens, RefreshRead, Rotate, ResetRead, ResetCommit, Abort, Busy
  <2> QED BY <1>1, <1>2, <2>1
<1>4. ASSUME UNCHANGED <<req, overlapped>>
      PROVE  OverlapSeen'
  BY <1>4 DEF OverlapSeen, Busy
<1> QED
  BY <1>3, <1>4 DEF Next, Logout, ForgotPassword, LockExpires, SessionExpires, vars

\* A step that moves one slot on and issues no session.
LEMMA RotationSlot ==
  ASSUME TypeOK, RotationInv, NEW r \in Requests, NEW held,
         Begin(r, held) \/ Continue(r, held),
         UNCHANGED sessions, revoked \subseteq revoked',
         held.pc = "issue" /\ held.parent # NoSession => held.parent \in revoked',
         held.pc \in {"rotate", "issue"} /\ held.parent # NoSession =>
           \A s \in Ids : sessions[s].parent = held.parent
                            => sessions[s].shared /\ r \in overlapped'
  PROVE  ParentRevoked' /\ IssuingRotated' /\ RotationShared' /\ ForksOnlyFromOverlap'
<1>1. ParentRevoked' /\ ForksOnlyFromOverlap'
  BY DEF RotationInv, ParentRevoked, ForksOnlyFromOverlap, Ids
<1>2. \A q \in Requests : q # r => req'[q] = req[q] /\ (q \in overlapped => q \in overlapped')
  BY BeginSlots, ContinueSlots DEF Begin, Continue
<1>3. req'[r] = held
  BY BeginSlots, ContinueSlots
<1>4. IssuingRotated'
  BY <1>2, <1>3 DEF RotationInv, IssuingRotated
<1>5. RotationShared'
  BY <1>2, <1>3 DEF RotationInv, RotationShared, Ids
<1> QED BY <1>1, <1>4, <1>5

LEMMA RotationStep ==
  ASSUME TypeOK, RotationInv, [Next]_vars
  PROVE  RotationInv'
<1> USE DEF NoSession
<1>1. OverlapSeen'
  BY OverlapStep DEF RotationInv
<1> SUFFICES ParentRevoked' /\ IssuingRotated' /\ RotationShared' /\ ForksOnlyFromOverlap'
  BY <1>1 DEF RotationInv
<1> DEFINE Kept == ParentRevoked' /\ IssuingRotated' /\ RotationShared'
                     /\ ForksOnlyFromOverlap'
<1>2. ASSUME NEW r \in Requests, NEW guess \in Passwords, LoginRead(r, guess)
      PROVE  Kept
  BY <1>2, RotationSlot DEF LoginRead
<1>3. ASSUME NEW r \in Requests,
             LoginFail(r) \/ LoginPass(r) \/ FindActive(r) \/ RevokeExcess(r) \/ Abort(r)
      PROVE  Kept
  <2>1. PICK held : /\ Continue(r, held)
                    /\ held.pc \in {"rotate", "issue"} => held.parent = NoSession
    BY <1>3 DEF LoginFail, LoginPass, FindActive, RevokeExcess, Abort, Idle
  <2> QED
    BY <1>3, <2>1, RotationSlot DEF LoginFail, LoginPass, FindActive, RevokeExcess, Abort
<1>4. ASSUME NEW r \in Requests, IssueTokens(r)
      PROVE  Kept
  <2> DEFINE row == [parent |-> req[r].parent, cred |-> req[r].cred,
                     shared |-> r \in overlapped]
  <2>1. /\ sessions' = Append(sessions, row) /\ UNCHANGED revoked
        /\ row.parent = req[r].parent /\ row.shared = (r \in overlapped)
        /\ r \in Busy /\ req[r].pc = "issue"
    BY <1>4 DEF IssueTokens, Busy
  <2> HIDE DEF row
  <2>2. /\ \A s \in Ids : s \in Ids' /\ sessions'[s] = sessions[s]
        /\ \A s \in Ids' \ Ids : sessions'[s] = row
        /\ \A s, t \in Ids' \ Ids : s = t
    BY <2>1 DEF TypeOK, Ids
  <2>3. ParentRevoked'
    BY <2>1, <2>2 DEF RotationInv, ParentRevoked, IssuingRotated
  <2>4. ForksOnlyFromOverlap'
    <3>1. \A t \in Ids : sessions[t].parent = row.parent /\ row.parent # NoSession
                            => sessions[t].shared /\ row.shared
      BY <2>1 DEF RotationInv, RotationShared
    <3>2. \A s, t \in Ids : s # t /\ sessions[s].parent = sessions[t].parent
                             /\ sessions[s].parent # NoSession
                               => sessions[s].shared /\ sessions[t].shared
      BY DEF RotationInv, ForksOnlyFromOverlap
    <3> SUFFICES ASSUME NEW s \in Ids', NEW t \in Ids', s # t,
                        sessions'[s].parent = sessions'[t].parent,
                        sessions'[s].parent # NoSession
                 PROVE  sessions'[s].shared /\ sessions'[t].shared
      BY DEF ForksOnlyFromOverlap
    <3>3. CASE s \in Ids /\ t \in Ids
      BY <2>2, <3>2, <3>3
    <3>4. CASE s \in Ids /\ t \notin Ids
      <4>1. sessions'[s] = sessions[s] /\ sessions'[t] = row
        BY <2>2, <3>4
      <4> QED BY <3>1, <3>4, <4>1
    <3>5. CASE s \notin Ids /\ t \in Ids
      <4>1. sessions'[t] = sessions[t] /\ sessions'[s] = row
        BY <2>2, <3>5
      <4> QED BY <3>1, <3>5, <4>1
    <3>6. CASE s \notin Ids /\ t \notin Ids
      BY <2>2, <3>6
    <3> QED BY <3>3, <3>4, <3>5, <3>6
  <2>5. \A q \in Requests : req'[q].pc \in {"rotate", "issue"} => q # r /\ req'[q] = req[q]
    BY <1>4, ContinueSlots DEF IssueTokens, Idle
  <2>6. IssuingRotated'
    BY <2>1, <2>5 DEF RotationInv, IssuingRotated
  <2>7. RotationShared'
    <3> SUFFICES ASSUME NEW q \in Requests, req'[q].pc \in {"rotate", "issue"},
                        req'[q].parent # NoSession,
                        NEW s \in Ids', sessions'[s].parent = req'[q].parent
                 PROVE  sessions'[s].shared /\ q \in overlapped'
      BY DEF RotationShared
    <3>1. q # r /\ req'[q] = req[q] /\ q \in Busy /\ overlapped' = overlapped
      BY <1>4, <2>5, ContinueSlots DEF Busy, IssueTokens
    <3>2. CASE s \in Ids
      BY <2>2, <3>1, <3>2 DEF RotationInv, RotationShared
    <3>3. CASE s \notin Ids
      BY <2>1, <2>2, <3>1, <3>3 DEF RotationInv, OverlapSeen
    <3> QED BY <3>2, <3>3
  <2> QED BY <2>3, <2>4, <2>6, <2>7
<1>5. ASSUME NEW r \in Requests, NEW s \in Ids, RefreshRead(r, s)
      PROVE  Kept
  <2>1. \A t \in Ids : sessions[t].parent # s \/ s = NoSession
    BY <1>5 DEF RefreshRead, RotationInv, ParentRevoked, Live
  <2> QED BY <1>5, <2>1, RotationSlot DEF RefreshRead
<1>6. ASSUME NEW r \in Requests, Rotate(r)
      PROVE  Kept
  BY <1>6, RotationSlot DEF Rotate, Continue, RotationInv, RotationShared
<1>7. ASSUME NEW r \in Requests, NEW t \in 1 .. tokens, NEW new \in Passwords,
             ResetRead(r, t, new)
      PROVE  Kept
  BY <1>7, RotationSlot DEF ResetRead
<1>8. ASSUME NEW r \in Requests, ResetCommit(r)
      PROVE  Kept
  BY <1>8, RotationSlot DEF ResetCommit, Idle
<1>9. ASSUME UNCHANGED <<req, sessions, overlapped>>, revoked \subseteq revoked'
      PROVE  Kept
  BY <1>9 DEF RotationInv, ParentRevoked, IssuingRotated, RotationShared,
              ForksOnlyFromOverlap, Ids
<1>10. ASSUME NEW s \in Ids \cup {NoSession}, Logout(s)
       PROVE  Kept
  BY <1>9, <1>10 DEF Logout
<1>11. CASE ForgotPassword \/ LockExpires \/ UNCHANGED vars
  BY <1>9, <1>11 DEF ForgotPassword, LockExpires, vars
<1>12. ASSUME NEW s \in Ids, SessionExpires(s)
       PROVE  Kept
  BY <1>9, <1>12 DEF SessionExpires
<1> QED
  BY <1>2, <1>3, <1>4, <1>5, <1>6, <1>7, <1>8, <1>10, <1>11, <1>12 DEF Next, Step

LEMMA RotationInvariant == Spec => []RotationInv
<1>1. Init => RotationInv
  BY DEF Init, RotationInv, ParentRevoked, IssuingRotated, OverlapSeen, RotationShared,
         ForksOnlyFromOverlap, Ids, Idle, Busy
<1> QED
  BY <1>1, RotationStep, TypeCorrect, PTL DEF Spec

\* A session issued by refresh exists only once the one it replaces is revoked.
THEOREM RotationConsumes == Spec => []ParentRevoked
BY RotationInvariant, PTL DEF RotationInv

\* One refresh token yields two sessions only through requests in flight together.
THEOREM ForksNeedOverlap == Spec => []ForksOnlyFromOverlap
BY RotationInvariant, PTL DEF RotationInv

\* A step that moves one slot on and uses no link.
LEMMA ResetSlot ==
  ASSUME TypeOK, ResetShared, NEW r \in Requests, NEW held,
         Begin(r, held) \/ Continue(r, held),
         UNCHANGED usedTokens,
         held.pc = "commit" => held.token \notin usedTokens
  PROVE  ResetShared'
<1>1. \A q \in Requests : q # r => req'[q] = req[q] /\ (q \in overlapped => q \in overlapped')
  BY BeginSlots, ContinueSlots DEF Begin, Continue
<1>2. req'[r] = held
  BY BeginSlots, ContinueSlots
<1> QED BY <1>1, <1>2 DEF ResetShared

LEMMA ResetSharedStep ==
  ASSUME TypeOK, OverlapSeen, ResetShared, [Next]_vars
  PROVE  ResetShared'
<1>1. ASSUME NEW r \in Requests, NEW guess \in Passwords, LoginRead(r, guess)
      PROVE  ResetShared'
  BY <1>1, ResetSlot DEF LoginRead
<1>2. ASSUME NEW r \in Requests,
             LoginFail(r) \/ LoginPass(r) \/ FindActive(r) \/ RevokeExcess(r)
               \/ IssueTokens(r) \/ Rotate(r) \/ Abort(r)
      PROVE  ResetShared'
  <2>1. PICK held : Continue(r, held) /\ held.pc # "commit"
    BY <1>2 DEF LoginFail, LoginPass, FindActive, RevokeExcess, IssueTokens, Rotate, Abort, Idle
  <2>2. UNCHANGED usedTokens
    BY <1>2 DEF LoginFail, LoginPass, FindActive, RevokeExcess, IssueTokens, Rotate, Abort
  <2> QED BY <2>1, <2>2, ResetSlot
<1>3. ASSUME NEW r \in Requests, NEW s \in Ids, RefreshRead(r, s)
      PROVE  ResetShared'
  BY <1>3, ResetSlot DEF RefreshRead
<1>4. ASSUME NEW r \in Requests, NEW t \in 1 .. tokens, NEW new \in Passwords,
             ResetRead(r, t, new)
      PROVE  ResetShared'
  BY <1>4, ResetSlot DEF ResetRead, Unused
<1>5. ASSUME NEW r \in Requests, ResetCommit(r)
      PROVE  ResetShared'
  <2>1. /\ req'[r] = Idle /\ overlapped' = overlapped /\ r \in Busy
        /\ \A q \in Requests : q # r => req'[q] = req[q]
    BY <1>5, ContinueSlots DEF ResetCommit, Continue, Busy
  <2> SUFFICES ASSUME NEW q \in Requests, req'[q].pc = "commit"
               PROVE  q \in overlapped'
    BY DEF ResetShared
  <2>2. q # r /\ req[q].pc = "commit"
    BY <2>1 DEF Idle
  <2> QED BY <2>1, <2>2 DEF OverlapSeen, Busy
<1>6. ASSUME UNCHANGED <<req, overlapped, usedTokens>> PROVE ResetShared'
  BY <1>6 DEF ResetShared
<1>7. ASSUME NEW s \in Ids \cup {NoSession}, Logout(s) PROVE ResetShared'
  BY <1>6, <1>7 DEF Logout
<1>8. CASE ForgotPassword \/ LockExpires \/ UNCHANGED vars
  BY <1>6, <1>8 DEF ForgotPassword, LockExpires, vars
<1>9. ASSUME NEW s \in Ids, SessionExpires(s) PROVE ResetShared'
  BY <1>6, <1>9 DEF SessionExpires
<1> QED
  BY <1>1, <1>2, <1>3, <1>4, <1>5, <1>7, <1>8, <1>9 DEF Next, Step

\* A reset link that is used already sets a password only for a request that
\* another was in flight with.
THEOREM UsedLinkMetAnother == Spec => UsedLinkOverlapped
<1>1. Init => ResetShared
  BY DEF Init, ResetShared, Idle
<1>2. Spec => []ResetShared
  BY <1>1, ResetSharedStep, TypeCorrect, RotationInvariant, PTL DEF Spec, RotationInv
<1>3. ASSUME ResetShared
      PROVE  [\A r \in Requests :
                ResetCommit(r) /\ req[r].token \in usedTokens => r \in overlapped]_vars
  BY <1>3 DEF ResetCommit, ResetShared
<1> QED
  BY <1>2, <1>3, PTL DEF UsedLinkOverlapped

\* A failed login never lifts a lock, however stale the counter it read.
THEOREM WrongPasswordKeepsLock == Spec => WrongPasswordNeverUnlocks
<1>1. ASSUME TypeOK
      PROVE  [\A r \in Requests : LoginFail(r) /\ user.locked => user'.locked]_vars
  BY <1>1 DEF LoginFail, LockAfter, TypeOK
<1> QED
  BY <1>1, TypeCorrect, PTL DEF WrongPasswordNeverUnlocks

-----------------------------------------------------------------------------
(* The session limit                                                       *)

\* The live sessions a login has issued; refresh trades one for another.
LoginSessions == {s \in Live : sessions[s].parent = NoSession}

\* r is past its look at the sessions, and owes a login its session.
AboutToIssue(r) == req[r].pc = "issue" /\ req[r].parent = NoSession

\* Up to session h the limit leaves room for one login, and each later session
\* belongs to a request of its own, which is not about to issue another.  mark is
\* the last session a request about to trim has seen, its own among them.
LoginsOwned(h, owner, mark) ==
  /\ Cardinality(LoginSessions \cap 1 .. h) <= MaxConcurrentSessions - 1
  /\ \A s, t \in LoginSessions \ 1 .. h : owner[s] = owner[t] => s = t
  /\ \A s \in LoginSessions \ 1 .. h :
       /\ ~AboutToIssue(owner[s])
       /\ req[owner[s]].pc = "trim" => s <= mark[owner[s]]
  /\ \A r \in Requests : req[r].pc = "trim" =>
       Cardinality((LoginSessions \cap 1 .. mark[r]) \ req[r].excess)
         <= MaxConcurrentSessions - 1

LoginInv ==
  \E h \in 0 .. Len(sessions) :
    \E owner \in [Ids -> Requests], mark \in [Requests -> 0 .. Len(sessions)] :
      LoginsOwned(h, owner, mark)

\* A login that met no other request knows how many sessions are live.
AloneInv ==
  \A r \in Requests \ overlapped :
    /\ req[r].pc = "trim" =>
         Cardinality(Live \ req[r].excess) <= MaxConcurrentSessions - 1
    /\ AboutToIssue(r) => Cardinality(Live) <= MaxConcurrentSessions - 1

LEMMA SessionsFinite ==
  ASSUME TypeOK
  PROVE  /\ Len(sessions) \in Nat /\ Ids = 1 .. Len(sessions)
         /\ \A S \in SUBSET Ids : IsFiniteSet(S) /\ Cardinality(S) \in Nat
<1>1. Len(sessions) \in Nat /\ Ids = 1 .. Len(sessions)
  BY DEF TypeOK, Ids
<1>2. IsFiniteSet(Ids)
  BY <1>1, FS_Interval
<1>3. \A S \in SUBSET Ids : IsFiniteSet(S)
  BY <1>2, FS_Subset
<1> QED BY <1>1, <1>3, FS_CardinalityType

LEMMA NoMore ==
  ASSUME NEW S, NEW T, IsFiniteSet(T), S \subseteq T
  PROVE  Cardinality(S) <= Cardinality(T)
BY FS_Subset

LEMMA LeastOf ==
  ASSUME NEW S \in SUBSET Nat, S # {}
  PROVE  \E m \in S : \A s \in S : m <= s
<1>1. PICK m \in S : \A s \in S : ~(<<s, m>> \in OpToRel(<, Nat))
  BY WFMin, NatLessThanWellFounded
<1>2. \A s \in S : ~(s < m)
  BY <1>1 DEF OpToRel
<1>3. S \subseteq Nat
  OBVIOUS
<1> QED BY <1>2, <1>3

\* What trimming leaves is room for one session more: of the sessions it spares,
\* all but the oldest are among the few newer than that one.
LEMMA TrimmingMakesRoom ==
  ASSUME NEW active \in SUBSET Nat, IsFiniteSet(active)
  PROVE  Cardinality(active \ Excess(active)) <= MaxConcurrentSessions - 1
<1> DEFINE kept == active \ Excess(active)
<1>0. MaxConcurrentSessions \in Nat \ {0}
  BY LimitsAssumption
<1>1. IsFiniteSet(kept) /\ Cardinality(kept) \in Nat
  BY FS_Subset, FS_CardinalityType
<1>2. CASE kept = {}
  BY <1>0, <1>2, FS_EmptySet
<1>3. CASE kept # {}
  <2>1. PICK m \in kept : \A s \in kept : m <= s
    BY <1>3, LeastOf
  <2> DEFINE newer == {t \in active : t > m}
  <2>2. IsFiniteSet(newer) /\ Cardinality(newer) \in Nat
    BY FS_Subset, FS_CardinalityType
  <2>3. ~(Cardinality(newer) >= MaxConcurrentSessions - 1)
    BY DEF Excess
  <2>4. kept \ {m} \subseteq newer
    <3>1. kept \subseteq Nat
      OBVIOUS
    <3> QED BY <2>1, <3>1
  <2>5. Cardinality(kept \ {m}) = Cardinality(kept) - 1
    BY <1>1, FS_RemoveElement
  <2> HIDE DEF newer, kept
  <2>6. Cardinality(kept \ {m}) <= Cardinality(newer)
    BY <2>2, <2>4, NoMore
  <2> QED BY <1>0, <1>1, <2>2, <2>3, <2>5, <2>6 DEF kept
<1> QED BY <1>2, <1>3

\* Sessions that end and requests that move on, none to trim or to issue, leave
\* the later sessions with their owners.
LEMMA LoginsKept ==
  ASSUME TypeOK, UNCHANGED sessions, Live' \subseteq Live,
         NEW h, NEW owner \in [Ids -> Requests], NEW mark, LoginsOwned(h, owner, mark),
         \A q \in Requests : \/ req'[q] = req[q]
                             \/ req'[q].pc # "trim" /\ ~AboutToIssue(q)'
  PROVE  LoginsOwned(h, owner, mark)'
<1>1. LoginSessions' \subseteq LoginSessions /\ LoginSessions \subseteq Ids
  BY DEF LoginSessions, Live
<1>2. \A S \in SUBSET Ids : IsFiniteSet(S) /\ Cardinality(S) \in Nat
  BY SessionsFinite
<1>3. Cardinality(LoginSessions' \cap 1 .. h) <= MaxConcurrentSessions - 1
  <2>1. Cardinality(LoginSessions' \cap 1 .. h) <= Cardinality(LoginSessions \cap 1 .. h)
    BY <1>1, <1>2, NoMore
  <2> QED BY <1>1, <1>2, <2>1, LimitsAssumption DEF LoginsOwned
<1>4. ASSUME NEW r \in Requests, req'[r].pc = "trim"
      PROVE  Cardinality((LoginSessions' \cap 1 .. mark[r]) \ req'[r].excess)
               <= MaxConcurrentSessions - 1
  <2>1. req'[r] = req[r]
    BY <1>4
  <2> DEFINE before == (LoginSessions \cap 1 .. mark[r]) \ req[r].excess
             after == (LoginSessions' \cap 1 .. mark[r]) \ req[r].excess
  <2>2. after \subseteq before /\ before \subseteq Ids
    BY <1>1
  <2>3. Cardinality(before) <= MaxConcurrentSessions - 1
    BY <1>4, <2>1 DEF LoginsOwned
  <2> HIDE DEF before, after
  <2>4. Cardinality(after) <= Cardinality(before)
    BY <1>2, <2>2, NoMore
  <2>5. Cardinality(after) <= MaxConcurrentSessions - 1
    <3>1. Cardinality(after) \in Nat /\ Cardinality(before) \in Nat
      BY <1>2, <2>2
    <3> QED BY <2>3, <2>4, <3>1, LimitsAssumption
  <2> QED BY <2>1, <2>5 DEF after
<1>5. ASSUME NEW s \in LoginSessions' \ 1 .. h
      PROVE  /\ ~AboutToIssue(owner[s])'
             /\ req'[owner[s]].pc = "trim" => s <= mark[owner[s]]
  <2>1. s \in LoginSessions \ 1 .. h /\ owner[s] \in Requests
    BY <1>1
  <2>2. CASE req'[owner[s]] = req[owner[s]]
    BY <2>1, <2>2 DEF LoginsOwned, AboutToIssue
  <2>3. CASE req'[owner[s]] # req[owner[s]]
    BY <2>1, <2>3
  <2> QED BY <2>2, <2>3
<1>6. \A s, t \in LoginSessions' \ 1 .. h : owner[s] = owner[t] => s = t
  BY <1>1 DEF LoginsOwned
<1> QED BY <1>3, <1>4, <1>5, <1>6 DEF LoginsOwned

LEMMA LoginSlot ==
  ASSUME TypeOK, TypeOK', UNCHANGED sessions, Live' \subseteq Live, LoginInv,
         \A q \in Requests : \/ req'[q] = req[q]
                             \/ req'[q].pc # "trim" /\ ~AboutToIssue(q)'
  PROVE  LoginInv'
<1>1. PICK h \in 0 .. Len(sessions), owner \in [Ids -> Requests],
           mark \in [Requests -> 0 .. Len(sessions)] : LoginsOwned(h, owner, mark)
  BY DEF LoginInv
<1>2. LoginsOwned(h, owner, mark)'
  BY <1>1, LoginsKept
<1>3. Ids' = Ids /\ Len(sessions') = Len(sessions)
  BY DEF Ids
<1> QED BY <1>2, <1>3 DEF LoginInv

LEMMA FindActiveLogins ==
  ASSUME TypeOK, LoginInv, NEW r \in Requests, FindActive(r)
  PROVE  LoginInv'
<1> DEFINE next == IF Cardinality(Live) >= MaxConcurrentSessions
                   THEN [pc |-> "trim", cred |-> req[r].cred, excess |-> Excess(Live)]
                   ELSE [pc |-> "issue", cred |-> req[r].cred, parent |-> NoSession]
<1>1. PICK held : held = next
  OBVIOUS
<1>2. Continue(r, held) /\ UNCHANGED <<sessions, revoked, expired>>
  BY <1>1 DEF FindActive
<1>3. req'[r] = held /\ \A q \in Requests : q # r => req'[q] = req[q]
  BY <1>2, ContinueSlots
<1>4. PICK h \in 0 .. Len(sessions), owner \in [Ids -> Requests],
           mark \in [Requests -> 0 .. Len(sessions)] : LoginsOwned(h, owner, mark)
  BY DEF LoginInv
<1>5. /\ LoginSessions' = LoginSessions /\ LoginSessions \subseteq Live /\ Live \subseteq Ids
      /\ Ids' = Ids /\ Ids = 1 .. Len(sessions) /\ Len(sessions) \in Nat
      /\ Len(sessions') = Len(sessions)
  BY <1>2, SessionsFinite DEF LoginSessions, Live, Ids
<1>6. \A S \in SUBSET Ids : IsFiniteSet(S) /\ Cardinality(S) \in Nat
  BY SessionsFinite
<1>7. CASE Cardinality(Live) >= MaxConcurrentSessions
  <2>0. PICK n, seen : n = Len(sessions) /\ seen = [mark EXCEPT ![r] = n]
    OBVIOUS
  <2>1. held.pc = "trim" /\ held.excess = Excess(Live)
    BY <1>1, <1>7
  <2>2. /\ seen \in [Requests -> 0 .. n] /\ seen[r] = n
        /\ \A q \in Requests : q # r => seen[q] = mark[q]
    BY <1>4, <1>5, <2>0
  <2>3. Cardinality((LoginSessions \cap 1 .. n) \ Excess(Live)) <= MaxConcurrentSessions - 1
    <3> DEFINE spared == (LoginSessions \cap 1 .. n) \ Excess(Live)
               kept == Live \ Excess(Live)
    <3>1. spared \subseteq kept /\ kept \subseteq Ids
      BY <1>5
    <3>2. Cardinality(kept) <= MaxConcurrentSessions - 1
      BY <1>5, <1>6, TrimmingMakesRoom
    <3> HIDE DEF spared, kept
    <3>3. Cardinality(spared) <= Cardinality(kept)
      BY <1>6, <3>1, NoMore
    <3>4. Cardinality(spared) \in Nat /\ Cardinality(kept) \in Nat
      BY <1>6, <3>1
    <3>5. Cardinality(spared) <= MaxConcurrentSessions - 1
      BY <3>2, <3>3, <3>4, LimitsAssumption
    <3> QED BY <3>5 DEF spared
  <2>4. ASSUME NEW q \in Requests, req'[q].pc = "trim"
        PROVE  Cardinality((LoginSessions \cap 1 .. seen[q]) \ req'[q].excess)
                 <= MaxConcurrentSessions - 1
    <3>1. CASE q = r
      BY <1>3, <2>1, <2>2, <2>3, <3>1
    <3>2. CASE q # r
      BY <1>3, <1>4, <2>2, <2>4, <3>2 DEF LoginsOwned
    <3> QED BY <3>1, <3>2
  <2>5. ASSUME NEW s \in LoginSessions \ 1 .. h
        PROVE  /\ ~AboutToIssue(owner[s])'
               /\ req'[owner[s]].pc = "trim" => s <= seen[owner[s]]
    <3>1. owner[s] \in Requests /\ s \in 1 .. n
      BY <1>4, <1>5, <2>0
    <3>2. CASE owner[s] = r
      BY <1>3, <1>5, <2>1, <2>2, <3>1, <3>2 DEF AboutToIssue
    <3>3. CASE owner[s] # r
      BY <1>3, <1>4, <2>2, <3>1, <3>3 DEF LoginsOwned, AboutToIssue
    <3> QED BY <3>2, <3>3
  <2>6. /\ Cardinality(LoginSessions' \cap 1 .. h) <= MaxConcurrentSessions - 1
        /\ \A s, t \in LoginSessions' \ 1 .. h : owner[s] = owner[t] => s = t
    BY <1>4, <1>5 DEF LoginsOwned
  <2>7. LoginsOwned(h, owner, seen)'
    BY <1>5, <2>4, <2>5, <2>6 DEF LoginsOwned
  <2> QED BY <1>4, <1>5, <2>0, <2>2, <2>7 DEF LoginInv
<1>8. CASE ~(Cardinality(Live) >= MaxConcurrentSessions)
  <2>0. PICK n : n = Len(sessions)
    OBVIOUS
  <2>1. held.pc = "issue"
    BY <1>1, <1>8
  <2>2. /\ n \in 0 .. n /\ LoginSessions \subseteq 1 .. n
        /\ LoginSessions \ 1 .. n = {} /\ LoginSessions \cap 1 .. n = LoginSessions
    <3>1. n \in Nat /\ LoginSessions \subseteq 1 .. n
      BY <1>5, <2>0
    <3>2. n \in 0 .. n
      BY <3>1
    <3> QED BY <3>1, <3>2
  <2>3. Cardinality(LoginSessions) <= MaxConcurrentSessions - 1
    <3>1. Cardinality(LoginSessions) <= Cardinality(Live)
      BY <1>5, <1>6, NoMore
    <3>2. Cardinality(LoginSessions) \in Nat /\ Cardinality(Live) \in Nat
      BY <1>5, <1>6
    <3> QED BY <1>8, <3>1, <3>2, LimitsAssumption
  <2>4. \A q \in Requests : req'[q].pc = "trim" => q # r /\ req'[q] = req[q]
    BY <1>3, <2>1
  <2>5. ASSUME NEW q \in Requests, req'[q].pc = "trim"
        PROVE  Cardinality((LoginSessions' \cap 1 .. mark[q]) \ req'[q].excess)
                 <= MaxConcurrentSessions - 1
    BY <1>4, <1>5, <2>4, <2>5 DEF LoginsOwned
  <2>6. /\ LoginSessions' \ 1 .. n = {}
        /\ Cardinality(LoginSessions' \cap 1 .. n) <= MaxConcurrentSessions - 1
    BY <1>5, <2>2, <2>3
  <2>7. LoginsOwned(n, owner, mark)'
    BY <2>5, <2>6 DEF LoginsOwned
  <2> QED BY <1>4, <1>5, <2>0, <2>2, <2>7 DEF LoginInv
<1> QED BY <1>7, <1>8

LEMMA RevokeExcessLogins ==
  ASSUME TypeOK, LoginInv, NEW r \in Requests, RevokeExcess(r)
  PROVE  LoginInv'
<1>1. PICK held : held = [pc |-> "issue", cred |-> req[r].cred, parent |-> NoSession]
  OBVIOUS
<1>2. /\ Continue(r, held) /\ UNCHANGED <<sessions, expired>>
      /\ req[r].pc = "trim" /\ revoked' = revoked \cup req[r].excess
  BY <1>1 DEF RevokeExcess
<1>3. req'[r] = held /\ \A q \in Requests : q # r => req'[q] = req[q]
  BY <1>2, ContinueSlots
<1>4. PICK h \in 0 .. Len(sessions), owner \in [Ids -> Requests],
           mark \in [Requests -> 0 .. Len(sessions)] : LoginsOwned(h, owner, mark)
  BY DEF LoginInv
<1>5. /\ LoginSessions' = LoginSessions \ req[r].excess /\ LoginSessions \subseteq Ids
      /\ Ids' = Ids /\ Ids = 1 .. Len(sessions) /\ Len(sessions) \in Nat
      /\ Len(sessions') = Len(sessions)
  BY <1>2, SessionsFinite DEF LoginSessions, Live, Ids
<1>6. \A S \in SUBSET Ids : IsFiniteSet(S) /\ Cardinality(S) \in Nat
  BY SessionsFinite
<1>7. held.pc = "issue"
  BY <1>1
<1>8. mark[r] \in 0 .. Len(sessions) /\ h \in Nat /\ mark[r] \in Nat
  BY <1>4, <1>5
<1>9. PICK top \in 0 .. Len(sessions) : top = IF h >= mark[r] THEN h ELSE mark[r]
  BY <1>4, <1>8
<1>10. h <= top /\ mark[r] <= top /\ top \in Nat
  BY <1>8, <1>9
<1>11. Cardinality(LoginSessions' \cap 1 .. top) <= MaxConcurrentSessions - 1
  <2> DEFINE now == LoginSessions' \cap 1 .. top
             old == LoginSessions \cap 1 .. h
             spared == (LoginSessions \cap 1 .. mark[r]) \ req[r].excess
  <2>1. now \subseteq Ids /\ old \subseteq Ids /\ spared \subseteq Ids
    BY <1>5
  <2>2. /\ Cardinality(old) <= MaxConcurrentSessions - 1
        /\ Cardinality(spared) <= MaxConcurrentSessions - 1
    BY <1>2, <1>4 DEF LoginsOwned
  <2>3. now \subseteq old \/ now \subseteq spared
    BY <1>5, <1>9
  <2> HIDE DEF now, old, spared
  <2>4. Cardinality(now) \in Nat /\ Cardinality(old) \in Nat /\ Cardinality(spared) \in Nat
    BY <1>6, <2>1
  <2>5. Cardinality(now) <= Cardinality(old) \/ Cardinality(now) <= Cardinality(spared)
    BY <1>6, <2>1, <2>3, NoMore
  <2>6. Cardinality(now) <= MaxConcurrentSessions - 1
    BY <2>2, <2>4, <2>5, LimitsAssumption
  <2> QED BY <2>6 DEF now
<1>12. \A s \in LoginSessions' \ 1 .. top :
         s \in LoginSessions \ 1 .. h /\ s \in Ids /\ ~(s <= mark[r])
  <2> SUFFICES ASSUME NEW s \in LoginSessions' \ 1 .. top
               PROVE  s \in LoginSessions \ 1 .. h /\ s \in Ids /\ ~(s <= mark[r])
    OBVIOUS
  <2>1. s \in LoginSessions /\ s \in Ids /\ s \in Nat /\ s >= 1 /\ s \notin 1 .. top
    <3>1. s \in LoginSessions' /\ s \notin 1 .. top
      OBVIOUS
    <3>2. s \in LoginSessions /\ s \in 1 .. Len(sessions)
      BY <1>5, <3>1
    <3> QED BY <1>5, <3>1, <3>2
  <2>2. s > top
    BY <1>10, <2>1
  <2> QED BY <1>8, <1>10, <2>1, <2>2
<1>13. ASSUME NEW s \in LoginSessions' \ 1 .. top
       PROVE  /\ ~AboutToIssue(owner[s])'
              /\ req'[owner[s]].pc = "trim" => s <= mark[owner[s]]
  <2>1. s \in LoginSessions \ 1 .. h /\ owner[s] \in Requests /\ ~(s <= mark[r])
    BY <1>12
  <2>2. owner[s] # r
    BY <1>2, <1>4, <2>1 DEF LoginsOwned
  <2> QED BY <1>3, <1>4, <2>1, <2>2 DEF LoginsOwned, AboutToIssue
<1>14. \A s, t \in LoginSessions' \ 1 .. top : owner[s] = owner[t] => s = t
  BY <1>4, <1>12 DEF LoginsOwned
<1>15. ASSUME NEW q \in Requests, req'[q].pc = "trim"
       PROVE  Cardinality((LoginSessions' \cap 1 .. mark[q]) \ req'[q].excess)
                <= MaxConcurrentSessions - 1
  <2>1. q # r /\ req'[q] = req[q]
    BY <1>3, <1>7, <1>15
  <2> DEFINE before == (LoginSessions \cap 1 .. mark[q]) \ req[q].excess
             after == (LoginSessions' \cap 1 .. mark[q]) \ req[q].excess
  <2>2. after \subseteq before /\ before \subseteq Ids
    BY <1>5
  <2>3. Cardinality(before) <= MaxConcurrentSessions - 1
    BY <1>4, <1>15, <2>1 DEF LoginsOwned
  <2> HIDE DEF before, after
  <2>4. Cardinality(after) <= Cardinality(before)
    BY <1>6, <2>2, NoMore
  <2>5. Cardinality(after) \in Nat /\ Cardinality(before) \in Nat
    BY <1>6, <2>2
  <2>6. Cardinality(after) <= MaxConcurrentSessions - 1
    BY <2>3, <2>4, <2>5, LimitsAssumption
  <2> QED BY <2>1, <2>6 DEF after
<1>16. LoginsOwned(top, owner, mark)'
  BY <1>11, <1>13, <1>14, <1>15 DEF LoginsOwned
<1> QED BY <1>4, <1>5, <1>9, <1>16 DEF LoginInv

LEMMA IssueTokensLogins ==
  ASSUME TypeOK, LoginInv, NEW r \in Requests, IssueTokens(r)
  PROVE  LoginInv'
<1>1. PICK row : row = [parent |-> req[r].parent, cred |-> req[r].cred,
                        shared |-> r \in overlapped]
  OBVIOUS
<1>2. /\ Continue(r, Idle) /\ UNCHANGED <<revoked, expired>> /\ req[r].pc = "issue"
      /\ sessions' = Append(sessions, row) /\ row.parent = req[r].parent
  BY <1>1 DEF IssueTokens
<1>3. req'[r] = Idle /\ \A q \in Requests : q # r => req'[q] = req[q]
  BY <1>2, ContinueSlots
<1>4. PICK h \in 0 .. Len(sessions), owner \in [Ids -> Requests],
           mark \in [Requests -> 0 .. Len(sessions)] : LoginsOwned(h, owner, mark)
  BY DEF LoginInv
<1>5. PICK n \in Nat : n = Len(sessions) + 1
  BY SessionsFinite
<1>6. /\ Ids = 1 .. n - 1 /\ Ids' = Ids \cup {n} /\ Len(sessions') = n /\ n \notin Ids
      /\ sessions'[n] = row /\ \A s \in Ids : sessions'[s] = sessions[s]
  BY <1>2, <1>5 DEF TypeOK, Ids
<1>7. /\ LoginSessions \subseteq Ids
      /\ LoginSessions' = IF /\ row.parent = NoSession
                             /\ n \notin revoked \cup expired
                          THEN LoginSessions \cup {n} ELSE LoginSessions
  BY <1>2, <1>6 DEF LoginSessions, Live
<1>8. \A m \in 0 .. Len(sessions) : LoginSessions' \cap 1 .. m = LoginSessions \cap 1 .. m
  BY <1>5, <1>6, <1>7
<1>9. PICK owns : owns = [s \in Ids' |-> IF s \in Ids THEN owner[s] ELSE r]
  OBVIOUS
<1>10. /\ owns \in [Ids' -> Requests] /\ owns[n] = r
      /\ \A s \in Ids : owns[s] = owner[s]
  BY <1>4, <1>6, <1>9
<1>11. \A q \in Requests : mark[q] \in 0 .. Len(sessions)
  BY <1>4
<1>12. ASSUME NEW q \in Requests, req'[q].pc = "trim"
       PROVE  Cardinality((LoginSessions' \cap 1 .. mark[q]) \ req'[q].excess)
                <= MaxConcurrentSessions - 1
  <2>1. q # r /\ req'[q] = req[q]
    BY <1>3, <1>12 DEF Idle
  <2> QED BY <1>4, <1>8, <1>11, <1>12, <2>1 DEF LoginsOwned
<1>13. Cardinality(LoginSessions' \cap 1 .. h) <= MaxConcurrentSessions - 1
  BY <1>4, <1>8 DEF LoginsOwned
<1>14. ASSUME NEW s \in LoginSessions' \ 1 .. h, s # n
       PROVE  /\ s \in LoginSessions \ 1 .. h /\ owns[s] = owner[s] /\ owner[s] \in Requests
              /\ n \in LoginSessions' => owner[s] # r
  <2>1. s \in LoginSessions \ 1 .. h /\ owns[s] = owner[s] /\ owner[s] \in Requests
    BY <1>4, <1>7, <1>10, <1>14
  <2>2. n \in LoginSessions' => AboutToIssue(r)
    BY <1>2, <1>6, <1>7 DEF AboutToIssue
  <2>3. ~AboutToIssue(owner[s])
    BY <1>4, <2>1 DEF LoginsOwned
  <2> QED BY <2>1, <2>2, <2>3
<1>15. ASSUME NEW s \in LoginSessions' \ 1 .. h
       PROVE  /\ ~AboutToIssue(owns[s])'
              /\ req'[owns[s]].pc = "trim" => s <= mark[owns[s]]
  <2>1. CASE s = n
    BY <1>3, <1>10, <2>1 DEF AboutToIssue, Idle
  <2>2. CASE s # n
    <3>1. s \in LoginSessions \ 1 .. h /\ owns[s] = owner[s] /\ owner[s] \in Requests
      BY <1>14, <2>2
    <3>2. ~AboutToIssue(owner[s]) /\ (req[owner[s]].pc = "trim" => s <= mark[owner[s]])
      BY <1>4, <3>1 DEF LoginsOwned
    <3>3. CASE owner[s] = r
      BY <1>3, <3>1, <3>3 DEF AboutToIssue, Idle
    <3>4. CASE owner[s] # r
      BY <1>3, <3>1, <3>2, <3>4 DEF AboutToIssue
    <3> QED BY <3>3, <3>4
  <2> QED BY <2>1, <2>2
<1>16. ASSUME NEW s \in LoginSessions' \ 1 .. h, NEW t \in LoginSessions' \ 1 .. h,
              owns[s] = owns[t]
       PROVE  s = t
  <2>1. CASE s # n /\ t # n
    BY <1>4, <1>14, <1>16, <2>1 DEF LoginsOwned
  <2>2. CASE s = n \/ t = n
    BY <1>10, <1>14, <1>16, <2>2
  <2> QED BY <2>1, <2>2
<1>17. LoginsOwned(h, owns, mark)'
  BY <1>12, <1>13, <1>15, <1>16 DEF LoginsOwned
<1>18. h \in 0 .. Len(sessions') /\ mark \in [Requests -> 0 .. Len(sessions')]
  BY <1>4, <1>5, <1>6
<1> QED BY <1>10, <1>17, <1>18 DEF LoginInv

LEMMA LoginStep ==
  ASSUME TypeOK, TypeOK', LoginInv, [Next]_vars
  PROVE  LoginInv'
<1>1. ASSUME NEW r \in Requests, NEW held, Begin(r, held) \/ Continue(r, held),
             held.pc # "trim", held.pc = "issue" => held.parent # NoSession,
             UNCHANGED sessions, Live' \subseteq Live
      PROVE  LoginInv'
  <2>1. \A q \in Requests : \/ req'[q] = req[q]
                            \/ req'[q].pc # "trim" /\ ~AboutToIssue(q)'
    BY <1>1, BeginSlots, ContinueSlots DEF AboutToIssue
  <2> QED BY <1>1, <2>1, LoginSlot
<1>2. ASSUME UNCHANGED <<sessions, req>>, Live' \subseteq Live
      PROVE  LoginInv'
  BY <1>2, LoginSlot
<1>3. ASSUME revoked \subseteq revoked', expired \subseteq expired', UNCHANGED sessions
      PROVE  Live' \subseteq Live
  BY <1>3 DEF Live, Ids
<1>4. ASSUME NEW r \in Requests, NEW guess \in Passwords, LoginRead(r, guess)
      PROVE  LoginInv'
  BY <1>1, <1>3, <1>4 DEF LoginRead
<1>5. ASSUME NEW r \in Requests, LoginFail(r) \/ LoginPass(r) \/ Abort(r)
      PROVE  LoginInv'
  BY <1>1, <1>3, <1>5 DEF LoginFail, LoginPass, Abort, Idle
<1>6. ASSUME NEW r \in Requests, NEW s \in Ids, RefreshRead(r, s)
      PROVE  LoginInv'
  BY <1>1, <1>3, <1>6 DEF RefreshRead
<1>7. ASSUME NEW r \in Requests, Rotate(r)
      PROVE  LoginInv'
  <2>1. req[r].parent # NoSession
    BY <1>7, SessionsFinite DEF Rotate, TypeOK, PointsToRows, NoSession
  <2> QED BY <1>1, <1>3, <1>7, <2>1 DEF Rotate
<1>8. ASSUME NEW r \in Requests, NEW t \in 1 .. tokens, NEW new \in Passwords,
             ResetRead(r, t, new)
      PROVE  LoginInv'
  BY <1>1, <1>3, <1>8 DEF ResetRead
<1>9. ASSUME NEW r \in Requests, ResetCommit(r)
      PROVE  LoginInv'
  BY <1>1, <1>3, <1>9 DEF ResetCommit, Idle
<1>10. ASSUME NEW s \in Ids \cup {NoSession}, Logout(s)
       PROVE  LoginInv'
  BY <1>2, <1>3, <1>10 DEF Logout
<1>11. CASE ForgotPassword \/ LockExpires \/ UNCHANGED vars
  BY <1>2, <1>3, <1>11 DEF ForgotPassword, LockExpires, vars
<1>12. ASSUME NEW s \in Ids, SessionExpires(s)
       PROVE  LoginInv'
  BY <1>2, <1>3, <1>12 DEF SessionExpires
<1> QED
  BY <1>4, <1>5, <1>6, <1>7, <1>8, <1>9, <1>10, <1>11, <1>12,
     FindActiveLogins, RevokeExcessLogins, IssueTokensLogins DEF Next, Step

LEMMA InitLogins == Init => LoginInv
<1> SUFFICES ASSUME Init PROVE LoginInv
  OBVIOUS
<1>1. Ids = {} /\ Len(sessions) = 0 /\ LoginSessions = {}
  BY DEF Init, Ids, LoginSessions, Live
<1>2. \A r \in Requests : req[r].pc # "trim"
  BY DEF Init, Idle
<1>3. PICK owner, mark : /\ owner = [s \in Ids |-> CHOOSE r \in Requests : TRUE]
                         /\ mark = [r \in Requests |-> 0]
  OBVIOUS
<1>4. owner \in [Ids -> Requests] /\ mark \in [Requests -> 0 .. Len(sessions)]
  BY <1>1, <1>3
<1>5. Cardinality(LoginSessions \cap 1 .. 0) <= MaxConcurrentSessions - 1
  <2>1. LoginSessions \cap 1 .. 0 = {}
    BY <1>1
  <2> QED BY <2>1, FS_EmptySet, LimitsAssumption
<1>6. LoginsOwned(0, owner, mark)
  BY <1>1, <1>2, <1>5 DEF LoginsOwned
<1>7. 0 \in 0 .. Len(sessions)
  BY <1>1
<1> QED BY <1>4, <1>6, <1>7 DEF LoginInv

\* However logins, refreshes and resets interleave, the sessions logins have left
\* live exceed the limit by at most one for each request in flight beyond the
\* first, for every limit and every number of requests (:298-313, :336).
THEOREM LoginsBounded == Spec => []LoginBound
<1>1. TypeOK /\ LoginInv => LoginBound
  <2> SUFFICES ASSUME TypeOK, LoginInv PROVE LoginBound
    OBVIOUS
  <2>1. PICK h \in 0 .. Len(sessions), owner \in [Ids -> Requests],
             mark \in [Requests -> 0 .. Len(sessions)] : LoginsOwned(h, owner, mark)
    BY DEF LoginInv
  <2> DEFINE early == LoginSessions \cap 1 .. h
             late == LoginSessions \ 1 .. h
  <2>2. /\ early \subseteq Ids /\ late \subseteq Ids /\ early \cap late = {}
        /\ LoginSessions = early \cup late
    BY DEF LoginSessions, Live
  <2>3. /\ Cardinality(early) <= MaxConcurrentSessions - 1
        /\ \A s, t \in late : owner[s] = owner[t] => s = t
    BY <2>1 DEF LoginsOwned
  <2> HIDE DEF early, late
  <2>4. /\ IsFiniteSet(early) /\ Cardinality(early) \in Nat
        /\ IsFiniteSet(late) /\ Cardinality(late) \in Nat
    BY <2>2, SessionsFinite
  <2>5. IsFiniteSet(Requests) /\ Cardinality(Requests) \in Nat
    BY RequestsAssumption, FS_CardinalityType
  <2>6. Cardinality(late) <= Cardinality(Requests)
    <3> SUFFICES ASSUME Cardinality(Requests) < Cardinality(late) PROVE FALSE
      BY <2>4, <2>5
    <3>1. PICK f : f = [s \in late |-> owner[s]]
      OBVIOUS
    <3>2. f \in [late -> Requests]
      BY <2>1, <2>2, <3>1
    <3>3. \E s, t \in late : s # t /\ f[s] = f[t]
      BY <2>4, <2>5, <3>2, FS_PigeonHole
    <3> QED BY <2>3, <3>1, <3>3
  <2>7. Cardinality(LoginSessions) = Cardinality(early) + Cardinality(late)
    <3>1. Cardinality(early \cap late) = 0
      BY <2>2, FS_EmptySet
    <3>2. Cardinality(early \cup late)
            = Cardinality(early) + Cardinality(late) - Cardinality(early \cap late)
      BY <2>4, FS_Union
    <3> QED BY <2>2, <2>4, <3>1, <3>2
  <2>8. Cardinality(LoginSessions) <= MaxConcurrentSessions - 1 + Cardinality(Requests)
    BY <2>3, <2>4, <2>5, <2>6, <2>7, LimitsAssumption
  <2> QED BY <2>8 DEF LoginBound, LoginSessions
<1> QED BY <1>1, InitLogins, LoginStep, TypeCorrect, PTL DEF Spec

-----------------------------------------------------------------------------
(* A login alone                                                           *)

LEMMA AloneStep ==
  ASSUME TypeOK, TypeOK', OverlapSeen, AloneInv, [Next]_vars
  PROVE  AloneInv'
<1>1. ASSUME Live' \subseteq Live, NEW r \in Requests, r \notin overlapped,
             UNCHANGED req
      PROVE  /\ req'[r].pc = "trim" =>
                  Cardinality(Live' \ req'[r].excess) <= MaxConcurrentSessions - 1
             /\ AboutToIssue(r)' => Cardinality(Live') <= MaxConcurrentSessions - 1
  <2>1. \A S \in SUBSET Ids : IsFiniteSet(S) /\ Cardinality(S) \in Nat
    BY SessionsFinite
  <2> DEFINE before == Live \ req[r].excess
             after == Live' \ req[r].excess
  <2>2. /\ Live \subseteq Ids /\ before \subseteq Ids
        /\ Live' \subseteq Live /\ after \subseteq before
    BY <1>1 DEF Live
  <2> HIDE DEF before, after
  <2>3. /\ Cardinality(after) <= Cardinality(before) /\ Cardinality(Live') <= Cardinality(Live)
        /\ Cardinality(after) \in Nat /\ Cardinality(before) \in Nat
        /\ Cardinality(Live') \in Nat /\ Cardinality(Live) \in Nat
    BY <2>1, <2>2, NoMore
  <2>4. ASSUME req[r].pc = "trim" PROVE Cardinality(after) <= MaxConcurrentSessions - 1
    <3>1. Cardinality(before) <= MaxConcurrentSessions - 1
      BY <1>1, <2>4 DEF AloneInv, before
    <3> QED BY <2>3, <3>1, LimitsAssumption
  <2>5. ASSUME AboutToIssue(r) PROVE Cardinality(Live') <= MaxConcurrentSessions - 1
    <3>1. Cardinality(Live) <= MaxConcurrentSessions - 1
      BY <1>1, <2>5 DEF AloneInv
    <3> QED BY <2>3, <3>1, LimitsAssumption
  <2> QED BY <1>1, <2>4, <2>5 DEF AboutToIssue, after
<1>2. ASSUME UNCHANGED <<req, overlapped>>, Live' \subseteq Live
      PROVE  AloneInv'
  BY <1>1, <1>2 DEF AloneInv
<1>3. ASSUME NEW r \in Requests, NEW held,
             Begin(r, held) \/ (Continue(r, held) /\ r \in Busy),
             /\ r \notin overlapped' /\ held.pc = "trim" =>
                  Cardinality(Live' \ held.excess) <= MaxConcurrentSessions - 1
             /\ r \notin overlapped' /\ held.pc = "issue" /\ held.parent = NoSession =>
                  Cardinality(Live') <= MaxConcurrentSessions - 1
      PROVE  AloneInv'
  <2> SUFFICES ASSUME NEW q \in Requests, q \notin overlapped'
               PROVE  /\ req'[q].pc = "trim" =>
                           Cardinality(Live' \ req'[q].excess) <= MaxConcurrentSessions - 1
                      /\ AboutToIssue(q)' => Cardinality(Live') <= MaxConcurrentSessions - 1
    BY DEF AloneInv
  <2>1. CASE q = r
    BY <1>3, <2>1, BeginSlots, ContinueSlots DEF AboutToIssue
  <2>2. CASE q # r
    <3>1. req'[q] = req[q]
      BY <1>3, <2>2, BeginSlots, ContinueSlots
    <3>2. CASE q \in Busy
      BY <1>3, <2>2, <3>2 DEF Begin, Continue, OverlapSeen
    <3>3. CASE q \notin Busy
      BY <3>1, <3>3 DEF Busy, AboutToIssue
    <3> QED BY <3>2, <3>3
  <2> QED BY <2>1, <2>2
<1>4. ASSUME revoked \subseteq revoked', expired \subseteq expired', UNCHANGED sessions
      PROVE  Live' \subseteq Live
  BY <1>4 DEF Live, Ids
<1>5. ASSUME NEW r \in Requests, NEW guess \in Passwords, LoginRead(r, guess)
      PROVE  AloneInv'
  BY <1>3, <1>5 DEF LoginRead
<1>6. ASSUME NEW r \in Requests, LoginFail(r) \/ LoginPass(r) \/ Abort(r)
                                  \/ IssueTokens(r) \/ ResetCommit(r)
      PROVE  AloneInv'
  BY <1>3, <1>6 DEF LoginFail, LoginPass, Abort, IssueTokens, ResetCommit, Idle, Busy
<1>7. ASSUME NEW r \in Requests, FindActive(r)
      PROVE  AloneInv'
  <2>1. PICK held : held = IF Cardinality(Live) >= MaxConcurrentSessions
             THEN [pc |-> "trim", cred |-> req[r].cred, excess |-> Excess(Live)]
             ELSE [pc |-> "issue", cred |-> req[r].cred, parent |-> NoSession]
    OBVIOUS
  <2>2. Continue(r, held) /\ r \in Busy /\ Live' = Live
    BY <1>7, <2>1 DEF FindActive, Busy, Live, Ids
  <2>3. Live \subseteq Nat /\ IsFiniteSet(Live) /\ Cardinality(Live) \in Nat
    BY SessionsFinite DEF Live
  <2>4. CASE Cardinality(Live) >= MaxConcurrentSessions
    <3>1. held.pc = "trim" /\ held.excess = Excess(Live)
      BY <2>1, <2>4
    <3>2. Cardinality(Live \ Excess(Live)) <= MaxConcurrentSessions - 1
      BY <2>3, TrimmingMakesRoom
    <3> QED BY <1>3, <2>2, <3>1, <3>2
  <2>5. CASE ~(Cardinality(Live) >= MaxConcurrentSessions)
    <3>1. held.pc = "issue" /\ Cardinality(Live) <= MaxConcurrentSessions - 1
      BY <2>1, <2>3, <2>5, LimitsAssumption
    <3> QED BY <1>3, <2>2, <3>1
  <2> QED BY <2>4, <2>5
<1>8. ASSUME NEW r \in Requests, RevokeExcess(r)
      PROVE  AloneInv'
  <2>1. PICK held : held = [pc |-> "issue", cred |-> req[r].cred, parent |-> NoSession]
    OBVIOUS
  <2>2. /\ Continue(r, held) /\ r \in Busy /\ held.pc = "issue"
        /\ Live' = Live \ req[r].excess /\ req[r].pc = "trim"
    BY <1>8, <2>1 DEF RevokeExcess, Busy, Live, Ids
  <2>3. r \notin overlapped' => Cardinality(Live') <= MaxConcurrentSessions - 1
    BY <2>2 DEF AloneInv, Continue
  <2> QED BY <1>3, <2>2, <2>3
<1>9. ASSUME NEW r \in Requests, NEW s \in Ids, RefreshRead(r, s)
      PROVE  AloneInv'
  BY <1>3, <1>9 DEF RefreshRead
<1>10. ASSUME NEW r \in Requests, Rotate(r)
       PROVE  AloneInv'
  <2>1. req[r].parent # NoSession
    BY <1>10, SessionsFinite DEF Rotate, TypeOK, PointsToRows, NoSession
  <2> QED BY <1>3, <1>10, <2>1 DEF Rotate, Busy
<1>11. ASSUME NEW r \in Requests, NEW t \in 1 .. tokens, NEW new \in Passwords,
              ResetRead(r, t, new)
       PROVE  AloneInv'
  BY <1>3, <1>11 DEF ResetRead
<1>12. ASSUME NEW s \in Ids \cup {NoSession}, Logout(s)
       PROVE  AloneInv'
  BY <1>2, <1>4, <1>12 DEF Logout
<1>13. CASE ForgotPassword \/ LockExpires \/ UNCHANGED vars
  BY <1>2, <1>4, <1>13 DEF ForgotPassword, LockExpires, vars
<1>14. ASSUME NEW s \in Ids, SessionExpires(s)
       PROVE  AloneInv'
  BY <1>2, <1>4, <1>14 DEF SessionExpires
<1> QED
  BY <1>5, <1>6, <1>7, <1>8, <1>9, <1>10, <1>11, <1>12, <1>13, <1>14 DEF Next, Step

\* A login that met no other request leaves the account within the limit, however
\* far earlier overlaps had taken it beyond (:307-312).
THEOREM AloneLoginRepairs == Spec => AloneLoginMeetsLimit
<1>1. Init => AloneInv
  BY DEF Init, AloneInv, AboutToIssue, Idle
<1>2. TypeOK /\ AloneInv /\ [Next]_vars =>
        [\A r \in Requests :
           IssueTokens(r) /\ req[r].parent = NoSession /\ r \notin overlapped
             => Cardinality(Live') <= MaxConcurrentSessions]_vars
  <2> SUFFICES ASSUME TypeOK, AloneInv, NEW r \in Requests, IssueTokens(r),
                      req[r].parent = NoSession, r \notin overlapped
               PROVE  Cardinality(Live') <= MaxConcurrentSessions
    OBVIOUS
  <2>1. Cardinality(Live) <= MaxConcurrentSessions - 1
    BY DEF IssueTokens, AboutToIssue, AloneInv
  <2>2. PICK row : row = [parent |-> req[r].parent, cred |-> req[r].cred,
                          shared |-> r \in overlapped]
    OBVIOUS
  <2>3. sessions' = Append(sessions, row) /\ UNCHANGED <<revoked, expired>>
    BY <2>2 DEF IssueTokens
  <2>4. Ids' = Ids \cup {Len(sessions) + 1}
    BY <2>3 DEF TypeOK, Ids
  <2>5. Live' \subseteq Live \cup {Len(sessions) + 1} /\ Live \subseteq Ids
    BY <2>3, <2>4 DEF Live
  <2>6. IsFiniteSet(Live) /\ Cardinality(Live) \in Nat
    BY <2>5, SessionsFinite
  <2> DEFINE more == Live \cup {Len(sessions) + 1}
  <2>7. IsFiniteSet(more) /\ Cardinality(more) <= Cardinality(Live) + 1
    <3>1. /\ IsFiniteSet(more)
          /\ Cardinality(more) = IF Len(sessions) + 1 \in Live THEN Cardinality(Live)
                                                              ELSE Cardinality(Live) + 1
      BY <2>6, FS_AddElement
    <3> QED BY <2>6, <3>1
  <2>8. Live' \subseteq more
    BY <2>5
  <2> HIDE DEF more
  <2>9. Cardinality(Live') <= Cardinality(more) /\ Cardinality(Live') \in Nat
        /\ Cardinality(more) \in Nat
    BY <2>7, <2>8, FS_Subset, FS_CardinalityType
  <2> QED BY <2>1, <2>6, <2>7, <2>9, LimitsAssumption
<1>3. RotationInv => OverlapSeen
  BY DEF RotationInv
<1> QED
  BY <1>1, <1>2, <1>3, AloneStep, RotationInvariant, TypeCorrect, PTL
     DEF Spec, AloneLoginMeetsLimit
=============================================================================

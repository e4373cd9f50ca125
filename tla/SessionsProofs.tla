--------------------------- MODULE SessionsProofs ---------------------------
(***************************************************************************)
(* What holds of Sessions for any sets of requests and users and any       *)
(* number of worker threads, and what holds in addition when requests run  *)
(* one at a time.  The proofs rest on the inductive invariant IInv of      *)
(* SessionsInv: a step lemma with one case per action, then the theorems.  *)
(***************************************************************************)
EXTENDS SessionsInv, FiniteSetTheorems, TLAPS

-----------------------------------------------------------------------------
(* The inductive invariant holds before the first request.                 *)
LEMMA IInvInit == Init => IInv
BY RequestAssumption, UserAssumption
   DEF Init, IInv, TypeOK, Linked, Consumed, Changing, Recent, Usable, Replaced,
       Audited, Running, Issuing, Handlers

(* Every action of every handler keeps the inductive invariant.            *)
LEMMA IInvStep == IInv /\ [Next]_vars => IInv'
<1> SUFFICES ASSUME IInv, [Next]_vars PROVE IInv'
  OBVIOUS
<1> USE RequestAssumption, UserAssumption DEF IInv, TypeOK, Linked, Consumed,
        Retired, Changing, Recent, Usable, Replaced, Audited, database, history,
        request, Running, Issuing, Handlers
<1>1. ASSUME NEW r \in Request, NEW u \in User, LoginCheck(r, u) PROVE IInv'
  BY <1>1 DEF LoginCheck, Begin
<1>2. ASSUME NEW r \in Request, NEW u \in User, RevokeAllSessions(r, u)
      PROVE  IInv'
  BY <1>2 DEF RevokeAllSessions, Begin
<1>3. ASSUME NEW r \in Request, NEW u \in User, UpdateMyProfile(r, u)
      PROVE  IInv'
  BY <1>3 DEF UpdateMyProfile, Begin
<1>4. ASSUME NEW r \in Request, NEW u \in User, ForgotPassword(r, u) PROVE IInv'
  BY <1>4 DEF ForgotPassword, Begin
<1>5. ASSUME NEW r \in Request, NEW u \in User, DevResetPassword(r, u)
      PROVE  IInv'
  BY <1>5 DEF DevResetPassword, Begin, RevokeRowsOf, Revocable
<1>6. ASSUME NEW r \in Request, NEW u \in User, NEW t \in Request, RevokeSession(r, u, t)
      PROVE  IInv'
  BY <1>6 DEF RevokeSession, Begin, OwnSession
<1>7. ASSUME NEW r \in Request, NEW t \in Request, RefreshRead(r, t) PROVE IInv'
  BY <1>7 DEF RefreshRead, Begin, AfterRead
<1>8. ASSUME NEW r \in Request, NEW t \in Request, Logout(r, t) PROVE IInv'
  BY <1>8 DEF Logout, Begin
<1>9. ASSUME NEW r \in Request, NEW t \in Request, ResetRead(r, t) PROVE IInv'
  BY <1>9 DEF ResetRead, Begin, KeyOwner
<1>10. ASSUME NEW r \in Request, LoginAudit(r) PROVE IInv'
  BY <1>10 DEF LoginAudit, Goto
<1>11. ASSUME NEW r \in Request, Issue(r) PROVE IInv'
  BY <1>11 DEF Issue, Goto
<1>12. ASSUME NEW r \in Request, RefreshUser(r) PROVE IInv'
  BY <1>12 DEF RefreshUser, Goto
<1>13. ASSUME NEW r \in Request, Rotate(r) PROVE IInv'
  BY <1>13 DEF Rotate, MarkRevoked, Goto
<1>14. ASSUME NEW r \in Request, MarkExpired(r) PROVE IInv'
  BY <1>14 DEF MarkExpired, MarkRevoked, Goto
<1>15. ASSUME NEW r \in Request, RevokeOne(r) PROVE IInv'
  BY <1>15 DEF RevokeOne, MarkRevoked, Goto
<1>16. ASSUME NEW r \in Request, RevokeAll(r) PROVE IInv'
  <2> USE <1>16 DEF RevokeAll, RevokeRowsOf, Revocable, Goto
  <2>1. TypeOK'
    OBVIOUS
  <2>2. Linked'
    OBVIOUS
  <2>3. Consumed'
    OBVIOUS
  <2>4. Changing'
    OBVIOUS
  <2>5. Recent'
    OBVIOUS
  <2>6. Replaced'
    OBVIOUS
  <2>7. Audited'
    OBVIOUS
  <2> QED
    BY <2>1, <2>2, <2>3, <2>4, <2>5, <2>6, <2>7 DEF IInv
<1>17. ASSUME NEW r \in Request, SendResetEmail(r) PROVE IInv'
  BY <1>17 DEF SendResetEmail, Goto
<1>18. ASSUME NEW r \in Request, ChangePassword(r) PROVE IInv'
  BY <1>18 DEF ChangePassword, AfterChange
<1>19. ASSUME NEW r \in Request, DeleteKey(r) PROVE IInv'
  BY <1>19 DEF DeleteKey, Goto
<1>20. ASSUME NEW r \in Request, Fail(r) PROVE IInv'
  BY <1>20 DEF Fail, Goto
<1>21. ASSUME NEW u \in User, SuspendUser(u) PROVE IInv'
  BY <1>21 DEF SuspendUser
<1>22. ASSUME NEW u \in User, UnsuspendUser(u) PROVE IInv'
  BY <1>22 DEF UnsuspendUser
<1>23. ASSUME NEW t \in Request, Expire(t) PROVE IInv'
  BY <1>23 DEF Expire
<1>24. ASSUME NEW t \in Request, ExpireKey(t) PROVE IInv'
  BY <1>24 DEF ExpireKey
<1>25. CASE PurgeExpired
  BY <1>25 DEF PurgeExpired, Purgeable
<1>26. CASE UNCHANGED vars
  BY <1>26 DEF vars
<1> QED
  BY <1>1, <1>2, <1>3, <1>4, <1>5, <1>6, <1>7, <1>8, <1>9, <1>10, <1>11,
     <1>12, <1>13, <1>14, <1>15, <1>16, <1>17, <1>18, <1>19, <1>20, <1>21, <1>22,
     <1>23, <1>24, <1>25, <1>26 DEF Next, Arrive, Step

(* IInv is an invariant, with any number of threads and with crashes.      *)
THEOREM Inductive == Spec => []IInv
<1>1. Init => IInv
  BY IInvInit
<1>2. IInv /\ [Next]_vars => IInv'
  BY IInvStep
<1> QED
  BY <1>1, <1>2, PTL DEF Spec

(* The state keeps its shape, and every row and key has an owner.          *)
THEOREM TypeCorrect == Spec => []TypeOK
<1>1. IInv => TypeOK
  BY DEF IInv
<1> QED
  BY <1>1, Inductive, PTL

(* A refreshed session never coexists with the token it was exchanged for, *)
(* whatever interleaves with the rotation or dies in it.                   *)
THEOREM RotationRetires == Spec => []ParentRetired
<1>1. IInv => ParentRetired
  BY DEF IInv, Consumed, ParentRetired, Retired
<1> QED
  BY <1>1, Inductive, PTL

(* After a password change has answered, an older session can be alive     *)
(* only if it was being issued while the change revoked the others.        *)
THEOREM PasswordChangeRevokes == Spec => []OldSessionsOnlyByRace
<1>1. IInv => OldSessionsOnlyByRace
  BY DEF IInv, TypeOK, Recent, Usable, OldSessionsOnlyByRace, list_sessions
<1> QED
  BY <1>1, Inductive, PTL

(* After a replayed token was refused, a session it was exchanged for can  *)
(* be alive only if it was being issued during the refusal.                *)
THEOREM ReplayRevokes == Spec => []ReplacementsOnlyByRace
<1>1. IInv => ReplacementsOnlyByRace
  BY DEF IInv, Replaced, Usable, ReplacementsOnlyByRace
<1> QED
  BY <1>1, Inductive, PTL

(* No login session and no password reset goes without its audit row.      *)
THEOREM AuditCompleteAlways == Spec => []AuditComplete
<1>1. IInv => AuditComplete
  BY DEF IInv, Audited, AuditComplete
<1> QED
  BY <1>1, Inductive, PTL

(* A row that goes from live to revoked does so in a step of a request     *)
(* made for the row's own user.                                            *)
LEMMA RevokedByOwnUser ==
    ASSUME IInv, Next, NEW t \in Request, row[t] = "live", row'[t] = "revoked"
    PROVE  \E r \in Request : who'[r] = who[t] /\ pc'[r] # pc[r]
<1> USE DEF IInv, TypeOK, database, history, request, Running
<1>1. CASE \E r \in Request : Rotate(r) \/ MarkExpired(r) \/ RevokeOne(r)
  <2>1. PICK r \in Request : Rotate(r) \/ MarkExpired(r) \/ RevokeOne(r)
    BY <1>1
  <2>2. t = tok[r] /\ who'[r] = who[r] /\ pc'[r] # pc[r]
    BY <2>1 DEF Rotate, MarkExpired, RevokeOne, MarkRevoked, Goto
  <2>3. who[tok[r]] = who[r]
    BY <2>1 DEF Rotate, MarkExpired, RevokeOne, Linked
  <2> QED
    BY <2>2, <2>3
<1>2. CASE \E r \in Request : RevokeAll(r)
  BY <1>2 DEF RevokeAll, RevokeRowsOf, Revocable, Goto
<1>3. CASE \E r \in Request, u \in User : DevResetPassword(r, u)
  BY <1>3 DEF DevResetPassword, RevokeRowsOf, Revocable, Begin
<1>4. ASSUME NEW r \in Request, Arrive(r)
      PROVE  row' = row \/ \E u \in User : DevResetPassword(r, u)
  BY <1>4 DEF Arrive, LoginCheck, RevokeAllSessions, UpdateMyProfile,
     ForgotPassword,
              RevokeSession, RefreshRead, Logout, ResetRead
<1>5. ASSUME NEW r \in Request, Step(r)
      PROVE  \/ row' = row \/ row' = [row EXCEPT ![r] = "live"]
             \/ Rotate(r) \/ MarkExpired(r) \/ RevokeOne(r) \/ RevokeAll(r)
  BY <1>5 DEF Step, LoginAudit, Issue, RefreshUser, SendResetEmail,
     ChangePassword, DeleteKey
<1>6. ASSUME NEW r \in Request, Fail(r) PROVE row' = row
  BY <1>6 DEF Fail
<1>7. ASSUME NEW u \in User, SuspendUser(u) \/ UnsuspendUser(u) PROVE row' = row
  BY <1>7 DEF SuspendUser, UnsuspendUser
<1>8. ASSUME NEW k \in Request, Expire(k) \/ ExpireKey(k) PROVE row' = row
  BY <1>8 DEF Expire, ExpireKey
<1>9. CASE PurgeExpired
  BY <1>9 DEF PurgeExpired
<1> QED
  BY <1>1, <1>2, <1>3, <1>4, <1>5, <1>6, <1>7, <1>8, <1>9 DEF Next

(* One user's requests never end another user's session.                   *)
THEOREM UsersIsolated == Spec => Isolation
<1>1. IInv /\ [Next]_vars =>
        [\A t \in Request : row[t] = "live" /\ row'[t] = "revoked" =>
            \E r \in Request : who'[r] = who[t] /\ pc'[r] # pc[r]]_vars
  BY RevokedByOwnUser
<1> QED
  BY <1>1, Inductive, PTL DEF Spec, Isolation

-----------------------------------------------------------------------------
(* One request at a time. *)

(* With one thread, a request arrives only when none is in flight.         *)
LEMMA FreeMeansNoneInFlight ==
    ASSUME Workers = 1, ThreadFree
    PROVE  InFlight = {}
<1>1. InFlight \subseteq Request
  BY DEF InFlight
<1>2. IsFiniteSet(InFlight)
  BY <1>1, RequestAssumption, FS_Subset
<1>3. Cardinality(InFlight) \in Nat
  BY <1>2, FS_CardinalityType
<1>4. Cardinality(InFlight) = 0
  BY <1>3 DEF ThreadFree
<1> QED
  BY <1>2, <1>4, FS_EmptySet

(* With one thread no step makes two requests overlap, so none is missed by *)
(* a revocation and no token is exchanged by two.                          *)
LEMMA OneAtATimeStep == Workers = 1 /\ IInv /\ OneAtATime /\ [Next]_vars => OneAtATime'
<1> SUFFICES ASSUME Workers = 1, IInv, OneAtATime, [Next]_vars PROVE OneAtATime'
  OBVIOUS
<1> USE RequestAssumption, UserAssumption DEF IInv, TypeOK, Linked, Consumed,
        Retired, Changing, Recent, Usable, Replaced, Audited, database, history,
        request, Running, Issuing, Handlers, OneAtATime, InFlight
<1>1. ASSUME NEW r \in Request, NEW u \in User, LoginCheck(r, u)
      PROVE  OneAtATime'
  BY <1>1, FreeMeansNoneInFlight DEF LoginCheck, Begin
<1>2. ASSUME NEW r \in Request, NEW u \in User, RevokeAllSessions(r, u)
      PROVE  OneAtATime'
  BY <1>2, FreeMeansNoneInFlight DEF RevokeAllSessions, Begin
<1>3. ASSUME NEW r \in Request, NEW u \in User, UpdateMyProfile(r, u)
      PROVE  OneAtATime'
  BY <1>3, FreeMeansNoneInFlight DEF UpdateMyProfile, Begin
<1>4. ASSUME NEW r \in Request, NEW u \in User, ForgotPassword(r, u)
      PROVE  OneAtATime'
  BY <1>4, FreeMeansNoneInFlight DEF ForgotPassword, Begin
<1>5. ASSUME NEW r \in Request, NEW u \in User, DevResetPassword(r, u)
      PROVE  OneAtATime'
  BY <1>5, FreeMeansNoneInFlight DEF DevResetPassword, Begin, RevokeRowsOf,
     Revocable
<1>6. ASSUME NEW r \in Request, NEW u \in User, NEW t \in Request, RevokeSession(r, u, t)
      PROVE  OneAtATime'
  BY <1>6, FreeMeansNoneInFlight DEF RevokeSession, Begin, OwnSession
<1>7. ASSUME NEW r \in Request, NEW t \in Request, RefreshRead(r, t)
      PROVE  OneAtATime'
  BY <1>7, FreeMeansNoneInFlight DEF RefreshRead, Begin, AfterRead
<1>8. ASSUME NEW r \in Request, NEW t \in Request, Logout(r, t)
      PROVE  OneAtATime'
  BY <1>8, FreeMeansNoneInFlight DEF Logout, Begin
<1>9. ASSUME NEW r \in Request, NEW t \in Request, ResetRead(r, t)
      PROVE  OneAtATime'
  BY <1>9, FreeMeansNoneInFlight DEF ResetRead, Begin, KeyOwner
<1>10. ASSUME NEW r \in Request, LoginAudit(r) PROVE OneAtATime'
  BY <1>10 DEF LoginAudit, Goto
<1>11. ASSUME NEW r \in Request, Issue(r) PROVE OneAtATime'
  BY <1>11 DEF Issue, Goto
<1>12. ASSUME NEW r \in Request, RefreshUser(r) PROVE OneAtATime'
  BY <1>12 DEF RefreshUser, Goto
<1>13. ASSUME NEW r \in Request, Rotate(r) PROVE OneAtATime'
  BY <1>13 DEF Rotate, MarkRevoked, Goto
<1>14. ASSUME NEW r \in Request, MarkExpired(r) PROVE OneAtATime'
  BY <1>14 DEF MarkExpired, MarkRevoked, Goto
<1>15. ASSUME NEW r \in Request, RevokeOne(r) PROVE OneAtATime'
  BY <1>15 DEF RevokeOne, MarkRevoked, Goto
<1>16. ASSUME NEW r \in Request, RevokeAll(r) PROVE OneAtATime'
  BY <1>16 DEF RevokeAll, RevokeRowsOf, Revocable, Goto
<1>17. ASSUME NEW r \in Request, SendResetEmail(r) PROVE OneAtATime'
  BY <1>17 DEF SendResetEmail, Goto
<1>18. ASSUME NEW r \in Request, ChangePassword(r) PROVE OneAtATime'
  BY <1>18 DEF ChangePassword, AfterChange
<1>19. ASSUME NEW r \in Request, DeleteKey(r) PROVE OneAtATime'
  BY <1>19 DEF DeleteKey, Goto
<1>20. ASSUME NEW r \in Request, Fail(r) PROVE OneAtATime'
  BY <1>20 DEF Fail, Goto
<1>21. ASSUME NEW u \in User, SuspendUser(u) PROVE OneAtATime'
  BY <1>21 DEF SuspendUser
<1>22. ASSUME NEW u \in User, UnsuspendUser(u) PROVE OneAtATime'
  BY <1>22 DEF UnsuspendUser
<1>23. ASSUME NEW t \in Request, Expire(t) PROVE OneAtATime'
  BY <1>23 DEF Expire
<1>24. ASSUME NEW t \in Request, ExpireKey(t) PROVE OneAtATime'
  BY <1>24 DEF ExpireKey
<1>25. CASE PurgeExpired
  BY <1>25 DEF PurgeExpired, Purgeable
<1>26. CASE UNCHANGED vars
  BY <1>26 DEF vars
<1> QED
  BY <1>1, <1>2, <1>3, <1>4, <1>5, <1>6, <1>7, <1>8, <1>9, <1>10, <1>11,
     <1>12, <1>13, <1>14, <1>15, <1>16, <1>17, <1>18, <1>19, <1>20, <1>21, <1>22,
     <1>23, <1>24, <1>25, <1>26 DEF Next, Arrive, Step

(* The key of a completed reset is gone before anything else reads it.     *)
LEMMA ResetOnceStep ==
    Workers = 1 /\ ~Faults /\ IInv /\ OneAtATime /\ ResetOnce /\ [Next]_vars
    => ResetOnce'
<1> SUFFICES ASSUME Workers = 1, ~Faults, IInv, OneAtATime, ResetOnce, [Next]_vars
             PROVE  ResetOnce'
  OBVIOUS
<1> USE RequestAssumption, UserAssumption DEF IInv, TypeOK, Linked, Changing,
        OneAtATime, ResetOnce, database, history, request, Running, InFlight
<1>1. ASSUME NEW r \in Request, NEW u \in User, LoginCheck(r, u)
      PROVE  ResetOnce'
  BY <1>1, FreeMeansNoneInFlight DEF LoginCheck, Begin
<1>2. ASSUME NEW r \in Request, NEW u \in User, RevokeAllSessions(r, u)
      PROVE  ResetOnce'
  BY <1>2, FreeMeansNoneInFlight DEF RevokeAllSessions, Begin
<1>3. ASSUME NEW r \in Request, NEW u \in User, UpdateMyProfile(r, u)
      PROVE  ResetOnce'
  BY <1>3, FreeMeansNoneInFlight DEF UpdateMyProfile, Begin
<1>4. ASSUME NEW r \in Request, NEW u \in User, ForgotPassword(r, u)
      PROVE  ResetOnce'
  BY <1>4, FreeMeansNoneInFlight DEF ForgotPassword, Begin
<1>5. ASSUME NEW r \in Request, NEW u \in User, DevResetPassword(r, u)
      PROVE  ResetOnce'
  BY <1>5, FreeMeansNoneInFlight DEF DevResetPassword, Begin, RevokeRowsOf,
     Revocable
<1>6. ASSUME NEW r \in Request, NEW u \in User, NEW t \in Request, RevokeSession(r, u, t)
      PROVE  ResetOnce'
  BY <1>6, FreeMeansNoneInFlight DEF RevokeSession, Begin, OwnSession
<1>7. ASSUME NEW r \in Request, NEW t \in Request, RefreshRead(r, t)
      PROVE  ResetOnce'
  BY <1>7, FreeMeansNoneInFlight DEF RefreshRead, Begin, AfterRead
<1>8. ASSUME NEW r \in Request, NEW t \in Request, Logout(r, t) PROVE ResetOnce'
  BY <1>8, FreeMeansNoneInFlight DEF Logout, Begin
<1>9. ASSUME NEW r \in Request, NEW t \in Request, ResetRead(r, t)
      PROVE  ResetOnce'
  BY <1>9, FreeMeansNoneInFlight DEF ResetRead, Begin, KeyOwner
<1>10. ASSUME NEW r \in Request, LoginAudit(r) PROVE ResetOnce'
  BY <1>10 DEF LoginAudit, Goto
<1>11. ASSUME NEW r \in Request, Issue(r) PROVE ResetOnce'
  BY <1>11 DEF Issue, Goto
<1>12. ASSUME NEW r \in Request, RefreshUser(r) PROVE ResetOnce'
  BY <1>12 DEF RefreshUser, Goto
<1>13. ASSUME NEW r \in Request, Rotate(r) PROVE ResetOnce'
  BY <1>13 DEF Rotate, MarkRevoked, Goto
<1>14. ASSUME NEW r \in Request, MarkExpired(r) PROVE ResetOnce'
  BY <1>14 DEF MarkExpired, MarkRevoked, Goto
<1>15. ASSUME NEW r \in Request, RevokeOne(r) PROVE ResetOnce'
  BY <1>15 DEF RevokeOne, MarkRevoked, Goto
<1>16. ASSUME NEW r \in Request, RevokeAll(r) PROVE ResetOnce'
  BY <1>16 DEF RevokeAll, RevokeRowsOf, Revocable, Goto
<1>17. ASSUME NEW r \in Request, SendResetEmail(r) PROVE ResetOnce'
  BY <1>17 DEF SendResetEmail, Goto
<1>18. ASSUME NEW r \in Request, ChangePassword(r) PROVE ResetOnce'
  BY <1>18 DEF ChangePassword, AfterChange
<1>19. ASSUME NEW r \in Request, DeleteKey(r) PROVE ResetOnce'
  BY <1>19 DEF DeleteKey, Goto
<1>20. ASSUME NEW r \in Request, Fail(r) PROVE ResetOnce'
  BY <1>20 DEF Fail, Goto
<1>21. ASSUME NEW u \in User, SuspendUser(u) PROVE ResetOnce'
  BY <1>21 DEF SuspendUser
<1>22. ASSUME NEW u \in User, UnsuspendUser(u) PROVE ResetOnce'
  BY <1>22 DEF UnsuspendUser
<1>23. ASSUME NEW t \in Request, Expire(t) PROVE ResetOnce'
  BY <1>23 DEF Expire
<1>24. ASSUME NEW t \in Request, ExpireKey(t) PROVE ResetOnce'
  BY <1>24 DEF ExpireKey
<1>25. CASE PurgeExpired
  BY <1>25 DEF PurgeExpired, Purgeable
<1>26. CASE UNCHANGED vars
  BY <1>26 DEF vars
<1> QED
  BY <1>1, <1>2, <1>3, <1>4, <1>5, <1>6, <1>7, <1>8, <1>9, <1>10, <1>11,
     <1>12, <1>13, <1>14, <1>15, <1>16, <1>17, <1>18, <1>19, <1>20, <1>21, <1>22,
     <1>23, <1>24, <1>25, <1>26 DEF Next, Arrive, Step

(* So with one thread requests never overlap, crashes or not.              *)
LEMMA OneAtATimeAlways == ASSUME Workers = 1 PROVE Spec => []OneAtATime
<1>1. Init => OneAtATime
  BY DEF Init, OneAtATime, InFlight, Running
<1>2. IInv /\ OneAtATime /\ [Next]_vars => OneAtATime'
  BY OneAtATimeStep
<1> QED
  BY <1>1, <1>2, Inductive, PTL DEF Spec

(* Without overlap a password change leaves no older session, even when    *)
(* handlers die half way.                                                  *)
THEOREM NoStaleSessionOneAtATime ==
    ASSUME Workers = 1 PROVE Spec => []NoStaleSession
<1>1. OldSessionsOnlyByRace /\ OneAtATime => NoStaleSession
  BY DEF OldSessionsOnlyByRace, OneAtATime, NoStaleSession
<1> QED
  BY <1>1, OneAtATimeAlways, PasswordChangeRevokes, PTL

(* Without overlap a refresh token is exchanged for at most one session.   *)
THEOREM ConsumedOnceOneAtATime ==
    ASSUME Workers = 1 PROVE Spec => []ConsumedOnce
<1>1. OneAtATime => ConsumedOnce
  BY DEF OneAtATime, ConsumedOnce
<1> QED
  BY <1>1, OneAtATimeAlways, PTL

(* Without overlap a refused replay leaves no session of that family.      *)
THEOREM ReuseEndsFamilyOneAtATime ==
    ASSUME Workers = 1 PROVE Spec => []ReuseEndsFamily
<1>1. ReplacementsOnlyByRace /\ OneAtATime => ReuseEndsFamily
  BY DEF ReplacementsOnlyByRace, OneAtATime, ReuseEndsFamily
<1> QED
  BY <1>1, OneAtATimeAlways, ReplayRevokes, PTL

(* Without overlap and without crashes a reset token works once.  Both     *)
(* conditions are needed: the key is deleted after the commit.             *)
THEOREM ResetTokenOneAtATime ==
    ASSUME Workers = 1, ~Faults PROVE Spec => []ResetTokenSingleUse
<1>1. Init => ResetOnce
  BY DEF Init, ResetOnce
<1>2. IInv /\ OneAtATime /\ ResetOnce /\ [Next]_vars => ResetOnce'
  BY ResetOnceStep
<1>3. TypeOK /\ ResetOnce => ResetTokenSingleUse
  BY DEF TypeOK, ResetOnce, ResetTokenSingleUse
<1> QED
  BY <1>1, <1>2, <1>3, Inductive, TypeCorrect, OneAtATimeAlways, PTL DEF Spec
=============================================================================

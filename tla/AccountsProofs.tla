---------------------------- MODULE AccountsProofs ----------------------------
(***************************************************************************)
(* For any number of users, requests and threads, with handlers failing at *)
(* any step: one account per address, a working token for whoever was      *)
(* issued one, verification only by mail, and the last administrator lost  *)
(* only in the ways LockoutExplained names.                                *)
(***************************************************************************)
EXTENDS Accounts, FiniteSetTheorems, TLAPS

(* What a handler in flight may rely on.                                   *)
DataOK ==
    \A r \in Request :
        /\ pc[r] = "idle" => op[r] = "none"
        /\ pc[r] \in {"insert_user", "auto_verify"} => op[r] = "register"
        /\ pc[r] = "insert_user" => who[r] \in User
        /\ pc[r] = "auto_verify" => auto
        /\ op[r] = "register" /\ pc[r] \notin {"insert_user", "failed"} =>
             who[r] \in registered
        /\ pc[r] \in {"mark_used", "insert_token", "mail"} =>
             op[r] \in Issuers /\ who[r] \in registered
        /\ pc[r] = "insert_token" => \A t \in hits[r] : who[t] = who[r]
        /\ pc[r] = "mail" => token[r] # "none"
        /\ token[r] # "none" => pc[r] \in Ended \cup {"mail"}
        /\ pc[r] = "verify" => /\ op[r] = "verify_email"
                               /\ tok[r] \in sent
                               /\ who[r] = who[tok[r]]
        /\ pc[r] = "suspend" => op[r] = "suspend_user" /\ target[r] # who[r]
        /\ pc[r] = "unsuspend" =>
             op[r] = "unsuspend_user" /\ target[r] \in registered
        /\ pc[r] \in {"promote", "demote"} =>
             op[r] = "change_user_role" /\ target[r] \in registered
        /\ pc[r] = "deactivate" =>
             op[r] = "deactivate_my_account" /\ target[r] = who[r]

(* A token that an issue in flight will not invalidate raced with it.      *)
TokensInv ==
    /\ \A r, c \in Request :
        /\ pc[r] = "insert_token" /\ pc[c] = "insert_token" /\ who[c] = who[r] /\ c # r =>
             r \in blind[c] \/ c \in blind[r]
        /\ pc[r] = "insert_token" /\ who[c] = who[r] /\ token[c] = "unused" =>
             c \in hits[r] \cup blind[r] \/ r \in blind[c]
    /\ UnusedTokensByRace

IInv ==
    /\ TypeOK
    /\ DataOK
    /\ OneAccountPerEmail
    /\ WorkingToken
    /\ VerifiedByMail
    /\ TokensInv

-----------------------------------------------------------------------------
(* Each step keeps the shape of the state.                                 *)
LEMMA TypeStep ==
    TypeOK /\ DataOK /\ [Next]_vars => TypeOK'
<1> SUFFICES ASSUME TypeOK, DataOK, [Next]_vars
             PROVE  TypeOK'
  OBVIOUS
<1> USE RequestAssumption, UserAssumption DEF TypeOK, DataOK,
        users, tokens, request, local, Running, Ended, Issuers
<1>1. ASSUME NEW r \in Request, NEW u \in User, RegisterStart(r, u)
      PROVE  TypeOK'
  BY <1>1 DEF RegisterStart, Begin
<1>2. ASSUME NEW r \in Request, NEW u \in User, ResendStart(r, u)
      PROVE  TypeOK'
  BY <1>2 DEF ResendStart, Begin
<1>3. ASSUME NEW r \in Request, NEW u \in User, DeactivateStart(r, u)
      PROVE  TypeOK'
  BY <1>3 DEF DeactivateStart, Begin
<1>4. ASSUME NEW r \in Request, NEW t \in Request, VerifyStart(r, t)
      PROVE  TypeOK'
  BY <1>4 DEF VerifyStart, Begin
<1>5. ASSUME NEW r \in Request, NEW a \in User, NEW u \in User,
             SuspendStart(r, a, u)
      PROVE  TypeOK'
  BY <1>5 DEF SuspendStart, Begin
<1>6. ASSUME NEW r \in Request, NEW a \in User, NEW u \in User,
             UnsuspendStart(r, a, u)
      PROVE  TypeOK'
  BY <1>6 DEF UnsuspendStart, Begin
<1>7. ASSUME NEW r \in Request, NEW a \in User, NEW u \in User,
             ChangeRoleStart(r, a, u)
      PROVE  TypeOK'
  BY <1>7 DEF ChangeRoleStart, Begin
<1>8. ASSUME NEW r \in Request, InsertUser(r) PROVE TypeOK'
  BY <1>8 DEF InsertUser, Goto
<1>9. ASSUME NEW r \in Request, AutoVerify(r) PROVE TypeOK'
  BY <1>9 DEF AutoVerify, Goto
<1>10. ASSUME NEW r \in Request, MarkUsed(r) PROVE TypeOK'
  BY <1>10 DEF MarkUsed, Goto, Outdated, UnusedTokens
<1>11. ASSUME NEW r \in Request, InsertToken(r) PROVE TypeOK'
  BY <1>11 DEF InsertToken, Goto
<1>12. ASSUME NEW r \in Request, Mail(r) PROVE TypeOK'
  BY <1>12 DEF Mail, Goto
<1>13. ASSUME NEW r \in Request, CommitVerify(r) PROVE TypeOK'
  BY <1>13 DEF CommitVerify, Goto
<1>14. ASSUME NEW r \in Request, CommitSuspend(r) PROVE TypeOK'
  BY <1>14 DEF CommitSuspend, Goto
<1>15. ASSUME NEW r \in Request, CommitUnsuspend(r) PROVE TypeOK'
  BY <1>15 DEF CommitUnsuspend, Goto
<1>16. ASSUME NEW r \in Request, CommitRole(r) PROVE TypeOK'
  BY <1>16 DEF CommitRole, Goto
<1>17. ASSUME NEW r \in Request, CommitDeactivate(r) PROVE TypeOK'
  BY <1>17 DEF CommitDeactivate, Goto
<1>18. ASSUME NEW r \in Request, Fail(r) PROVE TypeOK'
  BY <1>18 DEF Fail, Goto
<1>19. ASSUME NEW t \in Request, ExpireToken(t) PROVE TypeOK'
  BY <1>19 DEF ExpireToken
<1>20. ASSUME NEW u \in User, DevVerify(u) PROVE TypeOK'
  BY <1>20 DEF DevVerify
<1>21. CASE UNCHANGED vars
  BY <1>21 DEF vars
<1> QED
  BY <1>1, <1>2, <1>3, <1>4, <1>5, <1>6, <1>7, <1>8, <1>9, <1>10, <1>11,
     <1>12, <1>13, <1>14, <1>15, <1>16, <1>17, <1>18, <1>19, <1>20, <1>21
     DEF Next, Arrive, Step

(* ... and what handlers in flight rely on.                                *)
LEMMA DataStep ==
    TypeOK /\ DataOK /\ [Next]_vars => DataOK'
<1> SUFFICES ASSUME TypeOK, DataOK, [Next]_vars
             PROVE  DataOK'
  OBVIOUS
<1> USE RequestAssumption, UserAssumption DEF TypeOK, DataOK,
        users, tokens, request, local, Running, Ended, Issuers
<1>1. ASSUME NEW r \in Request, NEW u \in User, RegisterStart(r, u)
      PROVE  DataOK'
  BY <1>1 DEF RegisterStart, Begin
<1>2. ASSUME NEW r \in Request, NEW u \in User, ResendStart(r, u)
      PROVE  DataOK'
  BY <1>2 DEF ResendStart, Begin
<1>3. ASSUME NEW r \in Request, NEW u \in User, DeactivateStart(r, u)
      PROVE  DataOK'
  BY <1>3 DEF DeactivateStart, Begin
<1>4. ASSUME NEW r \in Request, NEW t \in Request, VerifyStart(r, t)
      PROVE  DataOK'
  BY <1>4 DEF VerifyStart, Begin
<1>5. ASSUME NEW r \in Request, NEW a \in User, NEW u \in User,
             SuspendStart(r, a, u)
      PROVE  DataOK'
  BY <1>5 DEF SuspendStart, Begin
<1>6. ASSUME NEW r \in Request, NEW a \in User, NEW u \in User,
             UnsuspendStart(r, a, u)
      PROVE  DataOK'
  BY <1>6 DEF UnsuspendStart, Begin
<1>7. ASSUME NEW r \in Request, NEW a \in User, NEW u \in User,
             ChangeRoleStart(r, a, u)
      PROVE  DataOK'
  BY <1>7 DEF ChangeRoleStart, Begin
<1>8. ASSUME NEW r \in Request, InsertUser(r) PROVE DataOK'
  BY <1>8 DEF InsertUser, Goto
<1>9. ASSUME NEW r \in Request, AutoVerify(r) PROVE DataOK'
  BY <1>9 DEF AutoVerify, Goto
<1>10. ASSUME NEW r \in Request, MarkUsed(r) PROVE DataOK'
  BY <1>10 DEF MarkUsed, Goto, Outdated, UnusedTokens
<1>11. ASSUME NEW r \in Request, InsertToken(r) PROVE DataOK'
  BY <1>11 DEF InsertToken, Goto
<1>12. ASSUME NEW r \in Request, Mail(r) PROVE DataOK'
  BY <1>12 DEF Mail, Goto
<1>13. ASSUME NEW r \in Request, CommitVerify(r) PROVE DataOK'
  BY <1>13 DEF CommitVerify, Goto
<1>14. ASSUME NEW r \in Request, CommitSuspend(r) PROVE DataOK'
  BY <1>14 DEF CommitSuspend, Goto
<1>15. ASSUME NEW r \in Request, CommitUnsuspend(r) PROVE DataOK'
  BY <1>15 DEF CommitUnsuspend, Goto
<1>16. ASSUME NEW r \in Request, CommitRole(r) PROVE DataOK'
  BY <1>16 DEF CommitRole, Goto
<1>17. ASSUME NEW r \in Request, CommitDeactivate(r) PROVE DataOK'
  BY <1>17 DEF CommitDeactivate, Goto
<1>18. ASSUME NEW r \in Request, Fail(r) PROVE DataOK'
  BY <1>18 DEF Fail, Goto
<1>19. ASSUME NEW t \in Request, ExpireToken(t) PROVE DataOK'
  BY <1>19 DEF ExpireToken
<1>20. ASSUME NEW u \in User, DevVerify(u) PROVE DataOK'
  BY <1>20 DEF DevVerify
<1>21. CASE UNCHANGED vars
  BY <1>21 DEF vars
<1> QED
  BY <1>1, <1>2, <1>3, <1>4, <1>5, <1>6, <1>7, <1>8, <1>9, <1>10, <1>11,
     <1>12, <1>13, <1>14, <1>15, <1>16, <1>17, <1>18, <1>19, <1>20, <1>21
     DEF Next, Arrive, Step

(* The unique index.                                                       *)
LEMMA AccountStep ==
    TypeOK /\ DataOK /\ OneAccountPerEmail /\ [Next]_vars => OneAccountPerEmail'
<1> SUFFICES ASSUME TypeOK, DataOK, OneAccountPerEmail, [Next]_vars
             PROVE  OneAccountPerEmail'
  OBVIOUS
<1> USE RequestAssumption, UserAssumption DEF TypeOK, DataOK, OneAccountPerEmail,
        users, tokens, request, local, Running, Ended, Issuers
<1>1. ASSUME NEW r \in Request, NEW u \in User, RegisterStart(r, u)
      PROVE  OneAccountPerEmail'
  <2> SUFFICES ASSUME NEW a \in Request, NEW c \in Request, who'[a] = who'[c],
                      op'[a] = "register", pc'[a] \notin {"insert_user", "failed"},
                      op'[c] = "register", pc'[c] \notin {"insert_user", "failed"}
               PROVE  a = c
    OBVIOUS
  <2>1. a # r /\ c # r
    BY <1>1 DEF RegisterStart, Begin
  <2> QED
    BY <1>1, <2>1 DEF RegisterStart, Begin
<1>2. ASSUME NEW r \in Request, NEW u \in User, ResendStart(r, u)
      PROVE  OneAccountPerEmail'
  BY <1>2 DEF ResendStart, Begin
<1>3. ASSUME NEW r \in Request, NEW u \in User, DeactivateStart(r, u)
      PROVE  OneAccountPerEmail'
  BY <1>3 DEF DeactivateStart, Begin
<1>4. ASSUME NEW r \in Request, NEW t \in Request, VerifyStart(r, t)
      PROVE  OneAccountPerEmail'
  BY <1>4 DEF VerifyStart, Begin
<1>5. ASSUME NEW r \in Request, NEW a \in User, NEW u \in User,
             SuspendStart(r, a, u)
      PROVE  OneAccountPerEmail'
  BY <1>5 DEF SuspendStart, Begin
<1>6. ASSUME NEW r \in Request, NEW a \in User, NEW u \in User,
             UnsuspendStart(r, a, u)
      PROVE  OneAccountPerEmail'
  BY <1>6 DEF UnsuspendStart, Begin
<1>7. ASSUME NEW r \in Request, NEW a \in User, NEW u \in User,
             ChangeRoleStart(r, a, u)
      PROVE  OneAccountPerEmail'
  BY <1>7 DEF ChangeRoleStart, Begin
<1>8. ASSUME NEW r \in Request, InsertUser(r) PROVE OneAccountPerEmail'
  BY <1>8 DEF InsertUser, Goto
<1>9. ASSUME NEW r \in Request, AutoVerify(r) PROVE OneAccountPerEmail'
  BY <1>9 DEF AutoVerify, Goto
<1>10. ASSUME NEW r \in Request, MarkUsed(r) PROVE OneAccountPerEmail'
  BY <1>10 DEF MarkUsed, Goto
<1>11. ASSUME NEW r \in Request, InsertToken(r) PROVE OneAccountPerEmail'
  BY <1>11 DEF InsertToken, Goto
<1>12. ASSUME NEW r \in Request, Mail(r) PROVE OneAccountPerEmail'
  BY <1>12 DEF Mail, Goto
<1>13. ASSUME NEW r \in Request, CommitVerify(r) PROVE OneAccountPerEmail'
  BY <1>13 DEF CommitVerify, Goto
<1>14. ASSUME NEW r \in Request, CommitSuspend(r) PROVE OneAccountPerEmail'
  BY <1>14 DEF CommitSuspend, Goto
<1>15. ASSUME NEW r \in Request, CommitUnsuspend(r) PROVE OneAccountPerEmail'
  BY <1>15 DEF CommitUnsuspend, Goto
<1>16. ASSUME NEW r \in Request, CommitRole(r) PROVE OneAccountPerEmail'
  BY <1>16 DEF CommitRole, Goto
<1>17. ASSUME NEW r \in Request, CommitDeactivate(r) PROVE OneAccountPerEmail'
  BY <1>17 DEF CommitDeactivate, Goto
<1>18. ASSUME NEW r \in Request, Fail(r) PROVE OneAccountPerEmail'
  BY <1>18 DEF Fail, Goto
<1>19. ASSUME NEW t \in Request, ExpireToken(t) PROVE OneAccountPerEmail'
  BY <1>19 DEF ExpireToken
<1>20. ASSUME NEW u \in User, DevVerify(u) PROVE OneAccountPerEmail'
  BY <1>20 DEF DevVerify
<1>21. CASE UNCHANGED vars
  BY <1>21 DEF vars
<1> QED
  BY <1>1, <1>2, <1>3, <1>4, <1>5, <1>6, <1>7, <1>8, <1>9, <1>10, <1>11,
     <1>12, <1>13, <1>14, <1>15, <1>16, <1>17, <1>18, <1>19, <1>20, <1>21
     DEF Next, Arrive, Step

(* Old tokens go when the new one comes, or when the user is verified.     *)
LEMMA WorkingStep ==
    TypeOK /\ DataOK /\ WorkingToken /\ [Next]_vars => WorkingToken'
<1> SUFFICES ASSUME TypeOK, DataOK, WorkingToken, [Next]_vars
             PROVE  WorkingToken'
  OBVIOUS
<1> USE RequestAssumption, UserAssumption DEF TypeOK, DataOK, WorkingToken,
        UnusedTokens,
        users, tokens, request, local, Running, Ended, Issuers
<1>1. ASSUME NEW r \in Request, NEW u \in User, RegisterStart(r, u)
      PROVE  WorkingToken'
  BY <1>1 DEF RegisterStart, Begin
<1>2. ASSUME NEW r \in Request, NEW u \in User, ResendStart(r, u)
      PROVE  WorkingToken'
  BY <1>2 DEF ResendStart, Begin
<1>3. ASSUME NEW r \in Request, NEW u \in User, DeactivateStart(r, u)
      PROVE  WorkingToken'
  BY <1>3 DEF DeactivateStart, Begin
<1>4. ASSUME NEW r \in Request, NEW t \in Request, VerifyStart(r, t)
      PROVE  WorkingToken'
  BY <1>4 DEF VerifyStart, Begin
<1>5. ASSUME NEW r \in Request, NEW a \in User, NEW u \in User,
             SuspendStart(r, a, u)
      PROVE  WorkingToken'
  BY <1>5 DEF SuspendStart, Begin
<1>6. ASSUME NEW r \in Request, NEW a \in User, NEW u \in User,
             UnsuspendStart(r, a, u)
      PROVE  WorkingToken'
  BY <1>6 DEF UnsuspendStart, Begin
<1>7. ASSUME NEW r \in Request, NEW a \in User, NEW u \in User,
             ChangeRoleStart(r, a, u)
      PROVE  WorkingToken'
  BY <1>7 DEF ChangeRoleStart, Begin
<1>8. ASSUME NEW r \in Request, InsertUser(r) PROVE WorkingToken'
  BY <1>8 DEF InsertUser, Goto
<1>9. ASSUME NEW r \in Request, AutoVerify(r) PROVE WorkingToken'
  BY <1>9 DEF AutoVerify, Goto
<1>10. ASSUME NEW r \in Request, MarkUsed(r) PROVE WorkingToken'
  BY <1>10 DEF MarkUsed, Goto
<1>11. ASSUME NEW r \in Request, InsertToken(r) PROVE WorkingToken'
  <2> SUFFICES ASSUME NEW u \in registered \ verified,
                      NEW s \in Request, token'[s] # "none", who[s] = u
               PROVE  \E t \in Request : token'[t] = "unused" /\ who[t] = u
    BY <1>11 DEF InsertToken, Goto
  <2>1. CASE u = who[r]
    BY <1>11, <2>1 DEF InsertToken, Goto
  <2>2. CASE u # who[r]
    <3>1. token[s] # "none"
      BY <1>11, <2>2 DEF InsertToken
    <3>2. PICK t \in Request : token[t] = "unused" /\ who[t] = u
      BY <3>1
    <3>3. t # r /\ t \notin hits[r]
      BY <1>11, <2>2, <3>2 DEF InsertToken
    <3> QED
      BY <1>11, <3>2, <3>3 DEF InsertToken
  <2> QED
    BY <2>1, <2>2
<1>12. ASSUME NEW r \in Request, Mail(r) PROVE WorkingToken'
  BY <1>12 DEF Mail, Goto
<1>13. ASSUME NEW r \in Request, CommitVerify(r) PROVE WorkingToken'
  BY <1>13 DEF CommitVerify, Goto
<1>14. ASSUME NEW r \in Request, CommitSuspend(r) PROVE WorkingToken'
  BY <1>14 DEF CommitSuspend, Goto
<1>15. ASSUME NEW r \in Request, CommitUnsuspend(r) PROVE WorkingToken'
  BY <1>15 DEF CommitUnsuspend, Goto
<1>16. ASSUME NEW r \in Request, CommitRole(r) PROVE WorkingToken'
  BY <1>16 DEF CommitRole, Goto
<1>17. ASSUME NEW r \in Request, CommitDeactivate(r) PROVE WorkingToken'
  BY <1>17 DEF CommitDeactivate, Goto
<1>18. ASSUME NEW r \in Request, Fail(r) PROVE WorkingToken'
  BY <1>18 DEF Fail, Goto
<1>19. ASSUME NEW t \in Request, ExpireToken(t) PROVE WorkingToken'
  BY <1>19 DEF ExpireToken
<1>20. ASSUME NEW u \in User, DevVerify(u) PROVE WorkingToken'
  BY <1>20 DEF DevVerify
<1>21. CASE UNCHANGED vars
  BY <1>21 DEF vars
<1> QED
  BY <1>1, <1>2, <1>3, <1>4, <1>5, <1>6, <1>7, <1>8, <1>9, <1>10, <1>11,
     <1>12, <1>13, <1>14, <1>15, <1>16, <1>17, <1>18, <1>19, <1>20, <1>21
     DEF Next, Arrive, Step

(* Verification consumes a mailed token.                                   *)
LEMMA MailStep ==
    TypeOK /\ DataOK /\ VerifiedByMail /\ [Next]_vars => VerifiedByMail'
<1> SUFFICES ASSUME TypeOK, DataOK, VerifiedByMail, [Next]_vars
             PROVE  VerifiedByMail'
  OBVIOUS
<1> USE RequestAssumption, UserAssumption DEF TypeOK, DataOK, VerifiedByMail,
        users, tokens, request, local, Running, Ended, Issuers
<1>1. ASSUME NEW r \in Request, NEW u \in User, RegisterStart(r, u)
      PROVE  VerifiedByMail'
  BY <1>1 DEF RegisterStart, Begin
<1>2. ASSUME NEW r \in Request, NEW u \in User, ResendStart(r, u)
      PROVE  VerifiedByMail'
  BY <1>2 DEF ResendStart, Begin
<1>3. ASSUME NEW r \in Request, NEW u \in User, DeactivateStart(r, u)
      PROVE  VerifiedByMail'
  BY <1>3 DEF DeactivateStart, Begin
<1>4. ASSUME NEW r \in Request, NEW t \in Request, VerifyStart(r, t)
      PROVE  VerifiedByMail'
  BY <1>4 DEF VerifyStart, Begin
<1>5. ASSUME NEW r \in Request, NEW a \in User, NEW u \in User,
             SuspendStart(r, a, u)
      PROVE  VerifiedByMail'
  BY <1>5 DEF SuspendStart, Begin
<1>6. ASSUME NEW r \in Request, NEW a \in User, NEW u \in User,
             UnsuspendStart(r, a, u)
      PROVE  VerifiedByMail'
  BY <1>6 DEF UnsuspendStart, Begin
<1>7. ASSUME NEW r \in Request, NEW a \in User, NEW u \in User,
             ChangeRoleStart(r, a, u)
      PROVE  VerifiedByMail'
  BY <1>7 DEF ChangeRoleStart, Begin
<1>8. ASSUME NEW r \in Request, InsertUser(r) PROVE VerifiedByMail'
  BY <1>8 DEF InsertUser, Goto
<1>9. ASSUME NEW r \in Request, AutoVerify(r) PROVE VerifiedByMail'
  BY <1>9 DEF AutoVerify, Goto
<1>10. ASSUME NEW r \in Request, MarkUsed(r) PROVE VerifiedByMail'
  BY <1>10 DEF MarkUsed, Goto
<1>11. ASSUME NEW r \in Request, InsertToken(r) PROVE VerifiedByMail'
  <2>1. ASSUME NEW t \in sent, token[t] = "used" PROVE token'[t] = "used"
    BY <1>11, <2>1 DEF InsertToken
  <2>2. UNCHANGED <<auto, verified, sent, who>>
    BY <1>11 DEF InsertToken, Goto
  <2>3. CASE auto
    BY <2>2, <2>3
  <2>4. CASE ~auto
    <3> SUFFICES ASSUME NEW u \in verified \ Admin
                 PROVE  \E t \in sent : who[t] = u /\ token'[t] = "used"
      BY <2>2
    <3> QED
      BY <2>1, <2>4
  <2> QED
    BY <2>3, <2>4
<1>12. ASSUME NEW r \in Request, Mail(r) PROVE VerifiedByMail'
  BY <1>12 DEF Mail, Goto
<1>13. ASSUME NEW r \in Request, CommitVerify(r) PROVE VerifiedByMail'
  BY <1>13 DEF CommitVerify, Goto
<1>14. ASSUME NEW r \in Request, CommitSuspend(r) PROVE VerifiedByMail'
  BY <1>14 DEF CommitSuspend, Goto
<1>15. ASSUME NEW r \in Request, CommitUnsuspend(r) PROVE VerifiedByMail'
  BY <1>15 DEF CommitUnsuspend, Goto
<1>16. ASSUME NEW r \in Request, CommitRole(r) PROVE VerifiedByMail'
  BY <1>16 DEF CommitRole, Goto
<1>17. ASSUME NEW r \in Request, CommitDeactivate(r) PROVE VerifiedByMail'
  BY <1>17 DEF CommitDeactivate, Goto
<1>18. ASSUME NEW r \in Request, Fail(r) PROVE VerifiedByMail'
  BY <1>18 DEF Fail, Goto
<1>19. ASSUME NEW t \in Request, ExpireToken(t) PROVE VerifiedByMail'
  BY <1>19 DEF ExpireToken
<1>20. ASSUME NEW u \in User, DevVerify(u) PROVE VerifiedByMail'
  BY <1>20 DEF DevVerify
<1>21. CASE UNCHANGED vars
  BY <1>21 DEF vars
<1> QED
  BY <1>1, <1>2, <1>3, <1>4, <1>5, <1>6, <1>7, <1>8, <1>9, <1>10, <1>11,
     <1>12, <1>13, <1>14, <1>15, <1>16, <1>17, <1>18, <1>19, <1>20, <1>21
     DEF Next, Arrive, Step

(* Issues that overlap.                                                    *)
LEMMA TokensStep ==
    TypeOK /\ DataOK /\ TokensInv /\ [Next]_vars => TokensInv'
<1> SUFFICES ASSUME TypeOK, DataOK, TokensInv, [Next]_vars
             PROVE  TokensInv'
  OBVIOUS
<1> USE RequestAssumption, UserAssumption DEF TypeOK, DataOK, TokensInv,
        UnusedTokensByRace, UnusedTokens,
        users, tokens, request, local, Running, Ended, Issuers
<1>1. ASSUME NEW r \in Request, NEW u \in User, RegisterStart(r, u)
      PROVE  TokensInv'
  BY <1>1 DEF RegisterStart, Begin
<1>2. ASSUME NEW r \in Request, NEW u \in User, ResendStart(r, u)
      PROVE  TokensInv'
  BY <1>2 DEF ResendStart, Begin
<1>3. ASSUME NEW r \in Request, NEW u \in User, DeactivateStart(r, u)
      PROVE  TokensInv'
  BY <1>3 DEF DeactivateStart, Begin
<1>4. ASSUME NEW r \in Request, NEW t \in Request, VerifyStart(r, t)
      PROVE  TokensInv'
  BY <1>4 DEF VerifyStart, Begin
<1>5. ASSUME NEW r \in Request, NEW a \in User, NEW u \in User,
             SuspendStart(r, a, u)
      PROVE  TokensInv'
  BY <1>5 DEF SuspendStart, Begin
<1>6. ASSUME NEW r \in Request, NEW a \in User, NEW u \in User,
             UnsuspendStart(r, a, u)
      PROVE  TokensInv'
  BY <1>6 DEF UnsuspendStart, Begin
<1>7. ASSUME NEW r \in Request, NEW a \in User, NEW u \in User,
             ChangeRoleStart(r, a, u)
      PROVE  TokensInv'
  BY <1>7 DEF ChangeRoleStart, Begin
<1>8. ASSUME NEW r \in Request, InsertUser(r) PROVE TokensInv'
  BY <1>8 DEF InsertUser, Goto
<1>9. ASSUME NEW r \in Request, AutoVerify(r) PROVE TokensInv'
  BY <1>9 DEF AutoVerify, Goto
<1>10. ASSUME NEW r \in Request, MarkUsed(r) PROVE TokensInv'
  BY <1>10 DEF MarkUsed, Goto, Outdated
<1>11. ASSUME NEW r \in Request, InsertToken(r) PROVE TokensInv'
  BY <1>11 DEF InsertToken, Goto
<1>12. ASSUME NEW r \in Request, Mail(r) PROVE TokensInv'
  BY <1>12 DEF Mail, Goto
<1>13. ASSUME NEW r \in Request, CommitVerify(r) PROVE TokensInv'
  BY <1>13 DEF CommitVerify, Goto
<1>14. ASSUME NEW r \in Request, CommitSuspend(r) PROVE TokensInv'
  BY <1>14 DEF CommitSuspend, Goto
<1>15. ASSUME NEW r \in Request, CommitUnsuspend(r) PROVE TokensInv'
  BY <1>15 DEF CommitUnsuspend, Goto
<1>16. ASSUME NEW r \in Request, CommitRole(r) PROVE TokensInv'
  BY <1>16 DEF CommitRole, Goto
<1>17. ASSUME NEW r \in Request, CommitDeactivate(r) PROVE TokensInv'
  BY <1>17 DEF CommitDeactivate, Goto
<1>18. ASSUME NEW r \in Request, Fail(r) PROVE TokensInv'
  BY <1>18 DEF Fail, Goto
<1>19. ASSUME NEW t \in Request, ExpireToken(t) PROVE TokensInv'
  BY <1>19 DEF ExpireToken
<1>20. ASSUME NEW u \in User, DevVerify(u) PROVE TokensInv'
  BY <1>20 DEF DevVerify
<1>21. CASE UNCHANGED vars
  BY <1>21 DEF vars
<1> QED
  BY <1>1, <1>2, <1>3, <1>4, <1>5, <1>6, <1>7, <1>8, <1>9, <1>10, <1>11,
     <1>12, <1>13, <1>14, <1>15, <1>16, <1>17, <1>18, <1>19, <1>20, <1>21
     DEF Next, Arrive, Step

-----------------------------------------------------------------------------
(* The invariant the other theorems rest on.                               *)
THEOREM Inductive == Spec => []IInv
<1>1. Init => IInv
  BY RequestAssumption, UserAssumption DEF Init, IInv, TypeOK, DataOK, TokensInv,
     OneAccountPerEmail, WorkingToken, VerifiedByMail, UnusedTokensByRace,
     UnusedTokens, Running, Issuers, Ended
<1>2. IInv /\ [Next]_vars => IInv'
  BY TypeStep, DataStep, AccountStep, WorkingStep, MailStep, TokensStep DEF IInv
<1> QED
  BY <1>1, <1>2, PTL DEF Spec

(* The state keeps its shape.                                              *)
THEOREM TypeCorrect == Spec => []TypeOK
<1>1. IInv => TypeOK
  BY DEF IInv
<1> QED
  BY Inductive, <1>1, PTL

(* Registrations of one address that overlap make one account              *)
(* (auth.py:149-156).                                                      *)
THEOREM OneAccount == Spec => []OneAccountPerEmail
<1>1. IInv => OneAccountPerEmail
  BY DEF IInv
<1> QED
  BY Inductive, <1>1, PTL

(* An unverified user who was issued a token keeps one that works until it *)
(* expires, whatever fails (auth.py:124-139).                              *)
THEOREM TokenAlwaysWorks == Spec => []WorkingToken
<1>1. IInv => WorkingToken
  BY DEF IInv
<1> QED
  BY Inductive, <1>1, PTL

(* Nobody is verified without a mailed token of his own, used up           *)
(* (auth.py:312-328).                                                      *)
THEOREM VerifiedOnlyByMail == Spec => []VerifiedByMail
<1>1. IInv => VerifiedByMail
  BY DEF IInv
<1> QED
  BY Inductive, <1>1, PTL

(* Two tokens of a user are both valid only by a race of their issues      *)
(* (auth.py:126-138).                                                      *)
THEOREM OneTokenButForRaces == Spec => []UnusedTokensByRace
<1>1. IInv => UnusedTokensByRace
  BY DEF IInv, TokensInv
<1> QED
  BY Inductive, <1>1, PTL

(* The last active administrator is lost only in the ways the property     *)
(* names (admin.py:149-155, 177-186).                                      *)
THEOREM LockoutOnlyAsExplained == Spec => LockoutExplained
<1> DEFINE Lost == active \cap admins # {} /\ active' \cap admins' = {}
           Explained(r) == /\ pc[r] \in Running /\ pc'[r] = "answered"
                           /\ \/ ~require_admin(who[r])
                              \/ op[r] # "suspend_user" /\ target[r] = who[r]
<1>1. TypeOK /\ DataOK /\ [Next]_vars => [Lost => \E r \in Request : Explained(r)]_vars
  <2> SUFFICES ASSUME TypeOK, DataOK, Next, Lost
               PROVE  \E r \in Request : Explained(r)
    OBVIOUS
  <2> USE DEF TypeOK, DataOK, Running, require_admin, Goto, users
  <2>1. ASSUME NEW r \in Request, CommitSuspend(r) PROVE Explained(r)
    BY <2>1 DEF CommitSuspend
  <2>2. ASSUME NEW r \in Request, CommitRole(r) PROVE Explained(r)
    BY <2>2 DEF CommitRole
  <2>3. ASSUME NEW r \in Request, CommitDeactivate(r) PROVE Explained(r)
    BY <2>3 DEF CommitDeactivate
  <2>4. CASE active \subseteq active' /\ admins \subseteq admins'
    BY <2>4
  <2> QED
    BY <2>1, <2>2, <2>3, <2>4 DEF Next, Arrive, Step, RegisterStart, ResendStart,
       DeactivateStart, VerifyStart, SuspendStart, UnsuspendStart, ChangeRoleStart,
       Begin, InsertUser, AutoVerify, MarkUsed, InsertToken, Mail, CommitVerify,
       CommitUnsuspend, ExpireToken, DevVerify, Fail
<1>2. IInv => TypeOK /\ DataOK
  BY DEF IInv
<1> QED
  BY Inductive, <1>1, <1>2, PTL DEF Spec, LockoutExplained

-----------------------------------------------------------------------------
(* One request at a time (Workers = 1), with handlers failing at any step. *)

(* "Invalidate old email-verification tokens" (auth.py:125), exactly.      *)
OneUnusedToken == \A u \in User : \A s, t \in UnusedTokens(u) : s = t

(* "Admins cannot suspend their own account - this prevents accidental     *)
(* lockout" (admin.py:175), exactly: nobody but the last active            *)
(* administrator himself, by giving up his role (admin.py:149-155) or his  *)
(* account (users.py:47-54), leaves the system without one.                *)
LockoutOwnDoing ==
    [][active \cap admins # {} /\ active' \cap admins' = {} =>
         \E r \in Request :
            /\ pc[r] \in {"demote", "deactivate"} /\ pc'[r] = "answered"
            /\ target[r] = who[r]]_vars

(* What the one request in flight has checked or found is still so.        *)
Alone ==
    /\ \A r, c \in InFlight : r = c
    /\ \A r \in Request :
        /\ pc[r] = "insert_token" => UnusedTokens(who[r]) \subseteq hits[r]
        /\ pc[r] \in {"suspend", "unsuspend", "promote", "demote"} =>
             require_admin(who[r])

LEMMA NoneInFlight ==
    ASSUME Workers = 1, Cardinality(InFlight) < Workers
    PROVE  InFlight = {}
<1>1. IsFiniteSet(InFlight)
  BY RequestAssumption, FS_Subset DEF InFlight
<1>2. Cardinality(InFlight) = 0
  BY <1>1, FS_CardinalityType
<1> QED
  BY <1>1, <1>2, FS_EmptySet

(* The arrival of a request, which is then alone in flight.                *)
LEMMA AloneBegin ==
    ASSUME TypeOK, Alone, Workers = 1, NEW r \in Request,
           NEW h, NEW u, NEW v, NEW t, NEW next, Begin(r, h, u, v, t, next),
           next # "insert_token",
           next \in {"suspend", "unsuspend", "promote", "demote"} => require_admin(u)
    PROVE  Alone'
<1>1. InFlight = {}
  BY NoneInFlight DEF Begin
<1>2. \A c \in Request \ {r} : pc'[c] = pc[c] /\ pc[c] \notin Running
  BY <1>1 DEF Begin, InFlight, TypeOK
<1>3. pc'[r] = next /\ who'[r] = u /\ UNCHANGED <<active, admins>>
  BY DEF Begin, TypeOK, users
<1> QED
  BY <1>2, <1>3 DEF Alone, InFlight, Running, require_admin

(* A step that moves the one request in flight on.                         *)
LEMMA AloneMove ==
    ASSUME TypeOK, Alone, NEW r \in Request, pc[r] \in Running,
           NEW next, Goto(r, next),
           next = "insert_token" => (UnusedTokens(who[r]) \subseteq hits[r])',
           next \notin {"suspend", "unsuspend", "promote", "demote"}
    PROVE  Alone'
<1>1. \A c \in Request \ {r} : pc'[c] = pc[c] /\ pc[c] \notin Running
  BY DEF Goto, InFlight, TypeOK, Alone
<1>2. pc'[r] = next /\ who'[r] = who[r]
  BY DEF Goto, TypeOK, request
<1> QED
  BY <1>1, <1>2 DEF Alone, InFlight, Running, UnusedTokens

LEMMA AloneStep ==
    ASSUME Workers = 1
    PROVE  TypeOK /\ DataOK /\ Alone /\ [Next]_vars => Alone'
<1> SUFFICES ASSUME TypeOK, DataOK, Alone, [Next]_vars
             PROVE  Alone'
  OBVIOUS
<1>1. ASSUME NEW r \in Request, Arrive(r) PROVE Alone'
  BY <1>1, AloneBegin DEF Arrive, RegisterStart, ResendStart, DeactivateStart,
     VerifyStart, SuspendStart, UnsuspendStart, ChangeRoleStart
<1>2. ASSUME NEW r \in Request, MarkUsed(r) PROVE Alone'
  <2>1. (UnusedTokens(who[r]) \subseteq hits[r])'
    BY <1>2 DEF MarkUsed, Outdated, UnusedTokens, TypeOK, Goto, tokens, request
  <2> QED
    BY <1>2, <2>1, AloneMove DEF MarkUsed, Running
<1>3. ASSUME NEW r \in Request, InsertUser(r) PROVE Alone'
  BY <1>3, AloneMove DEF InsertUser, Running
<1>4. ASSUME NEW r \in Request, Step(r), ~MarkUsed(r), ~InsertUser(r) PROVE Alone'
  <2>1. pc[r] \in Running /\ \E next \in {"answered", "mail"} : Goto(r, next)
    BY <1>4 DEF Step, AutoVerify, InsertToken, Mail, CommitVerify, CommitSuspend,
       CommitUnsuspend, CommitRole, CommitDeactivate, Running
  <2> QED
    BY <2>1, AloneMove
<1>5. ASSUME NEW r \in Request, Fail(r) PROVE Alone'
  BY <1>5, AloneMove DEF Fail
<1>6. ASSUME UNCHANGED <<pc, who, token, hits, active, admins>> PROVE Alone'
  BY <1>6 DEF Alone, InFlight, UnusedTokens, require_admin
<1> QED
  BY <1>1, <1>2, <1>3, <1>4, <1>5, <1>6
     DEF Next, ExpireToken, DevVerify, vars, users, tokens, request, local

(* A user's new token leaves him no other, and nothing revives a token.    *)
LEMMA OneUnusedStep ==
    TypeOK /\ DataOK /\ Alone /\ OneUnusedToken /\ [Next]_vars => OneUnusedToken'
<1> SUFFICES ASSUME TypeOK, DataOK, Alone, OneUnusedToken, [Next]_vars
             PROVE  OneUnusedToken'
  OBVIOUS
<1>1. ASSUME NEW r \in Request, InsertToken(r) PROVE OneUnusedToken'
  <2>1. UNCHANGED who /\ UnusedTokens(who[r]) \subseteq hits[r]
    BY <1>1 DEF InsertToken, Goto, request, Alone
  <2>2. \A t \in Request : token'[t] = "unused" =>
            t = r \/ (token[t] = "unused" /\ t \notin hits[r])
    BY <1>1 DEF InsertToken, TypeOK
  <2> QED
    BY <2>1, <2>2 DEF OneUnusedToken, UnusedTokens
<1>2. ASSUME NEW r \in Request, CommitVerify(r) PROVE OneUnusedToken'
  BY <1>2 DEF CommitVerify, Goto, request, OneUnusedToken, UnusedTokens, TypeOK
<1>3. ASSUME NEW r \in Request, Arrive(r) PROVE OneUnusedToken'
  <2>1. token' = token /\ token[r] = "none"
        /\ \A t \in Request \ {r} : who'[t] = who[t]
    BY <1>3 DEF Arrive, RegisterStart, ResendStart, DeactivateStart, VerifyStart,
       SuspendStart, UnsuspendStart, ChangeRoleStart, Begin, tokens, TypeOK, DataOK, Ended
  <2> QED
    BY <2>1 DEF OneUnusedToken, UnusedTokens
<1>4. ASSUME UNCHANGED <<token, who>> PROVE OneUnusedToken'
  BY <1>4 DEF OneUnusedToken, UnusedTokens
<1> QED
  BY <1>1, <1>2, <1>3, <1>4 DEF Next, Step, InsertUser, AutoVerify, MarkUsed, Mail,
     CommitSuspend, CommitUnsuspend, CommitRole, CommitDeactivate, Fail, Goto,
     ExpireToken, DevVerify, vars, users, tokens, request, local

LEMMA AloneAlways ==
    ASSUME Workers = 1
    PROVE  Spec => []Alone
<1>1. Init => Alone
  BY DEF Init, Alone, InFlight, Running
<1>2. IInv => TypeOK /\ DataOK
  BY DEF IInv
<1> QED
  BY <1>1, <1>2, AloneStep, Inductive, PTL DEF Spec

(* With one thread a user never has two unused tokens, whatever fails.     *)
THEOREM OneTokenOneAtATime ==
    ASSUME Workers = 1
    PROVE  Spec => []OneUnusedToken
<1>1. Init => OneUnusedToken
  BY DEF Init, OneUnusedToken, UnusedTokens
<1>2. IInv => TypeOK /\ DataOK
  BY DEF IInv
<1> QED
  BY <1>1, <1>2, OneUnusedStep, AloneAlways, Inductive, PTL DEF Spec

(* With one thread only the last active administrator can be the one who   *)
(* leaves the system without any.                                          *)
THEOREM LockoutOneAtATime ==
    ASSUME Workers = 1
    PROVE  Spec => LockoutOwnDoing
<1> DEFINE Lost == active \cap admins # {} /\ active' \cap admins' = {}
           OwnDoing(r) == /\ pc[r] \in {"demote", "deactivate"} /\ pc'[r] = "answered"
                          /\ target[r] = who[r]
<1>1. TypeOK /\ DataOK /\ Alone /\ [Next]_vars =>
        [Lost => \E r \in Request : OwnDoing(r)]_vars
  <2> SUFFICES ASSUME TypeOK, DataOK, Alone, Next, Lost
               PROVE  \E r \in Request : OwnDoing(r)
    OBVIOUS
  <2> USE DEF TypeOK, DataOK, Alone, require_admin, Goto, users
  <2>1. ASSUME NEW r \in Request, CommitSuspend(r) PROVE FALSE
    BY <2>1 DEF CommitSuspend
  <2>2. ASSUME NEW r \in Request, CommitRole(r) PROVE OwnDoing(r)
    BY <2>2 DEF CommitRole
  <2>3. ASSUME NEW r \in Request, CommitDeactivate(r) PROVE OwnDoing(r)
    BY <2>3 DEF CommitDeactivate
  <2>4. CASE active \subseteq active' /\ admins \subseteq admins'
    BY <2>4
  <2> QED
    BY <2>1, <2>2, <2>3, <2>4 DEF Next, Arrive, Step, RegisterStart, ResendStart,
       DeactivateStart, VerifyStart, SuspendStart, UnsuspendStart, ChangeRoleStart,
       Begin, InsertUser, AutoVerify, MarkUsed, InsertToken, Mail, CommitVerify,
       CommitUnsuspend, ExpireToken, DevVerify, Fail
<1>2. IInv => TypeOK /\ DataOK
  BY DEF IInv
<1> QED
  BY Inductive, AloneAlways, <1>1, <1>2, PTL DEF Spec, LockoutOwnDoing
=============================================================================

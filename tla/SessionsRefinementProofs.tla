---------------------- MODULE SessionsRefinementProofs ----------------------
(***************************************************************************)
(* Sessions implements SessionTable for any sets of requests and users: in *)
(* any interleaving, with handlers dying anywhere, with the rows as they   *)
(* are, and one request at a time with the serial table.  Credentials and  *)
(* Presented are invariants, and under them every action is a step of the  *)
(* table or leaves it as it is.                                            *)
(***************************************************************************)
EXTENDS SessionsRefinement, SessionsProofs

(* No step of any handler invalidates what a request in flight rests on.   *)
LEMMA PresentedStep ==
    Workers = 1 /\ IInv /\ OneAtATime /\ Presented /\ [Next]_vars => Presented'
<1> SUFFICES ASSUME Workers = 1, IInv, OneAtATime, Presented, [Next]_vars
             PROVE  Presented'
  OBVIOUS
<1> USE RequestAssumption, UserAssumption DEF IInv, TypeOK, Linked, Changing, OneAtATime,
        Presented, InFlight, database, history, request, Running, Issuing
<1>1. ASSUME NEW r \in Request, Arrive(r) PROVE Presented'
  BY <1>1, FreeMeansNoneInFlight DEF Arrive, LoginCheck, RevokeAllSessions,
     UpdateMyProfile, ForgotPassword, DevResetPassword, RevokeRowsOf, Revocable,
     RevokeSession, OwnSession, RefreshRead, AfterRead, Logout, ResetRead, KeyOwner, Begin
<1>2. ASSUME NEW r \in Request, Step(r) PROVE Presented'
  <2>1. CASE LoginAudit(r) \/ Issue(r) \/ RefreshUser(r) \/ SendResetEmail(r) \/ DeleteKey(r)
    BY <2>1 DEF LoginAudit, Issue, RefreshUser, SendResetEmail, DeleteKey, Goto
  <2>2. CASE Rotate(r) \/ MarkExpired(r) \/ RevokeOne(r)
    BY <2>2 DEF Rotate, MarkExpired, RevokeOne, MarkRevoked, Goto
  <2>3. CASE RevokeAll(r)
    BY <2>3 DEF RevokeAll, RevokeRowsOf, Revocable, Goto
  <2>4. CASE ChangePassword(r)
    BY <2>4 DEF ChangePassword, AfterChange
  <2> QED
    BY <1>2, <2>1, <2>2, <2>3, <2>4 DEF Step
<1>3. ASSUME NEW r \in Request, Fail(r) PROVE Presented'
  BY <1>3 DEF Fail, Goto
<1>4. ASSUME NEW u \in User, SuspendUser(u) \/ UnsuspendUser(u) PROVE Presented'
  BY <1>4 DEF SuspendUser, UnsuspendUser
<1>5. ASSUME NEW t \in Request, Expire(t) \/ ExpireKey(t) PROVE Presented'
  BY <1>5 DEF Expire, ExpireKey
<1>6. CASE PurgeExpired
  BY <1>6 DEF PurgeExpired, Purgeable
<1>7. CASE UNCHANGED vars
  BY <1>7 DEF vars
<1> QED
  BY <1>1, <1>2, <1>3, <1>4, <1>5, <1>6, <1>7 DEF Next

-----------------------------------------------------------------------------
(* A step that leaves Opened, OpenNow and what was recorded of the opened   *)
(* sessions alone is a stutter of the table.                               *)
LEMMA OwnersKept ==
    ASSUME Opened' = Opened,
           \A s \in Opened : /\ who'[s] = who[s] /\ cred'[s] = cred[s]
                             /\ op'[s] = op[s] /\ tok'[s] = tok[s]
    PROVE  OwnerOf' = OwnerOf /\ OpenedWith' = OpenedWith /\ OpenedFor' = OpenedFor
BY DEF OwnerOf, OpenedWith, OpenedFor

(* A step after which r counts as opened records its user and password.    *)
LEMMA OwnersAdded ==
    ASSUME NEW r \in Request, Opened' = Opened \cup {r},
           who' = who, cred' = cred, op' = op, tok' = tok
    PROVE  /\ OwnerOf' = [OwnerOf EXCEPT ![r] = who[r]]
           /\ OpenedWith' = [OpenedWith EXCEPT ![r] = cred[r]]
           /\ OpenedFor' = [OpenedFor EXCEPT ![r] = IF op[r] = "refresh" THEN tok[r] ELSE None]
BY DEF OwnerOf, OpenedWith, OpenedFor

(* A request that arrives with an idle name is not in the table; it leaves *)
(* the table alone unless it changes the password in the same transaction. *)
LEMMA ArriveTable ==
    ASSUME Workers = 1, IInv, OneAtATime, Presented, NEW r \in Request, Arrive(r)
    PROVE  [Table!Next]_(Table!vars)
<1> USE RequestAssumption, UserAssumption DEF IInv, TypeOK, Linked, Changing,
        InFlight, database, history, request, Running, Issuing, Begin
<1>1. InFlight = {}
  BY FreeMeansNoneInFlight DEF Arrive, LoginCheck, RevokeAllSessions, UpdateMyProfile,
     ForgotPassword, DevResetPassword, RevokeSession, RefreshRead, Logout, ResetRead
<1>2. ASSUME NEW u \in User, DevResetPassword(r, u) PROVE Table!ChangePassword(u)
  <2> USE <1>1, <1>2 DEF DevResetPassword, RevokeRowsOf, Revocable
  <2>1. Opened' = Opened
    BY DEF Opened
  <2>2. OwnerOf' = OwnerOf /\ OpenedWith' = OpenedWith /\ OpenedFor' = OpenedFor
    BY <2>1, OwnersKept DEF Opened
  <2>3. OpenNow' = OpenNow \ {s \in OpenNow : OwnerOf[s] = u}
    BY <2>1 DEF OpenNow, Opened, OwnerOf, Usable, Unsettled
  <2> QED
    BY <2>1, <2>2, <2>3 DEF Table!ChangePassword, Table!OpenOf, Table!End
<1>3. ASSUME ~\E u \in User : DevResetPassword(r, u) PROVE UNCHANGED Table!vars
  <2>1. /\ pc[r] = "idle" /\ pc'[r] \notin {"idle", "issue", "delete_key"}
        /\ pc'[r] = "revoke_all" => r \notin changed
        /\ \A s \in Request \ {r} : /\ pc'[s] = pc[s] /\ who'[s] = who[s]
                                   /\ cred'[s] = cred[s] /\ op'[s] = op[s]
                                   /\ tok'[s] = tok[s]
        /\ UNCHANGED <<password, row, expired, changed>>
    BY <1>3 DEF Arrive, LoginCheck, RevokeAllSessions, UpdateMyProfile, ForgotPassword,
       RevokeSession, RefreshRead, AfterRead, Logout, ResetRead
  <2>2. Opened' = Opened
    BY <2>1 DEF Opened
  <2>3. OwnerOf' = OwnerOf /\ OpenedWith' = OpenedWith /\ OpenedFor' = OpenedFor
    BY <2>1, <2>2, OwnersKept DEF Opened
  <2>4. OpenNow' = OpenNow
    BY <1>1, <2>1, <2>2 DEF OpenNow, Opened, Usable, Unsettled
  <2> QED
    BY <2>1, <2>2, <2>3, <2>4 DEF Table!vars, Table!table
<1> QED
  BY <1>2, <1>3 DEF Table!Next

(* While a request is in flight no other is, so no change of password is   *)
(* being settled but its own.                                              *)
LEMMA OnlyOwnChange ==
    ASSUME OneAtATime, NEW r \in Request, pc[r] \in Running, TypeOK, NEW u \in User,
           Unsettled(u)
    PROVE  r \in changed /\ pc[r] \in {"delete_key", "revoke_all"} /\ who[r] = u
BY DEF OneAtATime, InFlight, Unsettled, Running, TypeOK

(* The commit of a login's audit row opens its session: only its INSERT    *)
(* can follow.                                                             *)
LEMMA LoginAuditTable ==
    ASSUME IInv, OneAtATime, Presented, NEW r \in Request, LoginAudit(r)
    PROVE  Table!Open(r, who[r], password[who[r]])
<1> USE DEF IInv, TypeOK, Linked, LoginAudit, Goto, request
<1>1. r \notin Opened /\ Opened' = Opened \cup {r}
  BY DEF Opened
<1>2. /\ OwnerOf' = [OwnerOf EXCEPT ![r] = who[r]]
      /\ OpenedWith' = [OpenedWith EXCEPT ![r] = password[who[r]]]
      /\ OpenedFor' = [OpenedFor EXCEPT ![r] = None]
  BY <1>1, OwnersAdded DEF Presented
<1>3. \A u \in User : ~Unsettled(u) /\ ~Unsettled(u)'
  <2>1. \A u \in User : ~Unsettled(u)
    BY OnlyOwnChange DEF Running
  <2> QED
    BY <2>1 DEF Unsettled, history
<1>4. OpenNow' = OpenNow \cup {r}
  BY <1>1, <1>3 DEF OpenNow, Opened, Usable, Issuing
<1> QED
  BY <1>1, <1>2, <1>4 DEF Table!Open, Table!Add, LoginAudit

(* The commit that revokes the presented token hands its session over.     *)
LEMMA RotateTable ==
    ASSUME IInv, OneAtATime, Presented, NEW r \in Request, Rotate(r)
    PROVE  Table!Renew(tok[r], r) \/ UNCHANGED Table!vars
<1> USE DEF IInv, TypeOK, Linked, Rotate, MarkRevoked, Goto, request
<1>1. /\ tok[r] \in Request /\ tok[r] # r /\ row[r] = "none" /\ row[tok[r]] # "none"
      /\ who[tok[r]] = who[r] /\ cred[tok[r]] = cred[r]
      /\ row[tok[r]] \in {"live", "purged"} /\ who[r] \in User
  BY DEF Presented
<1>2. \A u \in User : ~Unsettled(u) /\ ~Unsettled(u)'
  BY OnlyOwnChange DEF Running, Unsettled, history
<1>3. CASE row[tok[r]] = "purged"
  <2>1. Opened' = Opened
    BY <1>1, <1>3 DEF Opened
  <2>2. OwnerOf' = OwnerOf /\ OpenedWith' = OpenedWith /\ OpenedFor' = OpenedFor
    BY <2>1, OwnersKept DEF Opened
  <2>3. OpenNow' = OpenNow
    BY <1>1, <1>2, <1>3, <2>1 DEF OpenNow, Opened, Usable, Issuing
  <2> QED
    BY <2>1, <2>2, <2>3 DEF Table!vars, Table!table
<1>4. CASE row[tok[r]] = "live"
  <2>1. tok[r] \in Opened /\ r \notin Opened /\ Opened' = Opened \cup {r}
    BY <1>1, <1>4 DEF Opened
  <2>2. /\ OwnerOf' = [OwnerOf EXCEPT ![r] = OwnerOf[tok[r]]]
        /\ OpenedWith' = [OpenedWith EXCEPT ![r] = OpenedWith[tok[r]]]
        /\ OpenedFor' = [OpenedFor EXCEPT ![r] = tok[r]]
    <3>1. OwnerOf[tok[r]] = who[r] /\ OpenedWith[tok[r]] = cred[r]
      BY <1>1, <2>1 DEF OwnerOf, OpenedWith
    <3> QED
      BY <2>1, <3>1, OwnersAdded
  <2>3. tok[r] \in OpenNow /\ OpenNow' = (OpenNow \ {tok[r]}) \cup {r}
    BY <1>1, <1>2, <1>4, <2>1 DEF OpenNow, Opened, Usable, Issuing
  <2> QED
    BY <1>4, <2>1, <2>2, <2>3 DEF Table!Renew, Table!Add
<1> QED
  BY <1>1, <1>3, <1>4

(* MarkExpired and RevokeOne end the session that was presented.           *)
LEMMA EndOneTable ==
    ASSUME IInv, OneAtATime, Presented, NEW r \in Request, MarkExpired(r) \/ RevokeOne(r)
    PROVE  Table!EndOne(tok[r])
<1> USE DEF IInv, TypeOK, Linked, MarkExpired, RevokeOne, MarkRevoked, Goto, request
<1>1. tok[r] \in Request /\ row[tok[r]] \in {"live", "purged"}
  BY DEF Presented
<1>2. \A u \in User : ~Unsettled(u) /\ ~Unsettled(u)'
  BY OnlyOwnChange DEF Running, Unsettled, history
<1>3. Opened' = Opened
  BY <1>1 DEF Opened
<1>4. OwnerOf' = OwnerOf /\ OpenedWith' = OpenedWith /\ OpenedFor' = OpenedFor
  BY <1>3, OwnersKept DEF Opened
<1>5. OpenNow' = OpenNow \ {tok[r]}
  BY <1>1, <1>2, <1>3 DEF OpenNow, Opened, Usable, Issuing
<1> QED
  BY <1>3, <1>4, <1>5 DEF Table!EndOne, Table!End

(* The UPDATE of _revoke_all_refresh_tokens ends the user's sessions; after *)
(* a change of password they count as ended already.                       *)
LEMMA RevokeAllTable ==
    ASSUME IInv, OneAtATime, NEW r \in Request, RevokeAll(r)
    PROVE  Table!EndAll(who[r]) \/ UNCHANGED Table!vars
<1> USE DEF IInv, TypeOK, Linked, RevokeAll, RevokeRowsOf, Revocable, Goto, request
<1>1. Opened' = Opened
  BY DEF Opened
<1>2. OwnerOf' = OwnerOf /\ OpenedWith' = OpenedWith /\ OpenedFor' = OpenedFor
  BY <1>1, OwnersKept DEF Opened
<1>3. /\ who[r] \in User /\ \A s \in Opened : pc[s] # "issue" /\ s # r
      /\ \A s \in Opened : who[s] \in User
  BY DEF Opened, OneAtATime, InFlight, Running
<1>4. \A u \in User : ~Unsettled(u)'
  <2>1. \A u \in User : Unsettled(u) => who[r] = u
    BY OnlyOwnChange DEF Running
  <2>2. \A c \in changed : pc[c] \in {"delete_key", "revoke_all"} => c = r
    BY DEF OneAtATime, InFlight, Running
  <2> QED
    BY <2>1, <2>2 DEF Unsettled
<1>5. CASE r \in changed
  <2>1. \A u \in User : Unsettled(u) <=> u = who[r]
    BY <1>3, <1>5, OnlyOwnChange DEF Running, Unsettled
  <2>2. OpenNow' = OpenNow
    BY <1>1, <1>3, <1>4, <2>1 DEF OpenNow, Opened, Usable, Issuing
  <2> QED
    BY <1>1, <1>2, <2>2 DEF Table!vars, Table!table
<1>6. CASE r \notin changed
  <2>1. \A u \in User : ~Unsettled(u)
    BY <1>6, OnlyOwnChange DEF Running
  <2>2. OpenNow' = OpenNow \ {s \in OpenNow : OwnerOf[s] = who[r]}
    BY <1>1, <1>3, <1>4, <2>1 DEF OpenNow, Opened, OwnerOf, Usable, Issuing
  <2> QED
    BY <1>1, <1>2, <2>2 DEF Table!EndAll, Table!OpenOf, Table!End
<1> QED
  BY <1>5, <1>6

(* The commit of a new password ends the sessions of its user at once; the *)
(* UPDATE that revokes their rows changes nothing any more.                *)
LEMMA ChangePasswordTable ==
    ASSUME IInv, OneAtATime, NEW r \in Request, ChangePassword(r)
    PROVE  Table!ChangePassword(who[r])
<1> USE DEF IInv, TypeOK, Linked, ChangePassword, AfterChange
<1>1. r \notin Opened /\ Opened' = Opened
  BY DEF Opened
<1>2. OwnerOf' = OwnerOf /\ OpenedWith' = OpenedWith /\ OpenedFor' = OpenedFor
  BY <1>1, OwnersKept DEF Opened
<1>3. \A u \in User : ~Unsettled(u) /\ (Unsettled(u)' <=> u = who[r])
  <2>1. \A u \in User : ~Unsettled(u)
    BY OnlyOwnChange DEF Running
  <2>2. \A c \in changed : pc[c] \notin {"delete_key", "revoke_all"}
    BY DEF OneAtATime, InFlight, Running
  <2> QED
    BY <2>1, <2>2 DEF Unsettled
<1>4. OpenNow' = OpenNow \ {s \in OpenNow : OwnerOf[s] = who[r]}
  BY <1>1, <1>3 DEF OpenNow, Opened, OwnerOf, Usable, Issuing
<1> QED
  BY <1>1, <1>2, <1>4 DEF Table!ChangePassword, Table!OpenOf, Table!End

(* The other steps of a handler leave the table alone.                     *)
LEMMA InnerStepTable ==
    ASSUME ~Faults, IInv, OneAtATime, NEW r \in Request,
           Issue(r) \/ RefreshUser(r) \/ SendResetEmail(r) \/ DeleteKey(r)
    PROVE  UNCHANGED Table!vars
<1> USE DEF IInv, TypeOK, Linked, Issue, RefreshUser, SendResetEmail, DeleteKey, Goto,
        database, history, request
<1>1. Opened' = Opened
  BY DEF Opened
<1>2. OwnerOf' = OwnerOf /\ OpenedWith' = OpenedWith /\ OpenedFor' = OpenedFor
  BY <1>1, OwnersKept DEF Opened
<1>3. \A u \in User : Unsettled(u)' <=> Unsettled(u)
  BY DEF Unsettled
<1>4. OpenNow' = OpenNow
  BY <1>1, <1>3 DEF OpenNow, Opened, Usable, Issuing
<1> QED
  BY <1>1, <1>2, <1>4 DEF Table!vars, Table!table

(* Suspensions and the expiry of keys leave the table alone; rows expire,  *)
(* and the job ends what has expired.                                      *)
LEMMA EnvironmentTable ==
    ASSUME IInv, Presented,
           \/ \E u \in User : SuspendUser(u) \/ UnsuspendUser(u)
           \/ \E t \in Request : Expire(t) \/ ExpireKey(t)
           \/ PurgeExpired
    PROVE  [Table!Next]_(Table!vars)
<1> USE DEF IInv, TypeOK, Linked, SuspendUser, UnsuspendUser, Expire, ExpireKey,
        PurgeExpired, Purgeable, database, history, request
<1>1. Opened' = Opened
  BY DEF Opened
<1>2. OwnerOf' = OwnerOf /\ OpenedWith' = OpenedWith /\ OpenedFor' = OpenedFor
  BY <1>1, OwnersKept DEF Opened
<1>3. \A u \in User : Unsettled(u)' <=> Unsettled(u)
  BY DEF Unsettled
<1>4. CASE PurgeExpired
  <2>1. \A t \in Opened : t \in expired => row[t] # "none"
    BY DEF Presented
  <2>2. OpenNow' = OpenNow \ expired
    BY <1>1, <1>3, <1>4, <2>1 DEF OpenNow, Opened, Usable, Issuing
  <2> QED
    BY <1>1, <1>2, <1>4, <2>2 DEF Table!Next, Table!Lapse, Table!End
<1>5. ASSUME ~PurgeExpired PROVE OpenNow' = OpenNow /\ password' = password
  BY <1>1, <1>3, <1>5 DEF OpenNow, Opened, Usable, Issuing
<1>6. ASSUME NEW t \in Request, Expire(t), ~PurgeExpired PROVE Table!Expire(t)
  BY <1>1, <1>2, <1>5, <1>6 DEF Opened, Table!Expire, Table!table
<1>7. ASSUME ~PurgeExpired, ~\E t \in Request : Expire(t) PROVE UNCHANGED Table!vars
  BY <1>1, <1>2, <1>5, <1>7 DEF Table!vars, Table!table
<1> QED
  BY <1>4, <1>6, <1>7 DEF Table!Next

-----------------------------------------------------------------------------
(* With one thread and no crash every step of a handler maps to one step   *)
(* of the table, or to none.                                               *)
LEMMA StepRefines ==
    ASSUME Workers = 1, ~Faults, IInv, OneAtATime, Presented, [Next]_vars
    PROVE  [Table!Next]_(Table!vars)
<1>1. ASSUME NEW r \in Request, Step(r) PROVE [Table!Next]_(Table!vars)
  <2>1. who[r] \in User \/ ~(LoginAudit(r) \/ RevokeAll(r) \/ ChangePassword(r))
    BY DEF IInv, TypeOK, LoginAudit, RevokeAll, ChangePassword
  <2>2. tok[r] \in Request \/ ~(Rotate(r) \/ MarkExpired(r) \/ RevokeOne(r))
    BY DEF IInv, Linked, Rotate, MarkExpired, RevokeOne
  <2>3. who[r] \in User => password[who[r]] \in 0 .. password[who[r]]
    BY DEF IInv, TypeOK
  <2> QED
    BY <1>1, <2>1, <2>2, <2>3, LoginAuditTable, RotateTable, EndOneTable, RevokeAllTable,
       ChangePasswordTable, InnerStepTable DEF Step, Table!Next
<1>2. CASE UNCHANGED vars
  BY <1>2 DEF vars, database, history, request, Table!vars, Table!table, Opened, OpenNow,
     OwnerOf, OpenedWith, OpenedFor, Usable, Unsettled
<1>3. \A r \in Request : ~Fail(r)
  BY DEF Fail
<1> QED
  BY <1>1, <1>2, <1>3, ArriveTable, EnvironmentTable DEF Next

(* One request at a time, and without crashes, the handlers implement the  *)
(* table of sessions: requests take effect in one step each.               *)
THEOREM Implementation ==
    ASSUME Workers = 1, ~Faults PROVE Spec => ImplementsTable
<1>1. Init => Presented
  BY DEF Init, Presented
<1>2. IInv /\ OneAtATime /\ Presented /\ [Next]_vars => Presented'
  BY PresentedStep
<1>3. Init => Table!Init
  BY DEF Init, Table!Init, Opened, OpenNow, OwnerOf, OpenedWith, OpenedFor
<1>4. IInv /\ OneAtATime /\ Presented /\ [Next]_vars => [Table!Next]_(Table!vars)
  BY StepRefines
<1> QED
  BY <1>1, <1>2, <1>3, <1>4, Inductive, OneAtATimeAlways, PTL
     DEF Spec, ImplementsTable, Table!Spec

-----------------------------------------------------------------------------
(* Any number of threads, and handlers that die.                           *)

(* A password version is inherited along refreshes and never ahead of the  *)
(* user's.                                                                 *)
LEMMA CredentialsStep == IInv /\ Credentials /\ [Next]_vars => Credentials'
<1> SUFFICES ASSUME IInv, Credentials, [Next]_vars PROVE Credentials'
  OBVIOUS
<1> USE RequestAssumption, UserAssumption DEF IInv, TypeOK, Linked, Changing,
        Credentials, database, history, request, Running, Issuing
<1>1. ASSUME NEW r \in Request, Arrive(r) PROVE Credentials'
  BY <1>1 DEF Arrive, LoginCheck, RevokeAllSessions,
     UpdateMyProfile, ForgotPassword, DevResetPassword, RevokeRowsOf, Revocable,
     RevokeSession, OwnSession, RefreshRead, AfterRead, Logout, ResetRead, KeyOwner, Begin
<1>2. ASSUME NEW r \in Request, Step(r) PROVE Credentials'
  <2>1. CASE LoginAudit(r) \/ Issue(r) \/ RefreshUser(r) \/ SendResetEmail(r) \/ DeleteKey(r)
    BY <2>1 DEF LoginAudit, Issue, RefreshUser, SendResetEmail, DeleteKey, Goto
  <2>2. CASE Rotate(r) \/ MarkExpired(r) \/ RevokeOne(r)
    BY <2>2 DEF Rotate, MarkExpired, RevokeOne, MarkRevoked, Goto
  <2>3. CASE RevokeAll(r)
    BY <2>3 DEF RevokeAll, RevokeRowsOf, Revocable, Goto
  <2>4. CASE ChangePassword(r)
    BY <2>4 DEF ChangePassword, AfterChange
  <2> QED
    BY <1>2, <2>1, <2>2, <2>3, <2>4 DEF Step
<1>3. ASSUME NEW r \in Request, Fail(r) PROVE Credentials'
  BY <1>3 DEF Fail, Goto
<1>4. ASSUME NEW u \in User, SuspendUser(u) \/ UnsuspendUser(u) PROVE Credentials'
  BY <1>4 DEF SuspendUser, UnsuspendUser
<1>5. ASSUME NEW t \in Request, Expire(t) \/ ExpireKey(t) PROVE Credentials'
  BY <1>5 DEF Expire, ExpireKey
<1>6. CASE PurgeExpired
  BY <1>6 DEF PurgeExpired, Purgeable
<1>7. CASE UNCHANGED vars
  BY <1>7 DEF vars
<1> QED
  BY <1>1, <1>2, <1>3, <1>4, <1>5, <1>6, <1>7 DEF Next

(* A step that inserts no row leaves who owns the rows and since when.     *)
LEMMA RowsKept ==
    ASSUME Inserted' = Inserted,
           \A s \in Inserted : /\ who'[s] = who[s] /\ cred'[s] = cred[s]
                               /\ op'[s] = op[s] /\ tok'[s] = tok[s]
    PROVE  RowOwner' = RowOwner /\ RowSince' = RowSince /\ RowFrom' = RowFrom
BY DEF RowOwner, RowSince, RowFrom

(* A request that arrives has no row; only a reset by a developer ends     *)
(* sessions in the same transaction.                                       *)
LEMMA ArriveRows ==
    ASSUME IInv, NEW r \in Request, Arrive(r)
    PROVE  [Rows!Next]_(Rows!vars)
<1> USE RequestAssumption, UserAssumption DEF IInv, TypeOK, Linked,
        database, history, request, Begin
<1>1. ASSUME NEW u \in User, DevResetPassword(r, u) PROVE Rows!ChangePassword(u)
  <2> USE <1>1 DEF DevResetPassword, RevokeRowsOf, Revocable
  <2>1. Inserted' = Inserted
    BY DEF Inserted
  <2>2. RowOwner' = RowOwner /\ RowSince' = RowSince /\ RowFrom' = RowFrom
    BY <2>1, RowsKept DEF Inserted
  <2>3. LiveRows' = LiveRows \ {s \in LiveRows : RowOwner[s] = u}
    BY DEF LiveRows, RowOwner, Inserted
  <2> QED
    BY <2>1, <2>2, <2>3 DEF Rows!ChangePassword, Rows!OpenOf, Rows!End
<1>2. ASSUME ~\E u \in User : DevResetPassword(r, u) PROVE UNCHANGED Rows!vars
  <2>1. /\ pc[r] = "idle"
        /\ \A s \in Request \ {r} : /\ who'[s] = who[s] /\ cred'[s] = cred[s]
                                   /\ op'[s] = op[s] /\ tok'[s] = tok[s]
        /\ UNCHANGED <<password, row, expired>>
    BY <1>2 DEF Arrive, LoginCheck, RevokeAllSessions, UpdateMyProfile, ForgotPassword,
       RevokeSession, RefreshRead, AfterRead, Logout, ResetRead
  <2>2. Inserted' = Inserted /\ LiveRows' = LiveRows
    BY <2>1 DEF Inserted, LiveRows
  <2>3. RowOwner' = RowOwner /\ RowSince' = RowSince /\ RowFrom' = RowFrom
    BY <2>1, <2>2, RowsKept DEF Inserted
  <2> QED
    BY <2>1, <2>2, <2>3 DEF Rows!vars, Rows!table
<1> QED
  BY <1>1, <1>2 DEF Rows!Next

(* An INSERT opens the session of a login, or the one that replaces the    *)
(* session of a refresh, which has ended.                                  *)
LEMMA IssueRows ==
    ASSUME IInv, Credentials, NEW r \in Request, Issue(r)
    PROVE  Rows!Open(r, who[r], cred[r]) \/ Rows!Renew(tok[r], r)
<1>1. /\ r \notin Inserted /\ Inserted' = Inserted \cup {r} /\ LiveRows' = LiveRows \cup {r}
      /\ UNCHANGED <<who, cred, op, tok, password, expired>>
      /\ op[r] \in {"login", "refresh"}
  BY DEF IInv, TypeOK, Linked, Issue, Goto, request, Inserted, LiveRows
<1>2. /\ RowOwner' = [RowOwner EXCEPT ![r] = who[r]]
      /\ RowSince' = [RowSince EXCEPT ![r] = cred[r]]
      /\ RowFrom' = [RowFrom EXCEPT ![r] = IF op[r] = "refresh" THEN tok[r] ELSE None]
  BY <1>1 DEF RowOwner, RowSince, RowFrom
<1>3. CASE op[r] = "login"
  BY <1>1, <1>2, <1>3 DEF Rows!Open, Rows!Add
<1>4. CASE op[r] = "refresh"
  <2>1. tok[r] \in Inserted /\ tok[r] \notin LiveRows
    BY <1>4 DEF IInv, Linked, Issue, Issuing, Consumed, Retired, Inserted, LiveRows
  <2>2. RowOwner[tok[r]] = who[r] /\ RowSince[tok[r]] = cred[r]
    BY <1>4, <2>1 DEF IInv, Linked, RowOwner, RowSince, Inserted, Credentials
  <2> QED
    BY <1>1, <1>2, <1>4, <2>1, <2>2 DEF Rows!Renew, Rows!Add
<1> QED
  BY <1>1, <1>3, <1>4

(* Rotation, logout and the like end the session that was presented, if    *)
(* its row is still there.                                                 *)
LEMMA MarkRows ==
    ASSUME IInv, NEW r \in Request, Rotate(r) \/ MarkExpired(r) \/ RevokeOne(r)
    PROVE  Rows!EndOne(tok[r]) \/ UNCHANGED Rows!vars
<1> USE DEF IInv, TypeOK, Linked, Rotate, MarkExpired, RevokeOne, MarkRevoked, Goto, request
<1>1. tok[r] \in Request /\ row[tok[r]] # "none"
  OBVIOUS
<1>2. Inserted' = Inserted
  BY <1>1 DEF Inserted
<1>3. RowOwner' = RowOwner /\ RowSince' = RowSince /\ RowFrom' = RowFrom
  BY <1>2, RowsKept
<1>4. LiveRows' = LiveRows \ {tok[r]} \/ LiveRows' = LiveRows
  BY <1>1 DEF LiveRows
<1> QED
  BY <1>2, <1>3, <1>4 DEF Rows!EndOne, Rows!End, Rows!vars, Rows!table

(* The other steps of a handler, and its death: a bulk revocation ends the *)
(* sessions of its user, a new password by itself ends none.               *)
LEMMA StepRows ==
    ASSUME IInv, NEW r \in Request,
           \/ LoginAudit(r) \/ RefreshUser(r) \/ SendResetEmail(r) \/ DeleteKey(r)
           \/ RevokeAll(r) \/ ChangePassword(r) \/ Fail(r)
    PROVE  [Rows!Next]_(Rows!vars)
<1> USE DEF IInv, TypeOK, Linked, database, history, request, Goto
<1>1. Inserted' = Inserted
  BY DEF Inserted, LoginAudit, RefreshUser, SendResetEmail, DeleteKey, RevokeAll,
     RevokeRowsOf, Revocable, ChangePassword, Fail
<1>2. RowOwner' = RowOwner /\ RowSince' = RowSince /\ RowFrom' = RowFrom
  BY <1>1, RowsKept DEF Inserted, LoginAudit, RefreshUser, SendResetEmail, DeleteKey,
     RevokeAll, RevokeRowsOf, ChangePassword, Fail
<1>3. CASE RevokeAll(r)
  <2>1. who[r] \in User
    BY <1>3 DEF RevokeAll
  <2>2. LiveRows' = LiveRows \ {s \in LiveRows : RowOwner[s] = who[r]}
    BY <1>3 DEF RevokeAll, RevokeRowsOf, Revocable, LiveRows, RowOwner, Inserted
  <2> QED
    BY <1>1, <1>2, <1>3, <2>1, <2>2
       DEF RevokeAll, Rows!EndAll, Rows!OpenOf, Rows!End, Rows!Next
<1>4. CASE ChangePassword(r)
  <2>1. who[r] \in User
    BY <1>4 DEF ChangePassword
  <2>2. Rows!ChangePassword(who[r])
    BY <1>1, <1>2, <1>4 DEF ChangePassword, LiveRows, Rows!ChangePassword, Rows!table
  <2> QED
    BY <2>1, <2>2 DEF Rows!Next
<1>5. CASE LoginAudit(r) \/ RefreshUser(r) \/ SendResetEmail(r) \/ DeleteKey(r) \/ Fail(r)
  BY <1>1, <1>2, <1>5 DEF LoginAudit, RefreshUser, SendResetEmail, DeleteKey, Fail,
     LiveRows, Rows!vars, Rows!table
<1> QED
  BY <1>3, <1>4, <1>5

(* Suspensions, expiry and the purge.                                      *)
LEMMA EnvironmentRows ==
    ASSUME IInv, Credentials,
           \/ \E u \in User : SuspendUser(u) \/ UnsuspendUser(u)
           \/ \E t \in Request : Expire(t) \/ ExpireKey(t)
           \/ PurgeExpired
    PROVE  [Rows!Next]_(Rows!vars)
<1> USE DEF IInv, TypeOK, SuspendUser, UnsuspendUser, Expire, ExpireKey,
        PurgeExpired, Purgeable, database, history, request
<1>1. Inserted' = Inserted
  BY DEF Inserted
<1>2. RowOwner' = RowOwner /\ RowSince' = RowSince /\ RowFrom' = RowFrom
  BY <1>1, RowsKept
<1>3. CASE PurgeExpired
  <2>1. LiveRows' = LiveRows \ expired
    BY <1>3 DEF LiveRows
  <2> QED
    BY <1>1, <1>2, <1>3, <2>1 DEF Rows!Next, Rows!Lapse, Rows!End
<1>4. ASSUME NEW t \in Request, Expire(t) PROVE Rows!Expire(t)
  BY <1>1, <1>2, <1>4 DEF Inserted, LiveRows, Rows!Expire, Rows!table
<1>5. ASSUME UNCHANGED <<password, row, expired>> PROVE UNCHANGED Rows!vars
  BY <1>1, <1>2, <1>5 DEF LiveRows, Rows!vars, Rows!table
<1> QED
  BY <1>3, <1>4, <1>5 DEF Rows!Next

(* However requests overlap and wherever they die, every step of a handler *)
(* is one step of the table or none (auth.py, users.py:29-44,              *)
(* scheduler.py): what has ended stays so.                                 *)
THEOREM RowsImplementation == Spec => ImplementsRows
<1>1. Init => Credentials
  BY DEF Init, Credentials, Issuing
<1>2. Init => Rows!Init
  BY DEF Init, Rows!Init, Inserted, LiveRows, RowOwner, RowSince, RowFrom
<1>3. IInv /\ Credentials /\ [Next]_vars => [Rows!Next]_(Rows!vars)
  <2> SUFFICES ASSUME IInv, Credentials, [Next]_vars PROVE [Rows!Next]_(Rows!vars)
    OBVIOUS
  <2>1. ASSUME NEW r \in Request, Issue(r) PROVE Rows!Next
    <3>1. who[r] \in User /\ cred[r] \in 0 .. password[who[r]]
      BY <2>1 DEF IInv, TypeOK, Credentials, Issue, Issuing
    <3>2. CASE Rows!Open(r, who[r], cred[r])
      BY <3>1, <3>2 DEF Rows!Next
    <3>3. CASE Rows!Renew(tok[r], r)
      <4>1. tok[r] \in Request
        BY <3>3 DEF Rows!Renew, Inserted
      <4> QED
        BY <3>3, <4>1 DEF Rows!Next
    <3> QED
      BY <2>1, <3>2, <3>3, IssueRows
  <2>2. ASSUME NEW r \in Request, Rotate(r) \/ MarkExpired(r) \/ RevokeOne(r)
        PROVE  [Rows!Next]_(Rows!vars)
    <3>1. tok[r] \in Request
      BY <2>2 DEF IInv, Linked, Rotate, MarkExpired, RevokeOne
    <3> QED
      BY <2>2, <3>1, MarkRows DEF Rows!Next
  <2>3. CASE UNCHANGED vars
    BY <2>3 DEF vars, database, request, Rows!vars, Rows!table, Inserted, LiveRows,
       RowOwner, RowSince, RowFrom
  <2> QED
    BY <2>1, <2>2, <2>3, ArriveRows, StepRows, EnvironmentRows DEF Next, Step
<1>4. IInv /\ Credentials /\ [Next]_vars => Credentials'
  BY CredentialsStep
<1> QED
  BY <1>1, <1>2, <1>3, <1>4, Inductive, PTL DEF Spec, ImplementsRows, Rows!Spec
=============================================================================

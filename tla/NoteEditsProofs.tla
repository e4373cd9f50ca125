-------------------------- MODULE NoteEditsProofs --------------------------
(***************************************************************************)
(* What the audit log of a note says of the note, for any set of requests  *)
(* and any number of threads.  IInv adds to the properties that a request  *)
(* nobody has overtaken holds the note as it is, and that the newest       *)
(* deletion or restore in the log tells whether the note is in the trash.  *)
(***************************************************************************)
EXTENDS NoteEdits, FiniteSetTheorems, TLAPS

Current ==
    \A r \in Request :
        /\ op[r] # "note_update" => DOMAIN want[r] = {}
        /\ pc[r] = "commit" /\ r \notin raced =>
              /\ seen[r] = note
              /\ op[r] = "note_restore" <=> trashed

TrashLogged ==
    \A i \in 1..Len(log) :
        LastTrashing(i, Len(log)) => (trashed <=> op[log[i]] = "note_delete")

IInv == TypeOK /\ Current /\ TrashLogged /\ AuditFaithful /\ TrashUntouched

(* Logged requests have answered, so they are not the one that starts or   *)
(* commits.                                                                *)
LEMMA LoggedAnswered ==
    ASSUME TypeOK, NEW i \in 1..Len(log)
    PROVE  log[i] \in Request /\ pc[log[i]] = "answered"
BY DEF TypeOK

(* What follows from a step that appends r to the log, entry by entry.     *)
LEMMA Appended ==
    ASSUME TypeOK, NEW r \in Request, log' = Append(log, r)
    PROVE  /\ log' \in Seq(Request)
           /\ Len(log') = Len(log) + 1
           /\ Len(log) \in Nat
           /\ \A i \in 1..Len(log) : log'[i] = log[i]
           /\ log'[Len(log) + 1] = r
BY DEF TypeOK

-----------------------------------------------------------------------------
(* Starting a request, or failing, changes neither note nor log.           *)
LEMMA BeginStep ==
    ASSUME IInv, NEW r \in Request, NEW h \in Handlers, NEW w \in Updates,
           Begin(r, h, w), h = "note_restore" <=> trashed, h # "note_update" => w = Nothing
    PROVE  IInv'
<1> USE DEF IInv, Begin, row
<1>1. TypeOK'
  BY DEF TypeOK
<1>2. \A i \in 1..Len(log) : log[i] \in Request /\ log[i] # r
  BY LoggedAnswered DEF TypeOK
<1>3. /\ \A s \in Request \ {r} :
            op'[s] = op[s] /\ want'[s] = want[s] /\ seen'[s] = seen[s] /\ pc'[s] = pc[s]
      /\ op'[r] = h /\ want'[r] = w /\ seen'[r] = note
      /\ UNCHANGED <<note, trashed, log, raced>>
  BY DEF TypeOK
<1>4. Current'
  BY <1>3 DEF Current, Nothing
<1>5. \A i \in 1..Len(log) :
         /\ op'[log[i]] = op[log[i]]
         /\ want'[log[i]] = want[log[i]]
         /\ seen'[log[i]] = seen[log[i]]
  BY <1>2, <1>3
<1>6. \A i \in 1..Len(log), j \in 0..Len(log) : LastTrashing(i, j)' <=> LastTrashing(i, j)
  <2>1. TAKE i \in 1..Len(log), j \in 0..Len(log)
  <2>2. \A k \in (i+1)..j : k \in 1..Len(log)
    BY DEF TypeOK
  <2> QED
    BY <2>2, <1>3, <1>5 DEF LastTrashing
<1>7. \A f \in Field, i \in 1..Len(log), j \in 0..Len(log) :
         LastNaming(f, i, j)' <=> LastNaming(f, i, j)
  <2>1. TAKE f \in Field, i \in 1..Len(log), j \in 0..Len(log)
  <2>2. \A k \in (i+1)..j : k \in 1..Len(log)
    BY DEF TypeOK
  <2> QED
    BY <2>2, <1>3, <1>5 DEF LastNaming
<1>8. Len(log) \in Nat /\ Len(log') = Len(log) /\ \A i \in 1..Len(log) : log'[i] = log[i]
  BY <1>3 DEF TypeOK
<1>9. TrashLogged'
  BY <1>3, <1>5, <1>6, <1>8 DEF TrashLogged
<1>10. TrashUntouched'
  BY <1>3, <1>5, <1>6, <1>8 DEF TrashUntouched
<1>11. AuditFaithful'
  BY <1>3, <1>5, <1>7, <1>8 DEF AuditFaithful
<1> QED
  BY <1>1, <1>4, <1>9, <1>10, <1>11

LEMMA FailStep ==
    ASSUME IInv, NEW r \in Request, Fail(r) PROVE IInv'
<1> USE DEF IInv, Fail, row, request
<1>1. TypeOK'
  BY LoggedAnswered DEF TypeOK
<1>2. Current' /\ TrashLogged' /\ AuditFaithful' /\ TrashUntouched'
  BY DEF Current, TrashLogged, AuditFaithful, TrashUntouched, LastNaming, LastTrashing,
     TypeOK
<1> QED
  BY <1>1, <1>2

-----------------------------------------------------------------------------
(* A commit keeps the state in shape and makes every other request that    *)
(* has loaded the note one that was raced.                                 *)
LEMMA CommittedType ==
    ASSUME TypeOK, NEW r \in Request, pc[r] = "commit", Committed(r),
           note' \in [Field -> Value], trashed' \in BOOLEAN
    PROVE  TypeOK'
<1> USE DEF Committed, request
<1>1. \A s \in Request : pc'[s] = "answered" <=> \E i \in 1..Len(log') : log'[i] = s
  <2>1. \A s \in Request : pc'[s] = "answered" <=> s = r \/ pc[s] = "answered"
    BY DEF TypeOK
  <2>2. \A s \in Request :
          (\E i \in 1..Len(log') : log'[i] = s) <=> s = r \/ \E i \in 1..Len(log) : log[i] = s
    BY Appended
  <2> QED
    BY <2>1, <2>2 DEF TypeOK
<1> QED
  BY <1>1, Appended DEF TypeOK, InFlight

LEMMA CommittedCurrent ==
    ASSUME TypeOK, Current, NEW r \in Request, Committed(r)
    PROVE  Current'
BY DEF Committed, request, TypeOK, Current, InFlight

(* What the entry of r changes of what is last in the log.                 *)
LEMMA CommittedLast ==
    ASSUME TypeOK, NEW r \in Request, Committed(r)
    PROVE  /\ \A f \in Field, i \in 1..Len(log) :
                /\ \A j \in 0..Len(log) : LastNaming(f, i, j)' <=> LastNaming(f, i, j)
                /\ LastNaming(f, i, Len(log))' =>
                      f \notin DOMAIN want[r] /\ LastNaming(f, i, Len(log))
           /\ \A i \in 1..Len(log) :
                /\ \A j \in 0..Len(log) : LastTrashing(i, j)' <=> LastTrashing(i, j)
                /\ LastTrashing(i, Len(log))' =>
                      op[r] = "note_update" /\ LastTrashing(i, Len(log))
<1>0. PICK n \in Nat : n = Len(log)
  BY DEF TypeOK
<1>1. /\ Len(log') = n + 1
      /\ \A i \in 1..n : log'[i] = log[i]
      /\ log'[n + 1] = r
      /\ UNCHANGED request
  BY <1>0, Appended DEF Committed
<1>2. ASSUME NEW f \in Field, NEW i \in 1..n, NEW j \in 0..n
      PROVE  LastNaming(f, i, j)' <=> LastNaming(f, i, j)
  <2>1. \A k \in (i+1)..j : k \in 1..n
    BY <1>1
  <2> QED
    BY <1>1, <2>1 DEF LastNaming, request
<1>3. ASSUME NEW f \in Field, NEW i \in 1..n, LastNaming(f, i, n + 1)'
      PROVE  f \notin DOMAIN want[r] /\ LastNaming(f, i, n)
  <2>1. n + 1 \in (i+1)..(n+1) /\ \A k \in (i+1)..n : k \in 1..n /\ k \in (i+1)..(n+1)
    BY <1>1
  <2> QED
    BY <1>1, <1>3, <2>1 DEF LastNaming, request
<1>4. ASSUME NEW i \in 1..n, NEW j \in 0..n
      PROVE  LastTrashing(i, j)' <=> LastTrashing(i, j)
  <2>1. \A k \in (i+1)..j : k \in 1..n
    BY <1>1
  <2> QED
    BY <1>1, <2>1 DEF LastTrashing, request
<1>5. ASSUME NEW i \in 1..n, LastTrashing(i, n + 1)'
      PROVE  op[r] = "note_update" /\ LastTrashing(i, n)
  <2>1. n + 1 \in (i+1)..(n+1) /\ \A k \in (i+1)..n : k \in 1..n /\ k \in (i+1)..(n+1)
    BY <1>1
  <2> QED
    BY <1>1, <1>5, <2>1 DEF LastTrashing, request
<1> QED
  BY <1>0, <1>1, <1>2, <1>3, <1>4, <1>5

-----------------------------------------------------------------------------
(* An update that was not raced writes what it names and keeps the rest.   *)
LEMMA UpdateNote ==
    ASSUME IInv, NEW r \in Request, UpdateCommit(r), NEW f \in Field
    PROVE  /\ f \notin DOMAIN want[r] => note'[f] = note[f]
           /\ r \notin raced /\ f \in DOMAIN want[r] => note'[f] = want[r][f]
BY DEF IInv, Current, UpdateCommit, Written

(* The audit log after a commit that leaves the columns it does not name   *)
(* alone and, unless it was raced, sets those it names.                    *)
LEMMA CommittedAudit ==
    ASSUME IInv, NEW r \in Request, pc[r] = "commit", Committed(r),
           \A f \in Field :
              /\ f \notin DOMAIN want[r] => note'[f] = note[f]
              /\ r \notin raced /\ f \in DOMAIN want[r] => note'[f] = want[r][f]
    PROVE  AuditFaithful'
<1>0. PICK n \in Nat : n = Len(log)
  BY DEF IInv, TypeOK
<1>1. /\ Len(log') = n + 1
      /\ \A i \in 1..n : log'[i] = log[i]
      /\ log'[n + 1] = r
      /\ UNCHANGED request
      /\ raced \subseteq raced'
      /\ r \in raced' <=> r \in raced
  BY <1>0, Appended DEF IInv, Committed
<1>2. \A f \in Field, i \in 1..n :
         /\ \A j \in 0..n : LastNaming(f, i, j)' <=> LastNaming(f, i, j)
         /\ LastNaming(f, i, n + 1)' => f \notin DOMAIN want[r] /\ LastNaming(f, i, n)
  BY <1>0, <1>1, CommittedLast DEF IInv
<1>3. r \notin raced => seen[r] = note
  BY DEF IInv, Current
<1>4. ASSUME NEW f \in Field, NEW i \in 1..(n+1), (log[i])' \notin raced',
             LastNaming(f, i, n + 1)'
      PROVE  note'[f] = (want[log[i]][f])'
  <2>1. CASE i = n + 1
    BY <1>1, <1>4, <2>1 DEF LastNaming, request
  <2>2. CASE i \in 1..n
    BY <1>0, <1>1, <1>2, <1>4, <2>2 DEF IInv, AuditFaithful, request
  <2> QED
    BY <1>1, <2>1, <2>2
<1>5. ASSUME NEW f \in Field, NEW i \in 1..(n+1), NEW j \in (i+1)..(n+1),
             (log[i])' \notin raced', (log[j])' \notin raced',
             LastNaming(f, i, j - 1)', f \in (DOMAIN want[log[j]])'
      PROVE  (seen[log[j]][f])' = (want[log[i]][f])'
  <2>1. i \in 1..n /\ j - 1 \in 0..n /\ j \in 1..(n+1)
    BY <1>1
  <2>2. LastNaming(f, i, j - 1) /\ log[i] \notin raced
    BY <1>1, <1>2, <1>5, <2>1
  <2>3. CASE j = n + 1
    <3>1. LastNaming(f, i, n) /\ r \notin raced
      BY <1>1, <1>5, <2>2, <2>3
    <3>2. note[f] = want[log[i]][f]
      BY <1>0, <2>1, <2>2, <3>1 DEF IInv, AuditFaithful
    <3> QED
      BY <1>1, <1>3, <2>1, <2>3, <3>1, <3>2 DEF request
  <2>4. CASE j \in (i+1)..n
    <3>1. log'[j] = log[j] /\ log'[i] = log[i] /\ log[j] \notin raced
      BY <1>1, <1>5, <2>1, <2>4
    <3> QED
      BY <1>0, <1>1, <1>5, <2>1, <2>2, <2>4, <3>1 DEF IInv, AuditFaithful, request
  <2> QED
    BY <1>1, <2>1, <2>3, <2>4
<1> QED
  BY <1>1, <1>4, <1>5 DEF AuditFaithful

(* The deletions and restores in the log after a commit that sets          *)
(* deleted_at as its handler says.                                         *)
LEMMA CommittedTrash ==
    ASSUME IInv, NEW r \in Request, pc[r] = "commit", Committed(r),
           op[r] = "note_update" => trashed' = trashed,
           op[r] # "note_update" => trashed' = (op[r] = "note_delete")
    PROVE  TrashLogged' /\ TrashUntouched'
<1>0. PICK n \in Nat : n = Len(log)
  BY DEF IInv, TypeOK
<1>1. /\ Len(log') = n + 1
      /\ \A i \in 1..n : log'[i] = log[i]
      /\ log'[n + 1] = r
      /\ UNCHANGED request
      /\ raced \subseteq raced'
      /\ r \in raced' <=> r \in raced
  BY <1>0, Appended DEF IInv, Committed
<1>2. \A i \in 1..n :
         /\ \A j \in 0..n : LastTrashing(i, j)' <=> LastTrashing(i, j)
         /\ LastTrashing(i, n + 1)' => op[r] = "note_update" /\ LastTrashing(i, n)
  BY <1>0, <1>1, CommittedLast DEF IInv
<1>3. r \notin raced => (op[r] = "note_restore" <=> trashed)
  BY DEF IInv, Current
<1>4. \A i \in 1..n : LastTrashing(i, n) => (trashed <=> op[log[i]] = "note_delete")
  BY <1>0 DEF IInv, TrashLogged
<1>5. ASSUME NEW i \in 1..(n+1), LastTrashing(i, n + 1)'
      PROVE  trashed' <=> (op[log[i]] = "note_delete")'
  <2>1. CASE i = n + 1
    <3>1. op[r] \in {"note_delete", "note_restore"} /\ (op[log[i]])' = op[r]
      BY <1>1, <1>5, <2>1 DEF LastTrashing, request
    <3> QED
      BY <3>1
  <2>2. CASE i \in 1..n
    <3>1. op[r] = "note_update" /\ LastTrashing(i, n) /\ (op[log[i]])' = op[log[i]]
      BY <1>1, <1>2, <1>5, <2>2 DEF request
    <3> QED
      BY <1>4, <2>2, <3>1
  <2> QED
    BY <2>1, <2>2
<1>6. ASSUME NEW i \in 1..(n+1), NEW j \in 1..(n+1), i < j,
             LastTrashing(i, j - 1)', (log[j])' \notin raced'
      PROVE  (op[log[j]] = "note_restore" <=> op[log[i]] = "note_delete")'
  <2>1. i \in 1..n /\ j - 1 \in 0..n /\ log'[i] = log[i] /\ op' = op
    BY <1>1, <1>6 DEF request
  <2>2. LastTrashing(i, j - 1)
    BY <1>2, <1>6, <2>1
  <2>3. CASE j = n + 1
    BY <1>1, <1>3, <1>4, <1>6, <2>1, <2>2, <2>3
  <2>4. CASE j \in 1..n
    BY <1>0, <1>1, <1>6, <2>1, <2>2, <2>4 DEF IInv, TrashUntouched
  <2> QED
    BY <2>3, <2>4
<1>7. TrashLogged'
  BY <1>1, <1>5 DEF TrashLogged
<1>8. TrashUntouched'
  BY <1>1, <1>6 DEF TrashUntouched
<1> QED
  BY <1>7, <1>8

-----------------------------------------------------------------------------
(* Every step keeps the invariant, one action at a time.                   *)
LEMMA IInvStep == IInv /\ [Next]_vars => IInv'
<1> SUFFICES ASSUME IInv, [Next]_vars PROVE IInv'
  OBVIOUS
<1>1. CASE UNCHANGED vars
  <2> USE <1>1 DEF vars, row, request
  <2>1. TypeOK' /\ Current'
    BY DEF IInv, TypeOK, Current
  <2>2. TrashLogged' /\ TrashUntouched'
    BY DEF IInv, TrashLogged, TrashUntouched, LastTrashing
  <2>3. AuditFaithful'
    BY DEF IInv, AuditFaithful, LastNaming
  <2> QED
    BY <2>1, <2>2, <2>3 DEF IInv
<1>2. ASSUME NEW r \in Request, NEW w \in Updates, UpdateRead(r, w)
      PROVE  IInv'
  BY <1>2, BeginStep DEF UpdateRead, Handlers
<1>3. Nothing \in Updates
  BY DEF Nothing, Updates
<1>4. ASSUME NEW r \in Request, DeleteRead(r)
      PROVE  IInv'
  BY <1>3, <1>4, BeginStep DEF DeleteRead, Handlers
<1>5. ASSUME NEW r \in Request, RestoreRead(r)
      PROVE  IInv'
  BY <1>3, <1>5, BeginStep DEF RestoreRead, Handlers
<1>6. ASSUME NEW r \in Request, UpdateCommit(r)
      PROVE  IInv'
  <2>1. pc[r] = "commit" /\ op[r] = "note_update" /\ Committed(r) /\ trashed' = trashed
    BY <1>6 DEF UpdateCommit
  <2>2. note' \in [Field -> Value]
    BY <1>6 DEF UpdateCommit, Written, IInv, TypeOK, Updates
  <2>3. TypeOK'
    BY <2>1, <2>2, CommittedType DEF IInv, TypeOK
  <2>4. Current'
    BY <2>1, CommittedCurrent DEF IInv
  <2>5. AuditFaithful'
    BY <1>6, <2>1, UpdateNote, CommittedAudit
  <2>6. TrashLogged' /\ TrashUntouched'
    BY <2>1, CommittedTrash
  <2> QED
    BY <2>3, <2>4, <2>5, <2>6 DEF IInv
<1>7. ASSUME NEW r \in Request, TrashCommit(r)
      PROVE  IInv'
  <2>1. /\ pc[r] = "commit" /\ op[r] # "note_update" /\ Committed(r)
        /\ trashed' = (op[r] = "note_delete") /\ note' = note
    BY <1>7 DEF TrashCommit
  <2>2. note' \in [Field -> Value] /\ trashed' \in BOOLEAN
    BY <2>1 DEF IInv, TypeOK
  <2>3. TypeOK'
    BY <2>1, <2>2, CommittedType DEF IInv
  <2>4. Current'
    BY <2>1, CommittedCurrent DEF IInv
  <2>5. DOMAIN want[r] = {}
    BY <2>1 DEF IInv, Current
  <2>6. AuditFaithful'
    BY <2>1, <2>5, CommittedAudit
  <2>7. TrashLogged' /\ TrashUntouched'
    BY <2>1, CommittedTrash
  <2> QED
    BY <2>3, <2>4, <2>6, <2>7 DEF IInv
<1>8. ASSUME NEW r \in Request, Fail(r)
      PROVE  IInv'
  BY <1>8, FailStep
<1> QED
  BY <1>1, <1>2, <1>4, <1>5, <1>6, <1>7, <1>8 DEF Next

LEMMA IInvInit == Init => IInv
<1> SUFFICES ASSUME Init PROVE IInv
  OBVIOUS
<1>1. Nothing \in Updates /\ DOMAIN Nothing = {} /\ Len(log) = 0
  BY DEF Init, Nothing, Updates
<1>2. TypeOK
  <2>1. \A r \in Request : pc[r] # "answered"
    BY DEF Init
  <2>2. ~ \E i \in 1..Len(log) : TRUE
    BY <1>1
  <2>3. log \in Seq(Request)
    BY SMT DEF Init
  <2>4. note \in [Field -> Value] /\ trashed \in BOOLEAN
    <3>1. note \in [Field -> Value]
      BY DEF Init
    <3>2. trashed \in BOOLEAN
      BY Zenon DEF Init
    <3> QED
      BY <3>1, <3>2
  <2>5. /\ op \in [Request -> Handlers \cup {"none"}]
        /\ pc \in [Request -> {"idle", "commit", "answered", "failed"}]
        /\ seen \in [Request -> [Field -> Value]]
        /\ raced \subseteq Request
    BY DEF Init
  <2>6. want \in [Request -> Updates]
    BY <1>1 DEF Init
  <2> QED
    BY <2>1, <2>2, <2>3, <2>4, <2>5, <2>6 DEF TypeOK
<1> QED
  BY <1>1, <1>2 DEF Init, IInv, Current, TrashLogged, AuditFaithful, TrashUntouched

LEMMA Invariance == Spec => []IInv
BY IInvInit, IInvStep, PTL DEF Spec

-----------------------------------------------------------------------------
(* The state keeps its shape, and the log holds exactly the requests that  *)
(* committed (one transaction for row and audit row, notes.py:265-272).    *)
THEOREM TypeCorrect == Spec => []TypeOK
<1>1. IInv => TypeOK
  BY DEF IInv
<1> QED
  BY <1>1, Invariance, PTL

(* The "after" of the newest entry that names a column is in the note and  *)
(* the "before" of an entry is the "after" of the one before it, except    *)
(* where requests overlapped: for any requests, columns and threads.       *)
THEOREM AuditTrusted == Spec => []AuditFaithful
<1>1. IInv => AuditFaithful
  BY DEF IInv
<1> QED
  BY <1>1, Invariance, PTL

(* Only a request that overlapped another one edits or deletes a note in   *)
(* the trash, or restores a live one.                                      *)
THEOREM TrashRespected == Spec => []TrashUntouched
<1>1. IInv => TrashUntouched
  BY DEF IInv
<1> QED
  BY <1>1, Invariance, PTL

-----------------------------------------------------------------------------
(* With one thread nothing is ever raced, as Begin admits no second request: *)
(* the exceptions above are empty, which the next two theorems use.          *)
LEMMA SerialNotRaced ==
    ASSUME Workers = 1
    PROVE  Spec => [](raced = {})
<1> DEFINE Alone == /\ raced = {}
                    /\ \A r, s \in Request : pc[r] = "commit" /\ pc[s] = "commit" => r = s
<1>1. Init => Alone
  BY DEF Init
<1>2. TypeOK /\ Alone /\ [Next]_vars => Alone'
  <2> SUFFICES ASSUME TypeOK, Alone, [Next]_vars PROVE Alone'
    OBVIOUS
  <2>1. ASSUME NEW r \in Request, NEW h, NEW w, Begin(r, h, w)
        PROVE  Alone'
    <3>1. Cardinality(InFlight) = 0 /\ IsFiniteSet(InFlight)
      <4>1. IsFiniteSet(InFlight)
        BY RequestAssumption, FS_Subset DEF InFlight
      <4>2. Cardinality(InFlight) \in Nat
        BY <4>1, FS_CardinalityType
      <4> QED
        BY <2>1, <4>1, <4>2 DEF Begin
    <3>2. InFlight = {}
      BY <3>1, FS_EmptySet
    <3> QED
      BY <2>1, <3>2 DEF Begin, InFlight, TypeOK
  <2>2. ASSUME NEW r \in Request, pc[r] = "commit", Committed(r)
        PROVE  Alone'
    BY <2>2 DEF Committed, InFlight, TypeOK
  <2>3. ASSUME NEW r \in Request, Fail(r)
        PROVE  Alone'
    BY <2>3 DEF Fail, TypeOK
  <2>4. CASE UNCHANGED vars
    BY <2>4 DEF vars
  <2> QED
    BY <2>1, <2>2, <2>3, <2>4
       DEF Next, UpdateRead, DeleteRead, RestoreRead, UpdateCommit, TrashCommit
<1>3. Alone => raced = {}
  OBVIOUS
<1> QED
  BY <1>1, <1>2, <1>3, TypeCorrect, PTL DEF Spec

(* One request at a time, the audit log is exact (audit.py:4-5,            *)
(* notes.py:265-271): the newest entry that names a column has its value   *)
(* in the note as "after", and every entry has as "before" what the        *)
(* previous one to name the column has as "after".                         *)
AuditExact ==
    \A f \in Field : \A i \in 1..Len(log) :
        /\ LastNaming(f, i, Len(log)) => note[f] = want[log[i]][f]
        /\ \A j \in (i+1)..Len(log) :
              LastNaming(f, i, j - 1) /\ f \in DOMAIN want[log[j]] =>
                  seen[log[j]][f] = want[log[i]][f]

THEOREM AuditExactOneAtATime ==
    ASSUME Workers = 1
    PROVE  Spec => []AuditExact
<1>1. TypeOK /\ raced = {} /\ AuditFaithful => AuditExact
  <2>1. ASSUME TypeOK, NEW i \in 1..Len(log), NEW j \in (i+1)..Len(log)
        PROVE  j \in 1..Len(log)
    BY <2>1 DEF TypeOK
  <2> QED
    BY <2>1 DEF AuditExact, AuditFaithful
<1> QED
  BY <1>1, TypeCorrect, AuditTrusted, SerialNotRaced, PTL

(* One request at a time, nothing happens to a note in the trash but its   *)
(* restore, and a restore happens to no other (notes.py:261, 291,          *)
(* admin.py:89).                                                           *)
TrashExact ==
    \A i, j \in 1..Len(log) :
        i < j /\ LastTrashing(i, j - 1) =>
            (op[log[j]] = "note_restore" <=> op[log[i]] = "note_delete")

THEOREM TrashExactOneAtATime ==
    ASSUME Workers = 1
    PROVE  Spec => []TrashExact
<1>1. raced = {} /\ TrashUntouched => TrashExact
  BY DEF TrashExact, TrashUntouched
<1> QED
  BY <1>1, TrashRespected, SerialNotRaced, PTL
=============================================================================

----------------------------- MODULE NoteEdits -----------------------------
(***************************************************************************)
(* Changes of one note and the audit rows that tell of them                *)
(* (backend/app/routers/notes.py, the restore of admin.py, audit.py).      *)
(*                                                                         *)
(* A handler loads the row, sets attributes on the loaded object, adds an  *)
(* audit row to the same transaction and commits.  Nothing locks the row   *)
(* between the two, so other requests may commit in between.  At the       *)
(* commit SQLAlchemy's UPDATE names the note's id and only the columns     *)
(* whose value differs from the one that was loaded.  The log is kept in   *)
(* the order of the commits; requests refused when they start are left     *)
(* out, and so is the cache (module NoteCache).                            *)
(***************************************************************************)
EXTENDS Naturals, Sequences, FiniteSets

CONSTANTS
    Request,    \* HTTP requests, each made at most once
    Field,      \* the columns a NoteUpdate can name
    Value,      \* what such a column can hold
    Null,       \* a JSON null, which NoteUpdate accepts and the columns do not
    Workers,    \* requests that can be in flight at once
    Faults      \* may a handler die, or its commit fail, after it has read?

ASSUME RequestAssumption == IsFiniteSet(Request)
ASSUME ValueAssumption   == Null \notin Value /\ Value # {}
ASSUME WorkersAssumption == Workers \in Nat \ {0}
ASSUME FaultsAssumption  == Faults \in BOOLEAN

VARIABLES
    note,       \* the columns of the row
    trashed,    \* deleted_at is set
    log,        \* audit_logs about the note: the requests that committed one
    op, pc,     \* handler a request runs, and its next step
    seen,       \* the columns as it loaded them
    want,       \* the columns an update names, with their new values
    raced       \* history: the requests that had loaded the note and not yet
                \* committed when another one committed

row     == <<note, trashed, log>>
request == <<op, seen, want>>
vars    == <<row, request, pc, raced>>

Handlers == {"note_update", "note_delete", "note_restore"}
Updates == UNION {[F -> Value \cup {Null}] : F \in SUBSET Field}
Nothing == [f \in {} |-> Null]

InFlight == {r \in Request : pc[r] = "commit"}

Init ==
    /\ note \in [Field -> Value]
    /\ trashed = FALSE
    /\ log = <<>>
    /\ op = [r \in Request |-> "none"]
    /\ pc = [r \in Request |-> "idle"]
    /\ seen = [r \in Request |-> note]
    /\ want = [r \in Request |-> Nothing]
    /\ raced = {}

-----------------------------------------------------------------------------
(* Request r starts handler h, loads the row and sets the columns of w.    *)
Begin(r, h, w) ==
    /\ pc[r] = "idle"
    /\ Cardinality(InFlight) < Workers
    /\ op' = [op EXCEPT ![r] = h]
    /\ seen' = [seen EXCEPT ![r] = note]
    /\ want' = [want EXCEPT ![r] = w]
    /\ pc' = [pc EXCEPT ![r] = "commit"]
    /\ UNCHANGED <<row, raced>>

UpdateTrashToo(r, w) == Begin(r, "note_update", w)      \* mutant: no deleted_at filter
UpdateRead(r, w) == ~trashed /\ Begin(r, "note_update", w)

DeleteRead(r) == ~trashed /\ Begin(r, "note_delete", Nothing)

RestoreRead(r) == trashed /\ Begin(r, "note_restore", Nothing)

-----------------------------------------------------------------------------
CommittedUnlogged(r) ==                       \* mutant: log_action after db.commit()
    /\ pc' = [pc EXCEPT ![r] = "answered"]
    /\ raced' = raced \cup (InFlight \ {r})
    /\ UNCHANGED <<log, request>>

(* The transaction of r ends: its audit row is there if it was committed,  *)
(* and everybody else who has loaded the note holds a stale copy.          *)
Committed(r) ==
    /\ pc' = [pc EXCEPT ![r] = "answered"]
    /\ log' = Append(log, r)
    /\ raced' = raced \cup (InFlight \ {r})
    /\ UNCHANGED request

Written(r, f) == f \in DOMAIN want[r] /\ want[r][f] # seen[r][f]

UpdateCommit(r) ==
    /\ pc[r] = "commit"
    /\ op[r] = "note_update"
    /\ \A f \in DOMAIN want[r] : want[r][f] # Null
    /\ note' = [f \in Field |-> IF Written(r, f) THEN want[r][f] ELSE note[f]]
    /\ Committed(r)
    /\ UNCHANGED trashed

TrashCommit(r) ==
    /\ pc[r] = "commit"
    /\ op[r] \in {"note_delete", "note_restore"}
    /\ trashed' = (op[r] = "note_delete")
    /\ Committed(r)
    /\ UNCHANGED note

FailAuditKept(r) ==                           \* mutant: audit row committed on its own
    /\ pc[r] = "commit"
    /\ Faults
    /\ pc' = [pc EXCEPT ![r] = "failed"]
    /\ log' = Append(log, r)
    /\ UNCHANGED <<note, trashed, request, raced>>

(* The handler dies, or the commit fails (as it must on a null): the       *)
(* UPDATE and the audit row are rolled back together.                      *)
Fail(r) ==
    /\ pc[r] = "commit"
    /\ Faults \/ \E f \in DOMAIN want[r] : want[r][f] = Null
    /\ pc' = [pc EXCEPT ![r] = "failed"]
    /\ UNCHANGED <<row, request, raced>>

Next ==
    \E r \in Request :
        \/ \E w \in Updates : UpdateRead(r, w)
        \/ DeleteRead(r)
        \/ RestoreRead(r)
        \/ UpdateCommit(r)
        \/ TrashCommit(r)
        \/ Fail(r)

Spec == Init /\ [][Next]_vars

-----------------------------------------------------------------------------
(* Shape of the state, and that exactly the committed requests are logged. *)
TypeOK ==
    /\ note \in [Field -> Value]
    /\ trashed \in BOOLEAN
    /\ log \in Seq(Request)
    /\ op \in [Request -> Handlers \cup {"none"}]
    /\ pc \in [Request -> {"idle", "commit", "answered", "failed"}]
    /\ seen \in [Request -> [Field -> Value]]
    /\ want \in [Request -> Updates]
    /\ raced \subseteq Request
    /\ \A r \in Request : pc[r] = "answered" <=> \E i \in 1..Len(log) : log[i] = r

(* The i-th entry names column f, and none after it up to the j-th does.   *)
LastNaming(f, i, j) ==
    /\ f \in DOMAIN want[log[i]]
    /\ \A k \in (i+1)..j : f \notin DOMAIN want[log[k]]

(* The audit log of a note can be trusted (audit.py:4-5, notes.py:265-271) *)
(* but for overlapping requests: the newest entry that names a column has  *)
(* its value in the note as "after", and an entry has as "before" what the *)
(* previous one to name the column has as "after", unless one of the       *)
(* requests had loaded the note before another committed.                  *)
AuditFaithful ==
    \A f \in Field : \A i \in 1..Len(log) : log[i] \notin raced =>
        /\ LastNaming(f, i, Len(log)) => note[f] = want[log[i]][f]
        /\ \A j \in (i+1)..Len(log) :
              /\ LastNaming(f, i, j - 1)
              /\ f \in DOMAIN want[log[j]]
              /\ log[j] \notin raced
              => seen[log[j]][f] = want[log[i]][f]

(* The i-th entry is the newest deletion or restore among the first j.     *)
LastTrashing(i, j) ==
    /\ op[log[i]] \in {"note_delete", "note_restore"}
    /\ \A k \in (i+1)..j : op[log[k]] = "note_update"

(* A note in the trash is not edited (the deleted_at filter of             *)
(* notes.py:261), a live one not restored and a deleted one not deleted    *)
(* again, unless the request had loaded the note before another committed. *)
TrashUntouched ==
    \A i, j \in 1..Len(log) :
        /\ i < j
        /\ LastTrashing(i, j - 1)
        /\ log[j] \notin raced
        => op[log[j]] = "note_restore" <=> op[log[i]] = "note_delete"
=============================================================================

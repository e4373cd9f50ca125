\* Updates, deletions and restores of one note overlap and may fail.
CONSTANTS
    Request = {r1, r2, r3, r4}
    Field = {title, content}
    Value = {v1, v2}
    Null = Null
    Workers = 3
    Faults = TRUE
SPECIFICATION Spec
\* Requests are made once: in the end nothing is left to do.
CHECK_DEADLOCK FALSE
SYMMETRY Symmetry
INVARIANTS
    TypeOK
    AuditFaithful
    TrashUntouched

\* Requests of two users overlap and may die half way.
CONSTANTS
    Request = {r1, r2, r3, r4}
    User = {u1, u2}
    None = None
    Workers = 2
    Faults = TRUE
    AUTO_VERIFY_EMAILS = TRUE
SPECIFICATION Spec
SYMMETRY Symmetry
INVARIANTS
    TypeOK
    OldSessionsOnlyByRace
    ReplacementsOnlyByRace
    AuditComplete
PROPERTIES
    Isolation
    ImplementsRows

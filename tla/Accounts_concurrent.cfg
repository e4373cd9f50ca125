\* Registrations, resends, verifications and two administrators overlap.
CONSTANTS
    Request = {r1, r2, r3, r4}
    User = {a1, a2, u}
    Admin = {a1, a2}
    None = None
    Workers = 2
    Faults = TRUE
SPECIFICATION Spec
\* Requests are made once: in the end nothing is left to do.
CHECK_DEADLOCK FALSE
SYMMETRY Symmetry
INVARIANTS
    TypeOK
    OneAccountPerEmail
    WorkingToken
    VerifiedByMail
    UnusedTokensByRace
PROPERTIES
    LockoutExplained

\* A login overlaps a password change.
CONSTANTS
    Request = {r1, r2, r3, r4}
    User = {u1}
    None = None
    Workers = 2
    Faults = FALSE
    AUTO_VERIFY_EMAILS = FALSE
SPECIFICATION Spec
SYMMETRY Symmetry
INVARIANTS
    NoStaleSession

\* A listing computed before a revocation is stored after it.
CONSTANTS
    Request = {r1, r2, r3}
    Owner = owner
    User = {owner, other}
    None = None
    Workers = 2
    Faults = FALSE
SPECIFICATION Spec
SYMMETRY Symmetry
INVARIANTS
    RevokedNotListed

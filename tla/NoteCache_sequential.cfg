\* One request at a time, Redis up.
CONSTANTS
    Request = {r1, r2, r3, r4}
    Owner = owner
    User = {owner, other}
    None = None
    Workers = 1
    Faults = FALSE
SPECIFICATION Spec
SYMMETRY Symmetry
INVARIANTS
    DetailFresh
    ListShowsOnlyReadable
PROPERTIES
    HitAuthorised

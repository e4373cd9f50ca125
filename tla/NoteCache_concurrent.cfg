\* Readers and writers overlap; Redis and handlers may fail; stale entries end.
CONSTANTS
    Request = {r1, r2}
    Owner = owner
    User = {owner, other}
    None = None
    Workers = 2
    Faults = TRUE
SPECIFICATION FairSpec
INVARIANTS
    TypeOK
    StaleExplained
PROPERTIES
    StaleEnds

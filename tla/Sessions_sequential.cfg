\* One request at a time, none of which dies half way; threads keep running.
CONSTANTS
    Request = {r1, r2, r3, r4}
    User = {u1}
    None = None
    Workers = 1
    Faults = FALSE
    AUTO_VERIFY_EMAILS = FALSE
SPECIFICATION FairSpec
INVARIANTS
    NoStaleSession
    ConsumedOnce
    ReuseEndsFamily
    ResetTokenSingleUse
PROPERTIES
    ImplementsTable
    ChangeTakesEffect
    ExpiredPurged

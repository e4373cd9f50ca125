\* Two tabs, two users: answers late, lost and out of order, tokens that expire.
CONSTANTS
    Tab = {t1, t2}
    User = {u1, u2}
    Token = {k1, k2}
    Request = {1, 2, 3}
    None = None
    Faults = TRUE
SPECIFICATION Spec
\* Requests and tokens are used up in the end.
CHECK_DEADLOCK FALSE
SYMMETRY Symmetry
INVARIANTS
    TypeOK
    RightAccount
    ShownExplained
    OwnChangesShown

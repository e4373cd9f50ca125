\* Uploads, deletions, links and the jobs overlap; handlers may fail.
CONSTANTS
    Request = {r1, r2, r3}
    Note = {n1, n2}
    None = None
    Workers = 3
    Faults = TRUE
SPECIFICATION FairSpec
\* Requests are made once: in the end nothing is left to do.
CHECK_DEADLOCK FALSE
INVARIANTS
    TypeOK
    ReferentialIntegrity
    RowHasFile
    FileHasRow
    FilesReachable
    ActiveLinksByRace
PROPERTIES
    ImplementsShelf
    UnblockedTrashPurged

\* Two transfers that share a directory tree; files, links, directories, deltas.
SPECIFICATION Spec
CONSTANTS
    t1 = t1  t2 = t2  a = a  b = b  d = d  e = e
    Transfers = {t1, t2}
    FileIds = {1, 2, 3}
    Places = {a, b}  Occupied = {b}
    Dirs = {d, e}
    Below <- Tree
    Headers <- SmallHeaders
    Unknown = Unknown
    MaxFiles = 2
    MaxFileBytes = 2
    MaxSessionBytes = 2
    MaxTargetBytes = 1
    ChunkBound = 2
INVARIANTS
    StagingTypeOK BudgetKept AccountingExact TreeConsistent
PROPERTIES
    CreatedDirsSwept PublishesWhole

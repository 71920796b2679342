SPECIFICATION FairSpec
CONSTANTS
    t1 = t1  t2 = t2  s1 = s1  s2 = s2  OK = OK  ERROR = ERROR
    None = None
    TraceIds = {t1, t2}
    SpanIds = {s1, s2}
    Times = {1, 2}
    Contents = {OK, ERROR}
    Docs <- MCDocs
    Filters <- MCFilters
    MaxLimit = 1
    Writers = {w1, w2}
    Readers = {r1}
CHECK_DEADLOCK TRUE
INVARIANTS
    TypeOK
    ForeignKeys
    OneOpenTransaction
    ReturnedIsStored
    GetHoldsWholeSave
    ListCountsWholeSaves
PROPERTIES
    RowsKeepIdentity
    SavesAreAtomic
    SavesReturn
    LockIsFreed

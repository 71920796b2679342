SPECIFICATION Spec
CONSTANTS
    None = None  TraceId = TraceId
    s1 = s1  s2 = s2  s3 = s3  gone = gone  d1 = d1
    SpanIds = {s1, s2, s3, gone}
    DocIds = {d1}
    Times = {1, 2}
    Traces <- MCTraces
    FindingLists <- MCFindingLists
INVARIANTS
    TypeOK
    AncestorsAreExact
    ProximityIsExact
    RankingIsFair

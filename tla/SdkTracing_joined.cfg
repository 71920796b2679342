SPECIFICATION Spec
SYMMETRY Names
CONSTANTS
    None = None
    Contexts = {c1, c2}
    Traces = {t1, t2}
    Spans = {s1, s2, s3}
    Strands = {k0, k1}
    Root = k0
    MaxDepth = 3
    MaxListed = 2
    Usage = {"reuse", "endpoint", "worker"}
\* The host program may come to its end.
CHECK_DEADLOCK FALSE
INVARIANTS
    TypeOK
    StatusIsHonest
    StoredIsComplete
    ParentIsStored
    ContextFollowsBlocks
    NeverCrashesHost
    ListedOnce

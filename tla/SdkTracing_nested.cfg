SPECIFICATION Spec
SYMMETRY Names
CONSTANTS
    None = None
    Contexts = {c1, c2}
    Traces = {t1, t2}
    Spans = {s1, s2}
    Strands = {k0}
    Root = k0
    MaxDepth = 4
    MaxListed = 2
    Usage = {"nested"}
\* The host program may come to its end.
CHECK_DEADLOCK FALSE
INVARIANTS
    ParentIsStored

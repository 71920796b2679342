SPECIFICATION Spec
SYMMETRY Names
CONSTANTS
    None = None
    Contexts = {c1}
    Traces = {t1}
    Spans = {s1}
    Strands = {k0, k1}
    Root = k0
    MaxDepth = 2
    MaxListed = 2
    Usage = {"generator", "migrate"}
\* The host program may come to its end.
CHECK_DEADLOCK FALSE
INVARIANTS
    NeverCrashesHost

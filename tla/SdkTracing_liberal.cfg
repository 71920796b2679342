SPECIFICATION Spec
SYMMETRY Names
CONSTANTS
    None = None
    Contexts = {c1, c2}
    Traces = {t1, t2}
    Spans = {s1}
    Strands = {k0, k1}
    Root = k0
    MaxDepth = 3
    MaxListed = 2
    Usage = {"nested", "captured", "detached", "kept", "task", "generator"}
\* The host program may come to its end.
CHECK_DEADLOCK FALSE
INVARIANTS
    ErrorReachesTrace
PROPERTIES
    ErrorsStick

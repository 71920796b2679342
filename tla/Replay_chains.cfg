SPECIFICATION Spec
SYMMETRY Fresh
CONSTANTS
    None = None
    t1 = t1  gone = gone  a = a  b = b
    TraceIds = {t1, r1, r2}
    MintedTraces = {r1, r2}
    SpanIds = {gone, a, b, m1, m2, m3, m4}
    MintedSpans = {m1, m2, m3, m4}
    Names = {"tool", "docs"}
    Captures <- MCCaptures
    Asked <- MCAsked
    Handlers = {h1}
INVARIANTS
    TypeOK
    UnconfirmedKeepsUnsafe
    ReplaysAreAnalysable
    OnlyOverridesResolve
PROPERTIES
    ReplaysAddOnly

SPECIFICATION FairSpec
CONSTANTS
    None = None  Raises = Raises
    t1 = t1  t2 = t2  t3 = t3  t4 = t4  flow = flow  other = other
    stale = stale  retrieval = retrieval
    answer = answer  lookup = lookup  yes = yes  no = no  odd = odd
    TraceIds = {t1, t2, t3, t4}
    Workflows = {flow, other}
    Times = {1, 2, 3, 4, 5, 6, 7, 8}
    Rules = {stale}
    Category <- MCCategory
    Names = {answer, lookup}
    Values = {"small", "large", odd}
    Texts = {"small", "large"}
    Words = {yes, no}
    Docs <- MCDocs
    Cases <- MCCases
    Lookback = 2
    Handlers = {h1}
INVARIANTS
    TypeOK
    BaselineIsPrior
    RulesAgree
    QuietRequestsAgree
    GateIsSound
PROPERTIES
    RequestsEnd

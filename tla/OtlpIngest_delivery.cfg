SPECIFICATION FairSpec
CONSTANTS
    None = None  b1 = b1  b2 = b2  b3 = b3  b4 = b4
    t1 = t1  t2 = t2  t2base64 = t2base64
    s1 = s1  s2 = s2  s3 = s3  s4 = s4  s5 = s5  s5base64 = s5base64
    TraceIds = {t1, t2, t2base64}
    SpanIds = {s1, s2, s3, s4, s5, s5base64}
    Times = {1, 2, 3, 4}
    Contents <- MCContents
    Now = 2
    Batches = {b1, b2, b3, b4}
    Form <- MCForm
    SpansIn <- MCSpansIn
    Base64 <- MCBase64
INVARIANTS
    TypeOK
    WholeTraceIsHonest
    WholeTraceTimes
    GroupsAreWhole
PROPERTIES
    IngestDelivers
    AllDelivered

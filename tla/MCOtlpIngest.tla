---------------------------- MODULE MCOtlpIngest ----------------------------
EXTENDS OtlpIngest, TLC

CONSTANTS b1, b2, b3, b4, t1, t2, t2base64, s1, s2, s3, s4, s5, s5base64

Raw(t, s, start, end, code) ==
    [trace |-> t, span |-> s, start |-> start, end |-> end, code |-> code]

MCContents == [status: Status, end: Times \cup {None}]

\* The ids of t2 and s5 as protobuf has them.  No other id comes by protobuf.
MCBase64 == [i \in TraceIds \cup SpanIds \cup {None} |->
    IF i = t2 THEN t2base64 ELSE IF i = s5 THEN s5base64 ELSE i]

\* t1 comes in one batch, with a span that starts after the server's clock and has
\* no end.  t2 is cut in two: its failed child is exported first, the parent, which
\* started earlier, later.  A third service exports its part of t2 by protobuf, and a
\* fourth batch cannot be read.
MCForm == b1 :> "json" @@ b2 :> "json" @@ b3 :> "protobuf" @@ b4 :> "malformed"

MCSpansIn ==
    b1 :> <<Raw(t1, s1, 3, None, "2"), Raw(None, s4, 1, 4, "2"), Raw(t2, s2, 2, 4, "2"),
            Raw(t1, s3, 1, 4, "1")>> @@
    b2 :> <<Raw(t2, s4, 1, None, "0")>> @@
    b3 :> <<Raw(t2, s5, 3, 4, "STATUS_CODE_ERROR")>> @@
    b4 :> <<Raw(t1, s1, 4, 4, "1")>>

\* The hypothesis of the theorems holds in the runs.
ASSUME SentOnce
=============================================================================

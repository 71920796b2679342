----------------------------- MODULE OtlpIngest -----------------------------
(***************************************************************************)
(* ingest/otlp.py and the POST /v1/traces handler of api/app.py: an OTLP   *)
(* exporter posts batches of spans and posts a batch again until it is     *)
(* answered; the server groups each batch by trace id and saves the groups *)
(* one after the other, each in a transaction of its own (TraceStore shows *)
(* that one save is atomic).  The handler awaits only the request's body,  *)
(* so the conversion and the saves of one request are not interleaved with *)
(* those of another.                                                       *)
(***************************************************************************)
EXTENDS TraceRecords, FiniteSetsExt

CONSTANTS
    Batches,     \* the requests the exporter has to deliver
    Form,        \* how the body of each is encoded
    SpansIn,     \* the raw spans of each batch, in order
    Base64,      \* ids as MessageToDict writes them; JSON has them in hexadecimal
    Now          \* the server's clock

Status == {"UNSET", "OK", "ERROR"}

\* The names are those of protobuf, the numbers those of JSON.
ErrorCodes == {"2", "STATUS_CODE_ERROR", "ERROR"}
OkCodes    == {"1", "STATUS_CODE_OK", "OK"}
Codes      == ErrorCodes \cup OkCodes \cup {"0", "STATUS_CODE_UNSET"}

\* A raw span with its parsed times; end is None for a span without one, and trace for
\* one without a traceId.
RawSpan == [trace: TraceIds \cup {None}, span: SpanIds, start: Times,
            end: Times \cup {None}, code: Codes]

Forms    == {"json", "protobuf", "malformed", "unsupported"}
Readable == {b \in Batches : Form[b] \in {"json", "protobuf"}}

ASSUME ContentsAssumption == Contents = [status: Status, end: Times \cup {None}]
ASSUME FormAssumption     == Form \in [Batches -> Forms]
ASSUME SpansInAssumption  == \A b \in Batches : SpansIn[b] \in Seq(RawSpan)
ASSUME Base64Assumption   == /\ \A t \in TraceIds \cup {None} : Base64[t] \in TraceIds \cup {None}
                             /\ \A s \in SpanIds : Base64[s] \in SpanIds
ASSUME NowAssumption      == Now \in Times

VARIABLES
    traces, spans,   \* the committed tables
    pending,         \* batches with a request on its way
    handling,        \* the request the server is in, and the saves left to do
    acknowledged     \* the batches the exporter knows to be accepted

vars == <<traces, spans, pending, handling, acknowledged>>

-----------------------------------------------------------------------------
(* otlp_json_to_traces *)

\* _span_from_otlp
StatusOfSpan(raw) ==
    IF raw.code \in ErrorCodes THEN "ERROR" ELSE IF raw.code \in OkCodes THEN "OK" ELSE "UNSET"

\* parse_otlp_protobuf
ParseOtlpProtobuf(ss) ==
    [i \in 1..Len(ss) |->
        [trace |-> Base64[ss[i].trace], span |-> Base64[ss[i].span],
         start |-> ss[i].start, end |-> ss[i].end, code |-> ss[i].code]]

\* The spans of a batch by the ids they are stored under.
Payload == [b \in Batches |->
    IF Form[b] = "protobuf" THEN ParseOtlpProtobuf(SpansIn[b]) ELSE SpansIn[b]]

\* Spans without a traceId are skipped.
TracesIn(b) == {Payload[b][i].trace : i \in 1..Len(Payload[b])} \ {None}

\* Mutant of SpansOfTrace: no grouping, only the first span is kept.
FirstSpanOnly(b, t) == {Min({i \in 1..Len(Payload[b]) : Payload[b][i].trace = t})}

\* The places of a trace's spans in a batch, and the spans.
SpansOfTrace(b, t) == {i \in 1..Len(Payload[b]) : Payload[b][i].trace = t}
Group(b, t) == {Payload[b][i] : i \in SpansOfTrace(b, t)}

Ends(ss) == {s.end : s \in ss} \ {None}

\* Mutants of the three: the start is the time of arrival; one span that is well makes
\* the trace well; a missing end is time zero.
ArrivalTime(ss) == Now
BestStatus(ss)  == IF \A s \in ss : StatusOfSpan(s) = "ERROR" THEN "ERROR" ELSE "OK"
EndOrZero(ss)   == IF Ends(ss) = {} THEN 0 ELSE Max(Ends(ss))

\* The Trace of a group is born with the server's time as its start.
StartOf(ss)  == Min({Now} \cup {s.start : s \in ss})
StatusOf(ss) == IF \E s \in ss : StatusOfSpan(s) = "ERROR" THEN "ERROR" ELSE "OK"
EndOf(ss)    == IF Ends(ss) = {} THEN None ELSE Max(Ends(ss))

\* What save_trace is given for a group: the trace, and each of its spans.
TraceDoc(b, t) ==
    [trace   |-> t,
     start   |-> StartOf(Group(b, t)),
     content |-> [status |-> StatusOf(Group(b, t)), end |-> EndOf(Group(b, t))]]

SpanFromOtlp(raw) ==
    [span |-> raw.span, trace |-> raw.trace, start |-> raw.start,
     content |-> [status |-> StatusOfSpan(raw), end |-> raw.end]]

\* What the upserts of the spans of a group, in their order, make of the table
\* (AtomicTraceStore).
UpsertSpans(table, b, t) ==
    [s \in SpanIds |->
        LET at == {i \in SpansOfTrace(b, t) : Payload[b][i].span = s}
        IN  IF at = {} THEN table[s]
            ELSE MergedRow(table[s], SpanFromOtlp(Payload[b][Min(at)]),
                                     SpanFromOtlp(Payload[b][Max(at)]))]

-----------------------------------------------------------------------------

Idle == [batch |-> None, left |-> {}]

Init ==
    /\ traces   = [t \in TraceIds |-> None]
    /\ spans    = [s \in SpanIds |-> None]
    /\ pending  = {}
    /\ handling = Idle
    /\ acknowledged = {}

\* The exporter posts a batch, or posts it again after an error or a timeout: a
\* first copy may then still be on its way or in the handler.
Post(b) ==
    /\ b \notin acknowledged
    /\ pending' = pending \cup {b}
    /\ UNCHANGED <<traces, spans, handling, acknowledged>>

Lose(b) ==
    /\ b \in pending
    /\ pending' = pending \ {b}
    /\ UNCHANGED <<traces, spans, handling, acknowledged>>

\* A body that can be read: all of it is converted before the first save.
Receive(b) ==
    /\ b \in pending \cap Readable
    /\ handling = Idle
    /\ pending' = pending \ {b}
    /\ handling' = [batch |-> b, left |-> TracesIn(b)]
    /\ UNCHANGED <<traces, spans, acknowledged>>

\* A body that cannot be parsed is answered with 400, another content type, or protobuf
\* without its package, with 415.
Refuse(b) ==
    /\ b \in pending \ Readable
    /\ handling = Idle
    /\ pending' = pending \ {b}
    /\ UNCHANGED <<traces, spans, handling, acknowledged>>

\* The groups are saved in the order of the dict: that of each trace's first span.
IsNext(t) ==
    /\ t \in handling.left
    /\ \A u \in handling.left :
          Min(SpansOfTrace(handling.batch, t)) <= Min(SpansOfTrace(handling.batch, u))

\* save_trace on the next group.
SaveGroup(t) ==
    /\ IsNext(t)
    /\ traces' = UpsertTrace(traces, TraceDoc(handling.batch, t))
    /\ spans'  = UpsertSpans(spans, handling.batch, t)
    /\ handling' = [handling EXCEPT !.left = @ \ {t}]
    /\ UNCHANGED <<pending, acknowledged>>

\* The request ends with success, which reaches the exporter or not.
Succeed ==
    /\ handling' = Idle
    /\ acknowledged' \in {acknowledged, acknowledged \cup {handling.batch}}
    /\ UNCHANGED <<traces, spans, pending>>

Respond == handling # Idle /\ handling.left = {} /\ Succeed

\* Mutants of SaveFails: the failed group is skipped; the answer is a success.
SkipGroup ==
    /\ \E t \in handling.left : handling' = [handling EXCEPT !.left = @ \ {t}]
    /\ UNCHANGED <<traces, spans, pending, acknowledged>>
FailWithSuccess == handling.left # {} /\ Succeed

\* A save raises (the database is locked, the disk is full): the groups before it
\* stay saved and the answer is a 500, which to the exporter is no success.
SaveFails ==
    /\ handling.left # {}
    /\ handling' = Idle
    /\ UNCHANGED <<traces, spans, pending, acknowledged>>

Crash ==
    /\ handling # Idle
    /\ handling' = Idle
    /\ UNCHANGED <<traces, spans, pending, acknowledged>>

Next ==
    \/ \E b \in Batches : Post(b) \/ Lose(b) \/ Receive(b) \/ Refuse(b)
    \/ \E t \in TraceIds : SaveGroup(t)
    \/ Respond
    \/ SaveFails
    \/ Crash

Spec == Init /\ [][Next]_vars

\* The exporter keeps posting what is not answered, and neither the network (either
\* way), the server nor the save of any one group fails each time it is tried.
Fairness ==
    /\ \A b \in Readable :
          /\ WF_vars(Post(b))
          /\ SF_vars(Receive(b))
          /\ SF_vars(Respond /\ handling.batch = b /\ b \in acknowledged')
          /\ \A t \in TracesIn(b) :
                SF_vars(SaveGroup(t) /\ handling.batch = b)
    /\ WF_vars((\E t \in TraceIds : SaveGroup(t)) \/ Respond \/ SaveFails)

FairSpec == Spec /\ Fairness

-----------------------------------------------------------------------------
(* What exporters may do about span ids, which they make up *)

\* Span ids of different traces differ, among the spans that are stored.
OneTraceEach ==
    \A b, c \in Readable : \A t \in TracesIn(b), u \in TracesIn(c) :
        \A x \in Group(b, t), y \in Group(c, u) : x.span = y.span => t = u

\* And no span is in two batches.
OneBatchEach ==
    \A b, c \in Readable : \A t \in TracesIn(b), u \in TracesIn(c) :
        \A x \in Group(b, t), y \in Group(c, u) : x.span = y.span => b = c /\ t = u

\* And none is twice in one.
SentOnce ==
    \A b, c \in Readable : \A t \in TracesIn(b), u \in TracesIn(c) :
        \A i \in SpansOfTrace(b, t), j \in SpansOfTrace(c, u) :
            Payload[b][i].span = Payload[c][j].span => b = c /\ i = j

-----------------------------------------------------------------------------
(* Properties *)

TypeOK ==
    /\ traces \in TracesTable
    /\ spans \in SpansTable
    /\ pending \subseteq Batches
    /\ handling.batch \in Batches \cup {None}
    /\ handling.left \subseteq TraceIds
    /\ acknowledged \subseteq Batches

InOneBatch(t) == \E b \in Readable : \A c \in Readable : t \in TracesIn(c) <=> c = b

StoredUnder(raw) == spans[raw.span] # None /\ spans[raw.span].trace = raw.trace

\* The groups of a batch that are in the database, in the trace they name.
Delivered(b) ==
    {t \in TracesIn(b) : b \in Readable /\
        traces[t] # None /\ \A raw \in Group(b, t) : StoredUnder(raw)}

\* What the exporter is promised, although groups are saved one by one and may fail,
\* crash and be repeated half way: groups are delivered whole, what is delivered stays,
\* and a batch is answered with success only when all of it is there (ingest_otlp).
Delivery == INSTANCE BatchDelivery WITH
    Groups       <- [b \in Batches |-> TracesIn(b)],
    Refused      <- Batches \ Readable,
    delivered    <- [b \in Batches |-> Delivered(b)],
    acknowledged <- acknowledged
IngestDelivers == Delivery!Spec

\* A stored trace tells the truth about failure: with an ERROR span it is an ERROR
\* trace, so that filtering by status finds it (otlp_json_to_traces, list_traces).
TellsStatus(t) ==
    \A s \in SpansOf(spans, t) :
        spans[s].content.status = "ERROR" => traces[t].content.status = "ERROR"

StatusIsHonest == \A t \in TraceIds : TellsStatus(t)

\* The times of a stored trace enclose those of its spans.
EnclosesSpans(t) ==
    \A s \in SpansOf(spans, t) :
        /\ traces[t].start <= spans[s].start
        /\ spans[s].content.end # None =>
             /\ traces[t].content.end # None
             /\ traces[t].content.end >= spans[s].content.end

\* A trace that came in one batch, however often that batch was delivered or failed
\* half way, is honest about failure.
WholeTraceIsHonest == \A t \in TraceIds : InOneBatch(t) => TellsStatus(t)

\* Its start is that of its earliest span and its end that of its latest, None without
\* one, so that a duration or an order by start_time taken from the row is that of the
\* execution.  One case is excepted, because the code is otherwise in it: if every span
\* begins after the server's clock, by a client's clock that is ahead, the start of the
\* row is the time of arrival and the duration is too long (otlp_json_to_traces).
WholeTraceTimes ==
    \A t \in TraceIds : InOneBatch(t) /\ traces[t] # None =>
        /\ EnclosesSpans(t)
        /\ (\E s \in SpansOf(spans, t) : spans[s].start <= Now) =>
             \E s \in SpansOf(spans, t) : traces[t].start = spans[s].start
        /\ traces[t].content.end # None =>
             \E s \in SpansOf(spans, t) : traces[t].content.end = spans[s].content.end

\* Whatever was lost, repeated, reordered or half done, a stored trace has all the
\* spans that the batch behind its row has for it, each as the batch has it: only
\* whole groups reach the tables and redelivery changes no span.
GroupsAreWhole ==
    \A t \in TraceIds : traces[t] # None =>
        \E b \in Readable : t \in TracesIn(b) /\
            /\ traces[t].content = TraceDoc(b, t).content
            /\ \A i \in 1..Len(Payload[b]) : Payload[b][i].trace = t =>
                 LET d == SpanFromOtlp(Payload[b][i])
                 IN  spans[d.span] = [trace |-> t, start |-> d.start, content |-> d.content]

\* An exporter that keeps posting gets every batch that can be read stored, but for
\* spans without a traceId.
AllDelivered ==
    \A b \in Readable : <>[](\A t \in TracesIn(b) : \A raw \in Group(b, t) : StoredUnder(raw))
=============================================================================

-------------------------- MODULE AtomicTraceStore --------------------------
(***************************************************************************)
(* What SQLiteTraceStore.save_trace promises its callers: the whole        *)
(* document reaches the database in one step or not at all, and what it    *)
(* leaves behind is described without the order of the statements.         *)
(***************************************************************************)
EXTENDS TraceRecords

CONSTANT Docs   \* the documents that callers save

VARIABLES traces, spans

Init == /\ traces = [t \in TraceIds |-> None]
        /\ spans  = [s \in SpanIds |-> None]

\* What the first n spans of a document make of a table: a span it does not
\* name is untouched; the content is that of the last mention; owner and start
\* are those of the row already there, or else of the first mention.
Mentions(ss, n, s) == {i \in 1..n : ss[i].span = s}

Merged(before, ss, n, after) ==
    \A s \in SpanIds :
        IF Mentions(ss, n, s) = {}
        THEN after[s] = before[s]
        ELSE \E first, last \in Mentions(ss, n, s) :
                /\ \A i \in Mentions(ss, n, s) : first <= i /\ i <= last
                /\ after[s] = MergedRow(before[s], ss[first], ss[last])

SaveWhole(d) ==
    /\ traces' = UpsertTrace(traces, d)
    /\ spans' \in SpansTable
    /\ Merged(spans, d.spans, Len(d.spans), spans')
    /\ Referential(traces', spans')

Next == \E d \in Docs : SaveWhole(d)

Spec == Init /\ [][Next]_<<traces, spans>>
=============================================================================

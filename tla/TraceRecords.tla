---------------------------- MODULE TraceRecords ----------------------------
(***************************************************************************)
(* The two tables of storage/schema.sql and the two upserts that           *)
(* SQLiteTraceStore.save_trace runs against them.                          *)
(*                                                                         *)
(* A document is what one call of save_trace is given: a Trace with its    *)
(* list of Spans.  The columns are kept as far as the upserts treat them   *)
(* differently: the keys, the start time (kept by a conflicting upsert),   *)
(* the owner of a span (kept too), and the remaining columns, which a      *)
(* conflicting upsert overwrites together and which are one "content".     *)
(***************************************************************************)
EXTENDS Integers, Sequences

CONSTANTS
    TraceIds,   \* values of traces.trace_id
    SpanIds,    \* values of spans.span_id, one key space for all traces
    Times,      \* values of start_time, as integers
    Contents,   \* what the overwritten columns hold
    None        \* no row

TraceRow == [start: Times, content: Contents]
SpanRow  == [trace: TraceIds, start: Times, content: Contents]

\* A Span names its own trace_id; nothing in the code makes it the trace_id
\* of the Trace whose list it is in.
SpanDoc == [span: SpanIds, trace: TraceIds, start: Times, content: Contents]
Doc     == [trace: TraceIds, start: Times, content: Contents,
            spans: Seq(SpanDoc)]

ASSUME TimesAssumption == Times \subseteq Int
ASSUME NoneAssumption == None \notin TraceRow /\ None \notin SpanRow

TracesTable == [TraceIds -> TraceRow \cup {None}]
SpansTable  == [SpanIds -> SpanRow \cup {None}]

\* INSERT INTO traces ... ON CONFLICT(trace_id) DO UPDATE: start_time stays.
UpsertTrace(table, d) ==
    [table EXCEPT ![d.trace] =
        [start   |-> IF table[d.trace] = None THEN d.start
                                              ELSE table[d.trace].start,
         content |-> d.content]]

\* Mutants of UpsertSpan: the parameters bound in the wrong order; the conflict
\* branch assigning trace_id too.
UpsertSpanSwapped(table, s) ==
    [table EXCEPT ![s.span] = [trace |-> s.trace, start |-> s.content, content |-> s.start]]

UpsertSpanMoves(table, s) ==
    [table EXCEPT ![s.span] =
        [trace   |-> s.trace,
         start   |-> IF table[s.span] = None THEN s.start ELSE table[s.span].start,
         content |-> s.content]]

\* INSERT INTO spans ... ON CONFLICT(span_id) DO UPDATE: trace_id and
\* start_time stay.
UpsertSpan(table, s) ==
    [table EXCEPT ![s.span] =
        [trace   |-> IF table[s.span] = None THEN s.trace
                                             ELSE table[s.span].trace,
         start   |-> IF table[s.span] = None THEN s.start
                                             ELSE table[s.span].start,
         content |-> s.content]]

\* A row after upserts of a first and a last mention of its key, and any between them.
MergedRow(row, first, last) ==
    [trace   |-> IF row = None THEN first.trace ELSE row.trace,
     start   |-> IF row = None THEN first.start ELSE row.start,
     content |-> last.content]

\* Mutant of ForeignKeyHolds: the pragma is off.
NoForeignKey(traceTable, spanTable, s) == TRUE

\* spans.trace_id REFERENCES traces(trace_id), with PRAGMA foreign_keys = ON.
\* Only an insert assigns the column, so only an insert is checked.
ForeignKeyHolds(traceTable, spanTable, s) ==
    spanTable[s.span] = None => traceTable[s.trace] # None

\* Every span row has its trace row.
Referential(traceTable, spanTable) ==
    \A s \in SpanIds :
        spanTable[s] # None => traceTable[spanTable[s].trace] # None

SpansOf(table, t) == {s \in SpanIds : table[s] # None /\ table[s].trace = t}

SpanIdsIn(d) == {d.spans[i].span : i \in 1..Len(d.spans)}
=============================================================================

----------------------------- MODULE TraceStore -----------------------------
(***************************************************************************)
(* storage/sqlite_store.py: SQLiteTraceStore as several processes and      *)
(* threads use one database file.  A writer is a call of save_trace (from  *)
(* the local exporter, the ingest routes or a replay), which runs one      *)
(* SQLite transaction statement by statement; a reader runs get_trace, two *)
(* statements that no transaction holds together, or list_traces, one.     *)
(***************************************************************************)
EXTENDS TraceRecords, FiniteSets

CONSTANTS
    Docs,        \* the documents that callers save
    Writers, Readers,
    Filters,     \* sets of contents that a WHERE of list_traces can select
    MaxLimit     \* the largest LIMIT and OFFSET explored

ASSUME DocsAssumption == \A d \in Docs : d \in Doc
ASSUME FiltersAssumption == \A f \in Filters : f \subseteq Contents
ASSUME WritersAssumption == None \notin Writers
ASSUME LimitAssumption == MaxLimit \in Nat

VARIABLES
    traces, spans,   \* the committed tables
    lock,            \* the writer that holds the RESERVED lock, or None
    call,            \* per writer: where its save_trace is
    doc,             \* per writer: the document it was given
    done,            \* per writer: how many spans it has upserted
    tx,              \* per writer: the tables as its transaction sees them
    got,             \* per reader: what its get_trace has read or returned
    listed           \* per reader: what its list_traces returned

store  == <<traces, spans>>
writer == <<lock, call, doc, done, tx>>
reader == <<got, listed>>
vars   == <<store, writer, reader>>

Calls == {"idle", "waiting", "open", "saved", "failed"}
Tables == [traces: TracesTable, spans: SpansTable]
Summary == [trace: TraceIds, row: TraceRow, spanCount: Nat]
Reading == [at: {"idle", "row", "done"}, trace: TraceIds \cup {None},
            row: TraceRow \cup {None}, spans: SpansTable]

Empty == [traces |-> [t \in TraceIds |-> None], spans |-> [s \in SpanIds |-> None]]
NoReading == [at |-> "idle", trace |-> None, row |-> None, spans |-> Empty.spans]

Init ==
    /\ traces = Empty.traces
    /\ spans  = Empty.spans
    /\ lock   = None
    /\ call   = [w \in Writers |-> "idle"]
    /\ doc    = [w \in Writers |-> None]
    /\ done   = [w \in Writers |-> 0]
    /\ tx     = [w \in Writers |-> Empty]
    /\ got    = [r \in Readers |-> NoReading]
    /\ listed = [r \in Readers |-> << >>]

-----------------------------------------------------------------------------
(* save_trace *)

SaveTrace(w, d) ==
    /\ call[w] \in {"idle", "saved", "failed"}
    /\ call' = [call EXCEPT ![w] = "waiting"]
    /\ doc'  = [doc EXCEPT ![w] = d]
    /\ UNCHANGED <<store, lock, done, tx, reader>>

\* Mutant of TakeLock: another transaction does not matter.
TakeLockAnyway(w) == lock' = w

TakeLock(w) == lock = None /\ lock' = w

\* The upsert of the trace row opens the transaction and takes the lock.
UpsertTraceRow(w) ==
    /\ call[w] = "waiting"
    /\ TakeLock(w)
    /\ call' = [call EXCEPT ![w] = "open"]
    /\ done' = [done EXCEPT ![w] = 0]
    /\ tx'   = [tx EXCEPT ![w] = [traces |-> UpsertTrace(traces, doc[w]),
                                  spans  |-> spans]]
    /\ UNCHANGED <<store, doc, reader>>

\* Mutant of Busy: no timeout.
WaitForever(w) == FALSE

\* sqlite3's timeout runs out: "database is locked".
Busy(w) ==
    /\ call[w] = "waiting"
    /\ lock # None
    /\ call' = [call EXCEPT ![w] = "failed"]
    /\ UNCHANGED <<store, lock, doc, done, tx, reader>>

UpsertSpanRow(w) ==
    /\ call[w] = "open"
    /\ done[w] < Len(doc[w].spans)
    /\ LET s == doc[w].spans[done[w] + 1]
       IN  /\ ForeignKeyHolds(tx[w].traces, tx[w].spans, s)
           /\ tx' = [tx EXCEPT ![w].spans = UpsertSpan(@, s)]
    /\ done' = [done EXCEPT ![w] = @ + 1]
    /\ UNCHANGED <<store, lock, call, doc, reader>>

\* Mutant of Close: the connection stays open.
ForgetClose(w) ==
    /\ tx'   = [tx EXCEPT ![w] = Empty]
    /\ done' = [done EXCEPT ![w] = 0]
    /\ lock' = lock

\* The connection is closed: its view of the tables is gone, and its lock.
Close(w) ==
    /\ lock' = IF lock = w THEN None ELSE lock
    /\ tx'   = [tx EXCEPT ![w] = Empty]
    /\ done' = [done EXCEPT ![w] = 0]

\* Mutant of AllUpserted: the loop ends one span early.
AllButOneUpserted(w) == done[w] + 1 >= Len(doc[w].spans)

AllUpserted(w) == done[w] = Len(doc[w].spans)

Commit(w) ==
    /\ call[w] = "open"
    /\ AllUpserted(w)
    /\ traces' = tx[w].traces
    /\ spans'  = tx[w].spans
    /\ call'   = [call EXCEPT ![w] = "saved"]
    /\ Close(w)
    /\ UNCHANGED <<doc, reader>>

\* Mutant of Rollback: each statement is on its own.
NoRollback(w) ==
    /\ call[w] = "open"
    /\ traces' = tx[w].traces
    /\ spans'  = tx[w].spans
    /\ call'   = [call EXCEPT ![w] = "failed"]
    /\ Close(w)
    /\ UNCHANGED <<doc, reader>>

\* Any statement, or the commit itself, raises: a foreign key, a full disk, a
\* value json.dumps refuses, a reader that keeps the commit waiting too long.
Rollback(w) ==
    /\ call[w] = "open"
    /\ call' = [call EXCEPT ![w] = "failed"]
    /\ Close(w)
    /\ UNCHANGED <<store, doc, reader>>

\* The process of the writer dies; SQLite undoes what was not committed.
Crash(w) ==
    /\ call[w] \in {"waiting", "open"}
    /\ call' = [call EXCEPT ![w] = "idle"]
    /\ Close(w)
    /\ UNCHANGED <<store, doc, reader>>

-----------------------------------------------------------------------------
(* get_trace and list_traces *)

SelectTrace(r, t) ==
    /\ got[r].at # "row"
    /\ got' = [got EXCEPT ![r] =
                [at    |-> IF traces[t] = None THEN "done" ELSE "row",
                 trace |-> t, row |-> traces[t], spans |-> Empty.spans]]
    /\ listed' = [listed EXCEPT ![r] = << >>]
    /\ UNCHANGED <<store, writer>>

SelectSpans(r) ==
    /\ got[r].at = "row"
    /\ got' = [got EXCEPT ![r].at = "done",
                          ![r].spans = [s \in SpanIds |->
                                IF s \in SpansOf(spans, got[r].trace)
                                THEN spans[s] ELSE None]]
    /\ UNCHANGED <<store, writer, listed>>

\* The second SELECT meets a commit in progress for too long and raises.
SelectBusy(r) ==
    /\ got[r].at = "row"
    /\ lock # None
    /\ got' = [got EXCEPT ![r] = NoReading]
    /\ UNCHANGED <<store, writer, listed>>

SummaryOf(t) == [trace |-> t, row |-> traces[t],
                 spanCount |-> Cardinality(SpansOf(spans, t))]

\* ORDER BY start_time DESC LIMIT n OFFSET k; rows of one start_time come in
\* any order.
ListTraces(r, f, n, k) ==
    LET matching == {t \in TraceIds : traces[t] # None /\ traces[t].content \in f}
        total    == Cardinality(matching)
        page     == IF total <= k THEN 0
                    ELSE IF total - k < n THEN total - k ELSE n
    IN  /\ got[r].at # "row"
        /\ \E order \in [1..total -> matching] :
             /\ \A i, j \in 1..total :
                  i < j => /\ order[i] # order[j]
                           /\ traces[order[i]].start >= traces[order[j]].start
             /\ listed' = [listed EXCEPT ![r] =
                             [i \in 1..page |-> SummaryOf(order[i + k])]]
        /\ got' = [got EXCEPT ![r] = NoReading]
        /\ UNCHANGED <<store, writer>>

-----------------------------------------------------------------------------

WriterNext(w) ==
    \/ \E d \in Docs : SaveTrace(w, d)
    \/ UpsertTraceRow(w)
    \/ Busy(w)
    \/ UpsertSpanRow(w)
    \/ Commit(w)
    \/ Rollback(w)
    \/ Crash(w)

ReaderNext(r) ==
    \/ \E t \in TraceIds : SelectTrace(r, t)
    \/ SelectSpans(r)
    \/ SelectBusy(r)
    \/ \E f \in Filters, n, k \in 0..MaxLimit : ListTraces(r, f, n, k)

Next == (\E w \in Writers : WriterNext(w)) \/ (\E r \in Readers : ReaderNext(r))

Spec == Init /\ [][Next]_vars

\* A call that has started goes on: the interpreter schedules its thread, and
\* sqlite3's timeout bounds the wait for the lock.  Nothing makes a caller
\* start a save, fail or crash.
Fairness == \A w \in Writers :
                WF_vars(UpsertTraceRow(w) \/ Busy(w) \/ UpsertSpanRow(w)
                            \/ Commit(w) \/ Rollback(w))

FairSpec == Spec /\ Fairness

-----------------------------------------------------------------------------
(* Properties *)

\* The tables and the states of the calls have the types the code gives them.
TypeOK ==
    /\ traces \in TracesTable
    /\ spans \in SpansTable
    /\ lock \in Writers \cup {None}
    /\ call \in [Writers -> Calls]
    /\ doc \in [Writers -> Docs \cup {None}]
    /\ \A w \in Writers : call[w] \in {"waiting", "open", "saved"} => doc[w] \in Docs
    /\ done \in [Writers -> Nat]
    /\ tx \in [Writers -> Tables]
    /\ got \in [Readers -> Reading]
    /\ \A r \in Readers : got[r].at = "row" => got[r].trace \in TraceIds

\* Every stored span belongs to a stored trace, although the conflict branch of
\* the span upsert never looks at the trace the document names (save_trace).
ForeignKeys == Referential(traces, spans)

\* Only the holder of the lock has a transaction open, and its private tables
\* start from the committed ones: no save overwrites another save's commit with
\* what it read before it (save_trace, _connect).
OneOpenTransaction ==
    \A w \in Writers :
        call[w] = "open" => /\ lock = w
                            /\ \A s \in SpanIds \ SpanIdsIn(doc[w]) : tx[w].spans[s] = spans[s]
                            /\ \A t \in TraceIds \ {doc[w].trace} : tx[w].traces[t] = traces[t]

\* When save_trace returns, the trace and every span of the document are in the
\* database, and no later save or crash takes them out.
ReturnedIsStored ==
    \A w \in Writers : call[w] = "saved" =>
        /\ traces[doc[w].trace] # None
        /\ \A s \in SpanIdsIn(doc[w]) : spans[s] # None

\* No sequence of saves removes a row, moves a trace or a span in time, or gives
\* a span to another trace: the columns the two upserts leave out.
KeepsIdentity ==
    /\ \A t \in TraceIds : traces[t] # None =>
          traces'[t] # None /\ traces'[t].start = traces[t].start
    /\ \A s \in SpanIds : spans[s] # None =>
          /\ spans'[s] # None
          /\ spans'[s].trace = spans[s].trace
          /\ spans'[s].start = spans[s].start
RowsKeepIdentity == [][KeepsIdentity]_vars

\* get_trace reads row and spans in two statements and may mix two saves of one
\* trace, but what it returns holds at least one whole save: the row's content is
\* that of a document all of whose spans it returns, except those whose id
\* another trace already owned.
HoldsWholeSave(table, t, content, returned) ==
    \E d \in Docs :
        /\ d.trace = t
        /\ d.content = content
        /\ \A s \in SpanIdsIn(d) :
              table[s] # None /\ (table[s].trace = t => s \in returned)

GetHoldsWholeSave ==
    \A r \in Readers : got[r].at = "done" /\ got[r].row # None =>
        HoldsWholeSave(spans, got[r].trace, got[r].row.content,
                       SpansOf(got[r].spans, got[r].trace))

\* The span count list_traces shows next to a trace is never that of a save half
\* done.
ListCountsWholeSaves ==
    \A r \in Readers : \A i \in 1..Len(listed[r]) :
        LET entry == listed[r][i]
        IN  \E d \in Docs :
              /\ d.trace = entry.trace
              /\ d.content = entry.row.content
              /\ \A s \in SpanIdsIn(d) : spans[s] # None
              /\ entry.spanCount >=
                   Cardinality(SpanIdsIn(d) \cap SpansOf(spans, entry.trace))

\* Every save appears at one instant and whole, or never: the statements of
\* save_trace implement the atomic store.
Atomic == INSTANCE AtomicTraceStore WITH Docs <- Docs, traces <- traces, spans <- spans
SavesAreAtomic == Atomic!Spec

\* A save that was called comes back to its caller, stored or failed, and the
\* lock does not stay with a call that is over.
SavesReturn == \A w \in Writers : (call[w] \in {"waiting", "open"}) ~> (call[w] \notin {"waiting", "open"})
LockIsFreed == \A w \in Writers : (lock = w) ~> (lock # w)
=============================================================================

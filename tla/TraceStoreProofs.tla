-------------------------- MODULE TraceStoreProofs --------------------------
(***************************************************************************)
(* Theorems of TraceStore for every set of traces, spans, documents,       *)
(* writers and readers.                                                    *)
(***************************************************************************)
EXTENDS TraceStore, FiniteOrders

-----------------------------------------------------------------------------
(* The upserts *)

LEMMA DocFields ==
    ASSUME NEW d \in Docs
    PROVE  /\ d.trace \in TraceIds /\ d.start \in Times /\ d.content \in Contents
           /\ d.spans \in Seq(SpanDoc)
           /\ Len(d.spans) \in Nat
           /\ \A i \in 1..Len(d.spans) : d.spans[i] \in SpanDoc
BY DocsAssumption DEF Doc

LEMMA UpsertTraceType ==
    ASSUME NEW table \in TracesTable, NEW d \in Docs
    PROVE  UpsertTrace(table, d) \in TracesTable
BY DocFields DEF UpsertTrace, TracesTable, TraceRow

LEMMA UpsertSpanType ==
    ASSUME NEW table \in SpansTable, NEW s \in SpanDoc
    PROVE  UpsertSpan(table, s) \in SpansTable
BY DEF UpsertSpan, SpansTable, SpanRow, SpanDoc

\* An upsert leaves a row where it was called, and a row stays a row.
LEMMA UpsertTraceKeeps ==
    ASSUME NEW table \in TracesTable, NEW d \in Docs
    PROVE  /\ UpsertTrace(table, d)[d.trace] # None
           /\ UpsertTrace(table, d)[d.trace].content = d.content
           /\ \A t \in TraceIds : t # d.trace => UpsertTrace(table, d)[t] = table[t]
           /\ \A t \in TraceIds : table[t] # None =>
                 /\ UpsertTrace(table, d)[t] # None
                 /\ UpsertTrace(table, d)[t].start = table[t].start
<1> DEFINE new == [start   |-> IF table[d.trace] = None THEN d.start
                                                        ELSE table[d.trace].start,
                   content |-> d.content]
<1>1. d.trace \in TraceIds /\ new \in TraceRow
  BY DocFields DEF TracesTable, TraceRow
<1>2. UpsertTrace(table, d) = [table EXCEPT ![d.trace] = new]
  BY DEF UpsertTrace
<1>3. new # None
  BY <1>1, NoneAssumption
<1> QED
  BY <1>1, <1>2, <1>3 DEF TracesTable

LEMMA UpsertSpanKeeps ==
    ASSUME NEW table \in SpansTable, NEW s \in SpanDoc
    PROVE  /\ UpsertSpan(table, s)[s.span] # None
           /\ \A i \in SpanIds : i # s.span => UpsertSpan(table, s)[i] = table[i]
           /\ \A i \in SpanIds : table[i] # None =>
                 /\ UpsertSpan(table, s)[i] # None
                 /\ UpsertSpan(table, s)[i].trace = table[i].trace
           /\ table[s.span] = None => UpsertSpan(table, s)[s.span].trace = s.trace
<1> DEFINE new ==
      [trace   |-> IF table[s.span] = None THEN s.trace ELSE table[s.span].trace,
       start   |-> IF table[s.span] = None THEN s.start ELSE table[s.span].start,
       content |-> s.content]
<1>1. s.span \in SpanIds /\ new \in SpanRow
  BY DEF SpansTable, SpanRow, SpanDoc
<1>2. UpsertSpan(table, s) = [table EXCEPT ![s.span] = new]
  BY DEF UpsertSpan
<1>3. new # None
  BY <1>1, NoneAssumption
<1> QED
  BY <1>1, <1>2, <1>3 DEF SpansTable

\* A span upsert that the foreign key allows keeps every span with its trace.
LEMMA UpsertSpanReferential ==
    ASSUME NEW traceTable \in TracesTable, NEW table \in SpansTable,
           NEW s \in SpanDoc,
           Referential(traceTable, table),
           ForeignKeyHolds(traceTable, table, s)
    PROVE  Referential(traceTable, UpsertSpan(table, s))
BY UpsertSpanKeeps DEF Referential, ForeignKeyHolds, SpanDoc

\* The trace upsert, which deletes nothing, does so too.
LEMMA UpsertTraceReferential ==
    ASSUME NEW traceTable \in TracesTable, NEW table \in SpansTable,
           NEW d \in Docs, Referential(traceTable, table)
    PROVE  Referential(UpsertTrace(traceTable, d), table)
BY UpsertTraceKeeps DEF Referential, SpansTable, SpanRow

-----------------------------------------------------------------------------
(* Statement by statement is the same as all at once *)

LEMMA MergedNone ==
    ASSUME NEW before, NEW ss
    PROVE  Atomic!Merged(before, ss, 0, before)
BY DEF Atomic!Merged, Atomic!Mentions

LEMMA MergedOneMore ==
    ASSUME NEW before \in SpansTable, NEW table \in SpansTable,
           NEW ss \in Seq(SpanDoc), NEW n \in Nat, n < Len(ss),
           Atomic!Merged(before, ss, n, table)
    PROVE  Atomic!Merged(before, ss, n + 1, UpsertSpan(table, ss[n + 1]))
<1> DEFINE m == n + 1
           u == ss[m]
           M(k, s) == Atomic!Mentions(ss, k, s)
           new == UpsertSpan(table, u)
<1>1. u \in SpanDoc /\ u.span \in SpanIds
  <2>1. m \in 1..Len(ss)
    OBVIOUS
  <2>2. ss[m] \in SpanDoc
    BY <2>1
  <2> QED
    BY <2>2 DEF SpanDoc
<1>2. SUFFICES ASSUME NEW s \in SpanIds
               PROVE  IF M(m, s) = {}
                      THEN new[s] = before[s]
                      ELSE \E first, last \in M(m, s) :
                              /\ \A i \in M(m, s) : first <= i /\ i <= last
                              /\ new[s] = Atomic!MergedRow(before[s], ss[first], ss[last])
  BY DEF Atomic!Merged
<1>3. IF M(n, s) = {}
      THEN table[s] = before[s]
      ELSE \E first, last \in M(n, s) :
              /\ \A i \in M(n, s) : first <= i /\ i <= last
              /\ table[s] = Atomic!MergedRow(before[s], ss[first], ss[last])
  BY DEF Atomic!Merged
<1>4. CASE s # u.span
  <2>1. M(m, s) = M(n, s)
    BY <1>4 DEF Atomic!Mentions
  <2>2. new[s] = table[s]
    BY <1>1, <1>4, UpsertSpanKeeps
  <2> QED
    BY <1>3, <2>1, <2>2
<1>5. CASE s = u.span
  <2>1. M(m, s) = M(n, s) \cup {m} /\ m \in M(m, s) /\ \A i \in M(n, s) : i < m
    BY <1>5 DEF Atomic!Mentions
  <2>2. new[s] = Atomic!MergedRow(table[s], u, u)
    BY <1>1, <1>5 DEF UpsertSpan, SpansTable, Atomic!MergedRow
  <2>3. CASE M(n, s) = {}
    <3>1. new[s] = Atomic!MergedRow(before[s], ss[m], ss[m])
      BY <1>3, <2>2, <2>3
    <3>2. M(m, s) = {m} /\ m <= m
      BY <2>1, <2>3
    <3> QED
      BY <3>1, <3>2
  <2>4. CASE M(n, s) # {}
    <3>1. PICK first \in M(n, s), last \in M(n, s) :
            /\ \A i \in M(n, s) : first <= i /\ i <= last
            /\ table[s] = Atomic!MergedRow(before[s], ss[first], ss[last])
      BY <1>3, <2>4
    <3>2. first \in 1..Len(ss) /\ last \in 1..Len(ss)
      BY DEF Atomic!Mentions
    <3>3. Atomic!MergedRow(before[s], ss[first], ss[last]) \in SpanRow
      <4>1. ss[first] \in SpanDoc /\ ss[last] \in SpanDoc /\ before[s] \in SpanRow \cup {None}
        BY <3>2 DEF SpansTable
      <4> QED
        BY <4>1 DEF SpanDoc, SpanRow, Atomic!MergedRow
    <3>4. table[s] # None
      BY <3>1, <3>3, NoneAssumption
    <3>5. new[s] = Atomic!MergedRow(before[s], ss[first], ss[m])
      BY <2>2, <3>1, <3>4 DEF Atomic!MergedRow
    <3>6. first \in M(m, s) /\ \A i \in M(m, s) : first <= i /\ i <= m
      BY <2>1, <3>1 DEF Atomic!Mentions
    <3> QED
      BY <2>1, <3>5, <3>6
  <2> QED
    BY <2>3, <2>4
<1> QED
  BY <1>4, <1>5
-----------------------------------------------------------------------------
(* Types *)

\* TypeOK holds in every reachable state of the store and its callers.
THEOREM TypeCorrect == Spec => []TypeOK
<1>1. Init => TypeOK
  BY DEF Init, TypeOK, Empty, NoReading, TracesTable, SpansTable, Calls, Tables, Reading
<1>2. TypeOK /\ [Next]_vars => TypeOK'
  <2> SUFFICES ASSUME TypeOK, [Next]_vars
               PROVE  TypeOK'
    OBVIOUS
  <2> USE DEF TypeOK
  <2>1. ASSUME NEW w \in Writers, NEW d \in Docs, SaveTrace(w, d)
        PROVE  TypeOK'
    BY <2>1 DEF SaveTrace, store, reader, Calls
  <2>2. ASSUME NEW w \in Writers, UpsertTraceRow(w)
        PROVE  TypeOK'
    <3>1. doc[w] \in Docs
      BY <2>2 DEF UpsertTraceRow
    <3>2. [traces |-> UpsertTrace(traces, doc[w]), spans |-> spans] \in Tables
      BY <3>1, UpsertTraceType DEF Tables
    <3> QED
      BY <2>2, <3>1, <3>2 DEF UpsertTraceRow, TakeLock, store, reader, Calls
  <2>3. ASSUME NEW w \in Writers, Busy(w)
        PROVE  TypeOK'
    BY <2>3 DEF Busy, store, reader, Calls
  <2>4. ASSUME NEW w \in Writers, UpsertSpanRow(w)
        PROVE  TypeOK'
    <3> DEFINE s == doc[w].spans[done[w] + 1]
    <3>1. tx[w] \in Tables /\ done[w] \in Nat
      OBVIOUS
    <3>2. doc[w] \in Docs
      BY <2>4 DEF UpsertSpanRow
    <3>3. s \in SpanDoc
      BY <2>4, <3>1, <3>2, DocFields DEF UpsertSpanRow
    <3>4. UpsertSpan(tx[w].spans, s) \in SpansTable
      BY <3>1, <3>3, UpsertSpanType DEF Tables
    <3>5. [tx[w] EXCEPT !.spans = UpsertSpan(tx[w].spans, s)] \in Tables
      BY <3>1, <3>4 DEF Tables
    <3>6. tx' = [tx EXCEPT ![w] = [tx[w] EXCEPT !.spans = UpsertSpan(tx[w].spans, s)]]
      BY <2>4 DEF UpsertSpanRow
    <3> QED
      BY <2>4, <3>1, <3>5, <3>6 DEF UpsertSpanRow, store, reader
  <2>5. ASSUME NEW w \in Writers, Close(w)
        PROVE  /\ lock' \in Writers \cup {None}
               /\ tx' \in [Writers -> Tables]
               /\ done' \in [Writers -> Nat]
    BY <2>5 DEF Close, Empty, Tables, TracesTable, SpansTable
  <2>6. ASSUME NEW w \in Writers, Commit(w)
        PROVE  TypeOK'
    <3>1. tx[w].traces \in TracesTable /\ tx[w].spans \in SpansTable
      BY DEF Tables
    <3> QED
      BY <2>5, <2>6, <3>1 DEF Commit, reader, Calls
  <2>7. ASSUME NEW w \in Writers, Rollback(w)
        PROVE  TypeOK'
    BY <2>5, <2>7 DEF Rollback, store, reader, Calls
  <2>8. ASSUME NEW w \in Writers, Crash(w)
        PROVE  TypeOK'
    BY <2>5, <2>8 DEF Crash, store, reader, Calls
  <2>9. ASSUME NEW r \in Readers, NEW t \in TraceIds, SelectTrace(r, t)
        PROVE  TypeOK'
    <3>1. traces[t] \in TraceRow \cup {None} /\ Empty.spans \in SpansTable
      BY DEF TracesTable, SpansTable, Empty
    <3> QED
      BY <2>9, <3>1 DEF SelectTrace, store, writer, Reading
  <2>10. ASSUME NEW r \in Readers, SelectSpans(r)
         PROVE  TypeOK'
    <3>1. [s \in SpanIds |-> IF s \in SpansOf(spans, got[r].trace)
                             THEN spans[s] ELSE None] \in SpansTable
      BY DEF SpansTable
    <3> QED
      BY ZenonT(40), <2>10, <3>1 DEF SelectSpans, store, writer, Reading
  <2>11. NoReading \in Reading /\ NoReading.at # "row"
    BY DEF NoReading, Reading, Empty, SpansTable
  <2>12. ASSUME NEW r \in Readers, SelectBusy(r)
         PROVE  TypeOK'
    BY <2>11, <2>12 DEF SelectBusy, store, writer
  <2>13. ASSUME NEW r \in Readers, NEW f \in Filters, NEW n \in 0..MaxLimit,
                NEW k \in 0..MaxLimit, ListTraces(r, f, n, k)
         PROVE  TypeOK'
    BY <2>11, <2>13 DEF ListTraces, store, writer
  <2>14. CASE UNCHANGED vars
    BY <2>14 DEF vars, store, writer, reader
  <2> QED
    BY <2>1, <2>2, <2>3, <2>4, <2>6, <2>7, <2>8, <2>9, <2>10, <2>12, <2>13, <2>14
       DEF Next, WriterNext, ReaderNext
<1> QED
  BY <1>1, <1>2, PTL DEF Spec
-----------------------------------------------------------------------------
(* The inductive invariant *)

\* An open transaction holds the lock, and its private tables are what the
\* statements so far make of the committed ones.
TxFollows(w) ==
    call[w] = "open" =>
        /\ lock = w
        /\ done[w] <= Len(doc[w].spans)
        /\ tx[w].traces = UpsertTrace(traces, doc[w])
        /\ Atomic!Merged(spans, doc[w].spans, done[w], tx[w].spans)
        /\ Referential(tx[w].traces, tx[w].spans)

IInv == TypeOK /\ ForeignKeys /\ \A w \in Writers : TxFollows(w)

LEMMA IInvInit == Init => IInv
<1> SUFFICES ASSUME Init
             PROVE  IInv
  OBVIOUS
<1>1. TypeOK
  BY DEF Init, TypeOK, Empty, NoReading, TracesTable, SpansTable, Calls, Tables, Reading
<1>2. ForeignKeys
  BY DEF Init, Empty, ForeignKeys, Referential
<1>3. \A w \in Writers : TxFollows(w)
  BY DEF Init, TxFollows
<1> QED
  BY <1>1, <1>2, <1>3 DEF IInv

\* A step that leaves the tables and a call's transaction alone keeps it.
LEMMA TxFollowsStays ==
    ASSUME NEW w \in Writers, TxFollows(w), UNCHANGED store,
           call'[w] = "open" =>
              /\ call[w] = "open" /\ lock' = lock
              /\ doc'[w] = doc[w] /\ done'[w] = done[w] /\ tx'[w] = tx[w]
    PROVE  TxFollows(w)'
<1> SUFFICES ASSUME call'[w] = "open"
             PROVE  TxFollows(w)'
  BY DEF TxFollows
<1>1. call[w] = "open" /\ traces' = traces /\ spans' = spans
  BY DEF store
<1>2. lock' = w /\ done'[w] <= Len(doc'[w].spans)
  BY <1>1 DEF TxFollows
<1>3. tx'[w].traces = UpsertTrace(traces', doc'[w])
  BY <1>1 DEF TxFollows
<1>4. Atomic!Merged(spans', doc'[w].spans, done'[w], tx'[w].spans)
  BY <1>1 DEF TxFollows
<1>5. Referential(tx'[w].traces, tx'[w].spans)
  BY <1>1 DEF TxFollows
<1> QED
  BY <1>2, <1>3, <1>4, <1>5 DEF TxFollows

\* While one call holds the lock no other has a transaction.
LEMMA OthersAreClosed ==
    ASSUME \A w \in Writers : TxFollows(w), NEW v \in Writers, lock \in {v, None}
    PROVE  \A w \in Writers \ {v} : call[w] # "open"
BY WritersAssumption DEF TxFollows

LEMMA IInvNext ==
    ASSUME IInv, TypeOK', [Next]_vars
    PROVE  IInv'
<1> USE DEF IInv
<1>1. SUFFICES ForeignKeys' /\ \A w \in Writers : TxFollows(w)'
  OBVIOUS
<1>2. ASSUME UNCHANGED store
      PROVE  ForeignKeys'
  BY <1>2 DEF store, ForeignKeys, Referential
<1>3. ASSUME NEW v \in Writers, NEW d \in Docs, SaveTrace(v, d)
      PROVE  ForeignKeys' /\ \A w \in Writers : TxFollows(w)'
  <2>1. UNCHANGED <<store, lock, done, tx>> /\ call' = [call EXCEPT ![v] = "waiting"]
        /\ doc' = [doc EXCEPT ![v] = d]
    BY <1>3 DEF SaveTrace
  <2>2. ASSUME NEW w \in Writers
        PROVE  TxFollows(w)'
    BY <2>1, TxFollowsStays DEF TypeOK
  <2> QED
    BY <1>2, <2>1, <2>2
<1>4. ASSUME NEW v \in Writers, UpsertTraceRow(v)
      PROVE  ForeignKeys' /\ \A w \in Writers : TxFollows(w)'
  <2> USE <1>4 DEF UpsertTraceRow, TakeLock
  <2>1. doc[v] \in Docs /\ traces \in TracesTable /\ spans \in SpansTable
    BY DEF TypeOK
  <2>2. /\ call'[v] = "open" /\ lock' = v /\ done'[v] = 0 /\ doc' = doc
        /\ tx'[v].traces = UpsertTrace(traces, doc[v]) /\ tx'[v].spans = spans
        /\ traces' = traces /\ spans' = spans
    BY DEF TypeOK, store
  <2>3. TxFollows(v)'
    <3>1. Referential(tx'[v].traces, tx'[v].spans)
      BY <2>1, <2>2, UpsertTraceReferential DEF ForeignKeys
    <3>2. Atomic!Merged(spans', doc'[v].spans, done'[v], tx'[v].spans)
      BY <2>2, MergedNone
    <3>3. 0 <= Len(doc[v].spans)
      BY <2>1, DocFields
    <3>4. tx'[v].traces = UpsertTrace(traces', doc'[v])
      BY <2>2
    <3> QED
      BY <2>2, <3>1, <3>2, <3>3, <3>4 DEF TxFollows
  <2>4. ASSUME NEW w \in Writers \ {v}
        PROVE  TxFollows(w)'
    <3>1. call[w] # "open"
      BY OthersAreClosed
    <3>2. call'[w] = call[w]
      BY DEF TypeOK
    <3> QED
      BY <3>1, <3>2 DEF TxFollows
  <2> QED
    BY <1>2, <2>3, <2>4
<1>5. ASSUME NEW v \in Writers, Busy(v)
      PROVE  ForeignKeys' /\ \A w \in Writers : TxFollows(w)'
  <2>1. UNCHANGED <<store, lock, doc, done, tx>> /\ call' = [call EXCEPT ![v] = "failed"]
    BY <1>5 DEF Busy
  <2>2. ASSUME NEW w \in Writers
        PROVE  TxFollows(w)'
    BY <2>1, TxFollowsStays DEF TypeOK
  <2> QED
    BY <1>2, <2>1, <2>2
<1>6. ASSUME NEW v \in Writers, UpsertSpanRow(v)
      PROVE  ForeignKeys' /\ \A w \in Writers : TxFollows(w)'
  <2> USE <1>6 DEF UpsertSpanRow
  <2> DEFINE n == done[v]
             ss == doc[v].spans
             s  == ss[n + 1]
  <2>1. /\ doc[v] \in Docs /\ n \in Nat /\ n < Len(ss) /\ ss \in Seq(SpanDoc)
        /\ s \in SpanDoc /\ spans \in SpansTable
        /\ tx[v].traces \in TracesTable /\ tx[v].spans \in SpansTable
    <3>1. doc[v] \in Docs /\ n \in Nat /\ tx[v] \in Tables /\ spans \in SpansTable
      BY DEF TypeOK
    <3> QED
      BY <3>1, DocFields DEF Tables
  <2>2. /\ tx'[v].traces = tx[v].traces
        /\ tx'[v].spans = UpsertSpan(tx[v].spans, s)
        /\ done'[v] = n + 1 /\ doc' = doc /\ lock' = lock /\ call' = call
        /\ traces' = traces /\ spans' = spans
    BY DEF TypeOK, Tables, store
  <2>3. TxFollows(v)'
    <3>1. Referential(tx'[v].traces, tx'[v].spans)
      BY <2>1, <2>2, UpsertSpanReferential DEF TxFollows
    <3>2. Atomic!Merged(spans, ss, n + 1, tx'[v].spans)
      BY <2>1, <2>2, MergedOneMore DEF TxFollows
    <3>3. n + 1 <= Len(ss)
      BY <2>1, DocFields
    <3>4. lock = v /\ tx[v].traces = UpsertTrace(traces, doc[v])
      BY DEF TxFollows
    <3>5. Atomic!Merged(spans', doc'[v].spans, done'[v], tx'[v].spans)
      BY <2>2, <3>2
    <3>6. tx'[v].traces = UpsertTrace(traces', doc'[v])
      BY <2>2, <3>4
    <3>7. lock' = v /\ done'[v] <= Len(doc'[v].spans)
      BY <2>2, <3>3, <3>4
    <3> QED
      BY <3>1, <3>5, <3>6, <3>7 DEF TxFollows
  <2>4. ASSUME NEW w \in Writers \ {v}
        PROVE  TxFollows(w)'
    BY <2>2, TxFollowsStays DEF TypeOK, store
  <2> QED
    BY <1>2, <2>3, <2>4
<1>7. ASSUME NEW v \in Writers, Commit(v)
      PROVE  ForeignKeys' /\ \A w \in Writers : TxFollows(w)'
  <2>1. ForeignKeys'
    <3>1. Referential(tx[v].traces, tx[v].spans)
      BY <1>7 DEF Commit, TxFollows
    <3> QED
      BY <1>7, <3>1 DEF Commit, ForeignKeys, Referential
  <2>2. \A w \in Writers \ {v} : call[w] # "open"
    BY <1>7, OthersAreClosed DEF Commit, TxFollows
  <2>3. \A w \in Writers : call'[w] # "open"
    BY <1>7, <2>2 DEF Commit, TypeOK
  <2> QED
    BY <2>1, <2>3 DEF TxFollows
<1>8. ASSUME NEW v \in Writers, Rollback(v) \/ Crash(v)
      PROVE  ForeignKeys' /\ \A w \in Writers : TxFollows(w)'
  <2>1. UNCHANGED <<store, doc>> /\ call'[v] # "open"
    BY <1>8 DEF Rollback, Crash, TypeOK
  <2>2. ASSUME NEW w \in Writers \ {v}
        PROVE  TxFollows(w)'
    <3>1. call'[w] = call[w] /\ doc'[w] = doc[w] /\ done'[w] = done[w] /\ tx'[w] = tx[w]
      BY <1>8 DEF Rollback, Crash, Close, TypeOK
    <3>2. call[w] = "open" => lock' = lock
      BY <1>8, WritersAssumption DEF Rollback, Crash, Close, TxFollows
    <3> QED
      BY <2>1, <3>1, <3>2, TxFollowsStays
  <2> QED
    BY <1>2, <2>1, <2>2 DEF TxFollows
<1>9. ASSUME UNCHANGED <<store, writer>>
      PROVE  ForeignKeys' /\ \A w \in Writers : TxFollows(w)'
  <2>1. UNCHANGED <<store, lock, call, doc, done, tx>>
    BY <1>9 DEF writer
  <2>2. ASSUME NEW w \in Writers
        PROVE  TxFollows(w)'
    BY <2>1, TxFollowsStays
  <2> QED
    BY <1>2, <2>1, <2>2
<1>10. ASSUME NEW r \in Readers, ReaderNext(r)
       PROVE  UNCHANGED <<store, writer>>
  BY <1>10 DEF ReaderNext, SelectTrace, SelectSpans, SelectBusy, ListTraces
<1>11. CASE UNCHANGED vars
  BY <1>9, <1>11 DEF vars
<1> QED
  BY <1>3, <1>4, <1>5, <1>6, <1>7, <1>8, <1>9, <1>10, <1>11 DEF Next, WriterNext

\* The invariant the theorems below rest on.
THEOREM StoreInvariant == Spec => []IInv
<1>1. IInv /\ TypeOK' /\ [Next]_vars => IInv'
  BY IInvNext
<1> QED
  BY <1>1, IInvInit, TypeCorrect, PTL DEF Spec

\* No stored span is without its trace, whatever documents are saved.
THEOREM ForeignKeysHold == Spec => []ForeignKeys
<1>1. IInv => ForeignKeys
  BY DEF IInv
<1> QED
  BY <1>1, StoreInvariant, PTL

-----------------------------------------------------------------------------
(* The statements of save_trace implement the atomic store *)

\* The atomic store has the tables and upserts of this one.
LEMMA SameTables ==
    /\ Atomic!SpansTable = SpansTable
    /\ \A table, d : Atomic!UpsertTrace(table, d) = UpsertTrace(table, d)
    /\ \A ts, ss : Atomic!Referential(ts, ss) = Referential(ts, ss)
BY DEF Atomic!SpansTable, SpansTable, Atomic!SpanRow, SpanRow, Atomic!UpsertTrace,
       UpsertTrace, Atomic!Referential, Referential

\* Only a commit changes the committed tables, and then by a whole document.
LEMMA StepIsAtomic ==
    ASSUME IInv, IInv', [Next]_vars
    PROVE  [Atomic!Next]_store
<1>1. CASE \E w \in Writers : Commit(w)
  <2>1. PICK w \in Writers : Commit(w)
    BY <1>1
  <2> USE <2>1 DEF Commit, AllUpserted
  <2>2. doc[w] \in Docs /\ spans' \in SpansTable
    BY DEF IInv, TypeOK
  <2>3. /\ traces' = UpsertTrace(traces, doc[w])
        /\ Atomic!Merged(spans, doc[w].spans, Len(doc[w].spans), spans')
        /\ Referential(traces', spans')
    BY DEF IInv, TxFollows
  <2> QED
    BY <2>2, <2>3, SameTables DEF Atomic!Next, Atomic!SaveWhole
<1>2. CASE UNCHANGED store
  BY <1>2
<1>3. (\E w \in Writers : Commit(w)) \/ UNCHANGED store
  BY DEF Next, WriterNext, ReaderNext, vars, SaveTrace, UpsertTraceRow, Busy,
         UpsertSpanRow, Rollback, Crash, SelectTrace, SelectSpans, SelectBusy, ListTraces
<1> QED
  BY <1>1, <1>2, <1>3

\* Every behaviour of the statements, with its crashes and failures, is a
\* behaviour of the store that saves whole documents.
THEOREM SavesImplementAtomic == Spec => SavesAreAtomic
<1>1. Init => Atomic!Init
  BY DEF Init, Empty, Atomic!Init
<1>2. IInv /\ IInv' /\ [Next]_vars => [Atomic!Next]_<<traces, spans>>
  BY StepIsAtomic DEF store
<1> QED
  BY <1>1, <1>2, StoreInvariant, PTL DEF Spec, SavesAreAtomic, Atomic!Spec

\* What a whole document leaves in the tables, and what it leaves alone.
LEMMA MergedKeeps ==
    ASSUME NEW before \in SpansTable, NEW after \in SpansTable, NEW d \in Docs,
           NEW n \in 0..Len(d.spans),
           Atomic!Merged(before, d.spans, n, after), NEW s \in SpanIds
    PROVE  /\ before[s] # None => /\ after[s] # None
                                  /\ after[s].trace = before[s].trace
                                  /\ after[s].start = before[s].start
           /\ Atomic!Mentions(d.spans, n, s) # {} => after[s] # None
           /\ Atomic!Mentions(d.spans, n, s) = {} => after[s] = before[s]
<1>1. CASE Atomic!Mentions(d.spans, n, s) = {}
  BY <1>1 DEF Atomic!Merged
<1>2. CASE Atomic!Mentions(d.spans, n, s) # {}
  <2>1. PICK first, last \in Atomic!Mentions(d.spans, n, s) :
            after[s] = Atomic!MergedRow(before[s], d.spans[first], d.spans[last])
    BY <1>2 DEF Atomic!Merged
  <2>2. d.spans[first] \in SpanDoc /\ d.spans[last] \in SpanDoc
    <3>1. first \in 1..Len(d.spans) /\ last \in 1..Len(d.spans)
      BY DocFields DEF Atomic!Mentions
    <3> QED
      BY <3>1, DocFields
  <2>3. before[s] \in SpanRow \cup {None}
    BY DEF SpansTable
  <2>4. after[s] \in SpanRow
    BY <2>1, <2>2, <2>3 DEF Atomic!MergedRow, SpanRow, SpanDoc
  <2>5. before[s] # None => after[s].trace = before[s].trace /\ after[s].start = before[s].start
    BY <2>1 DEF Atomic!MergedRow
  <2> QED
    BY <1>2, <2>4, <2>5, NoneAssumption
<1> QED
  BY <1>1, <1>2

LEMMA AtomicKeepsIdentity ==
    ASSUME traces \in TracesTable, spans \in SpansTable, [Atomic!Next]_store
    PROVE  KeepsIdentity
<1>1. CASE UNCHANGED store
  BY <1>1 DEF store, KeepsIdentity
<1>2. CASE Atomic!Next
  <2>1. PICK d \in Docs : Atomic!SaveWhole(d)
    BY <1>2 DEF Atomic!Next
  <2>2. spans' \in SpansTable /\ Len(d.spans) \in 0..Len(d.spans)
    BY <2>1, DocFields, SameTables DEF Atomic!SaveWhole
  <2>3. \A t \in TraceIds : traces[t] # None =>
          traces'[t] # None /\ traces'[t].start = traces[t].start
    BY <2>1, UpsertTraceKeeps, SameTables DEF Atomic!SaveWhole
  <2>4. \A s \in SpanIds : spans[s] # None =>
          /\ spans'[s] # None
          /\ spans'[s].trace = spans[s].trace
          /\ spans'[s].start = spans[s].start
    BY <2>1, <2>2, MergedKeeps DEF Atomic!SaveWhole
  <2> QED
    BY <2>3, <2>4 DEF KeepsIdentity
<1> QED
  BY <1>1, <1>2

LEMMA StepKeepsIdentity ==
    ASSUME IInv, IInv', [Next]_vars
    PROVE  KeepsIdentity
BY StepIsAtomic, AtomicKeepsIdentity DEF IInv, TypeOK

\* No save, failure or crash ever removes a row, moves it in time or gives a span
\* to another trace.
THEOREM IdentityIsKept == Spec => RowsKeepIdentity
<1>1. IInv /\ IInv' /\ [Next]_vars => [KeepsIdentity]_vars
  BY StepKeepsIdentity
<1> QED
  BY <1>1, StoreInvariant, PTL DEF Spec, RowsKeepIdentity
\* Saves are serialised: only the lock's holder has a transaction, and it started
\* from the tables as they still are.
THEOREM TransactionsAreSerial == Spec => []OneOpenTransaction
<1>1. ASSUME IInv
      PROVE  OneOpenTransaction
  <2>1. SUFFICES ASSUME NEW w \in Writers, call[w] = "open"
                 PROVE  /\ lock = w
                        /\ \A s \in SpanIds \ SpanIdsIn(doc[w]) : tx[w].spans[s] = spans[s]
                        /\ \A t \in TraceIds \ {doc[w].trace} : tx[w].traces[t] = traces[t]
    BY DEF OneOpenTransaction
  <2>2. TypeOK /\ TxFollows(w)
    BY <1>1 DEF IInv
  <2>3. /\ doc[w] \in Docs /\ traces \in TracesTable /\ spans \in SpansTable
        /\ done[w] \in Nat /\ tx[w].spans \in SpansTable
    BY <2>1, <2>2 DEF TypeOK, Tables
  <2>4. ASSUME NEW s \in SpanIds \ SpanIdsIn(doc[w])
        PROVE  tx[w].spans[s] = spans[s]
    <3>1. Atomic!Mentions(doc[w].spans, done[w], s) = {}
      <4>1. done[w] <= Len(doc[w].spans) /\ Len(doc[w].spans) \in Nat
        BY <2>1, <2>3, <2>2, DocFields DEF TxFollows
      <4> QED
        BY <2>3, <4>1 DEF Atomic!Mentions, SpanIdsIn
    <3> QED
      BY <2>1, <2>2, <3>1 DEF TxFollows, Atomic!Merged
  <2>5. ASSUME NEW t \in TraceIds \ {doc[w].trace}
        PROVE  tx[w].traces[t] = traces[t]
    BY <2>1, <2>3, <2>2, UpsertTraceKeeps DEF TxFollows
  <2> QED
    BY <2>1, <2>4, <2>5, <2>2 DEF TxFollows
<1> QED
  BY <1>1, StoreInvariant, PTL

-----------------------------------------------------------------------------
(* What callers and readers can rely on *)

LEMMA WholeIsStored ==
    ASSUME NEW before \in SpansTable, NEW after \in SpansTable, NEW d \in Docs,
           Atomic!Merged(before, d.spans, Len(d.spans), after)
    PROVE  \A s \in SpanIdsIn(d) : after[s] # None
<1>1. Len(d.spans) \in 0..Len(d.spans)
  BY DocFields
<1>2. ASSUME NEW s \in SpanIdsIn(d)
      PROVE  s \in SpanIds /\ Atomic!Mentions(d.spans, Len(d.spans), s) # {}
  BY DocFields DEF SpanIdsIn, SpanDoc, Atomic!Mentions
<1> QED
  BY ZenonT(40), <1>1, <1>2, MergedKeeps

\* A commit leaves the trace row and every span of its document.
LEMMA CommitStores ==
    ASSUME IInv, TypeOK', NEW w \in Writers, Commit(w)
    PROVE  /\ doc[w] \in Docs
           /\ traces' = UpsertTrace(traces, doc[w])
           /\ traces'[doc[w].trace] # None
           /\ \A s \in SpanIdsIn(doc[w]) : spans'[s] # None
<1> USE DEF IInv, Commit, AllUpserted
<1>1. /\ doc[w] \in Docs /\ spans \in SpansTable /\ spans' \in SpansTable
      /\ traces \in TracesTable
  BY DEF TypeOK
<1>2. /\ traces' = UpsertTrace(traces, doc[w])
      /\ Atomic!Merged(spans, doc[w].spans, Len(doc[w].spans), spans')
  BY DEF TxFollows
<1>3. \A s \in SpanIdsIn(doc[w]) : spans'[s] # None
  BY <1>1, <1>2, WholeIsStored
<1> QED
  BY <1>1, <1>2, <1>3, UpsertTraceKeeps

LEMMA SpanIdsOfDoc ==
    ASSUME NEW d \in Docs
    PROVE  SpanIdsIn(d) \subseteq SpanIds /\ d.trace \in TraceIds
BY DocFields DEF SpanIdsIn, SpanDoc

\* Once save_trace has returned, its trace and spans are stored for good.
THEOREM ReturnedStays == Spec => []ReturnedIsStored
<1>1. Init => ReturnedIsStored
  BY DEF Init, ReturnedIsStored
<1>2. ASSUME IInv, IInv', [Next]_vars, ReturnedIsStored
      PROVE  ReturnedIsStored'
  <2>1. KeepsIdentity
    BY <1>2, StepKeepsIdentity
  <2>2. SUFFICES ASSUME NEW w \in Writers, call'[w] = "saved"
                 PROVE  /\ traces'[doc'[w].trace] # None
                        /\ \A s \in SpanIdsIn(doc'[w]) : spans'[s] # None
    BY DEF ReturnedIsStored, SpanIdsIn
  <2>3. CASE Commit(w)
    <3>1. doc' = doc
      BY <2>3 DEF Commit
    <3> QED
      BY <1>2, <2>3, <3>1, CommitStores DEF IInv
  <2>4. CASE call[w] = "saved" /\ doc'[w] = doc[w]
    <3>1. doc[w] \in Docs
      BY <1>2, <2>4 DEF IInv, TypeOK
    <3>2. /\ traces[doc[w].trace] # None
          /\ \A s \in SpanIdsIn(doc[w]) : spans[s] # None
      BY <1>2, <2>4 DEF ReturnedIsStored
    <3> QED
      BY <2>1, <2>4, <3>1, <3>2, SpanIdsOfDoc DEF KeepsIdentity
  <2>5. Commit(w) \/ (call[w] = "saved" /\ doc'[w] = doc[w])
    <3>1. call \in [Writers -> Calls] /\ doc \in [Writers -> Docs \cup {None}]
      BY <1>2 DEF IInv, TypeOK
    <3>2. ASSUME NEW v \in Writers, WriterNext(v)
          PROVE  Commit(w) \/ (call[w] = "saved" /\ doc'[w] = doc[w])
      BY <2>2, <3>1, <3>2
         DEF WriterNext, SaveTrace, UpsertTraceRow, Busy, UpsertSpanRow, Commit,
             Rollback, Crash
    <3>3. ASSUME UNCHANGED writer
          PROVE  call[w] = "saved" /\ doc'[w] = doc[w]
      BY <2>2, <3>3 DEF writer
    <3>4. ASSUME NEW r \in Readers, ReaderNext(r)
          PROVE  UNCHANGED writer
      BY <3>4 DEF ReaderNext, SelectTrace, SelectSpans, SelectBusy, ListTraces
    <3> QED
      BY <1>2, <3>2, <3>3, <3>4 DEF Next, vars
  <2> QED
    BY <2>3, <2>4, <2>5
<1> QED
  BY <1>1, <1>2, StoreInvariant, PTL DEF Spec
\* Some document gave the trace this content, and the table has all its spans.
SavedWhole(table, t, content) ==
    \E d \in Docs : /\ d.trace = t
                    /\ d.content = content
                    /\ \A s \in SpanIdsIn(d) : table[s] # None

RowsAreSavedWhole ==
    \A t \in TraceIds : traces[t] # None => SavedWhole(spans, t, traces[t].content)

\* The row a reader holds between its two SELECTs came with its spans.
ReaderHasWhole ==
    \A r \in Readers : got[r].at = "row" =>
        got[r].row # None /\ SavedWhole(spans, got[r].trace, got[r].row.content)

LEMMA SavedWholeStays ==
    ASSUME KeepsIdentity, NEW t, NEW content, SavedWhole(spans, t, content)
    PROVE  SavedWhole(spans', t, content)
BY SpanIdsOfDoc DEF SavedWhole, KeepsIdentity

LEMMA RowsStaySavedWhole ==
    ASSUME IInv, IInv', [Next]_vars, RowsAreSavedWhole
    PROVE  RowsAreSavedWhole'
<1>1. KeepsIdentity
  BY StepKeepsIdentity
<1>2. SUFFICES ASSUME NEW t \in TraceIds, traces'[t] # None
               PROVE  SavedWhole(spans', t, traces'[t].content)
  BY DEF RowsAreSavedWhole
<1>3. CASE traces'[t] = traces[t]
  <2>1. SavedWhole(spans, t, traces[t].content)
    BY <1>2, <1>3 DEF RowsAreSavedWhole
  <2>2. SavedWhole(spans', t, traces[t].content)
    BY <1>1, <2>1, SavedWholeStays
  <2> QED
    BY <1>3, <2>2
<1>4. ASSUME NEW w \in Writers, Commit(w), traces'[t] # traces[t]
      PROVE  SavedWhole(spans', t, traces'[t].content)
  <2>1. /\ doc[w] \in Docs /\ traces \in TracesTable
        /\ traces' = UpsertTrace(traces, doc[w])
        /\ \A s \in SpanIdsIn(doc[w]) : spans'[s] # None
    BY <1>4, CommitStores DEF IInv, TypeOK
  <2>2. t = doc[w].trace /\ traces'[t].content = doc[w].content
    BY <1>4, <2>1, UpsertTraceKeeps
  <2> QED
    BY <2>1, <2>2 DEF SavedWhole
<1>5. (\E w \in Writers : Commit(w)) \/ traces' = traces
  BY DEF Next, WriterNext, ReaderNext, vars, store, SaveTrace, UpsertTraceRow, Busy,
         UpsertSpanRow, Rollback, Crash, SelectTrace, SelectSpans, SelectBusy, ListTraces
<1> QED
  BY <1>3, <1>4, <1>5
LEMMA ReaderStaysWhole ==
    ASSUME IInv, IInv', [Next]_vars, RowsAreSavedWhole, ReaderHasWhole
    PROVE  ReaderHasWhole'
<1>1. KeepsIdentity /\ got \in [Readers -> Reading]
  BY StepKeepsIdentity DEF IInv, TypeOK
<1>2. SUFFICES ASSUME NEW r \in Readers, got'[r].at = "row"
               PROVE  got'[r].row # None /\ SavedWhole(spans', got'[r].trace, got'[r].row.content)
  BY DEF ReaderHasWhole
<1>3. CASE got'[r] = got[r]
  BY <1>1, <1>2, <1>3, SavedWholeStays DEF ReaderHasWhole
<1>4. ASSUME NEW t \in TraceIds, SelectTrace(r, t)
      PROVE  got'[r].row # None /\ SavedWhole(spans', got'[r].trace, got'[r].row.content)
  <2>1. traces[t] # None /\ got'[r].trace = t /\ got'[r].row = traces[t] /\ spans' = spans
    BY <1>1, <1>2, <1>4 DEF SelectTrace, store
  <2> QED
    BY <2>1 DEF RowsAreSavedWhole
<1>5. got'[r] = got[r] \/ \E t \in TraceIds : SelectTrace(r, t)
  <2>1. ASSUME NEW q \in Readers, ReaderNext(q)
        PROVE  got'[r] = got[r] \/ \E t \in TraceIds : SelectTrace(r, t)
    <3>1. CASE q # r
      BY <1>1, <2>1, <3>1 DEF ReaderNext, SelectTrace, SelectSpans, SelectBusy, ListTraces
    <3>2. ASSUME q = r, SelectSpans(r)
          PROVE  got'[r].at = "done"
      BY <1>1, <3>2 DEF SelectSpans, Reading
    <3>3. ASSUME q = r, SelectBusy(r)
          PROVE  got'[r].at = "idle"
      BY <1>1, <3>3 DEF SelectBusy, NoReading
    <3>4. ASSUME q = r, NEW f \in Filters, NEW n \in 0..MaxLimit, NEW k \in 0..MaxLimit,
                 ListTraces(r, f, n, k)
          PROVE  got'[r].at = "idle"
      BY <1>1, <3>4 DEF ListTraces, NoReading
    <3> QED
      BY <1>2, <2>1, <3>1, <3>2, <3>3, <3>4 DEF ReaderNext
  <2>2. ASSUME NEW w \in Writers, WriterNext(w)
        PROVE  got' = got
    BY <2>2 DEF WriterNext, reader, SaveTrace, UpsertTraceRow, Busy, UpsertSpanRow,
                Commit, Rollback, Crash
  <2> QED
    BY <2>1, <2>2 DEF Next, vars, reader
<1> QED
  BY <1>3, <1>4, <1>5

LEMMA HoldsWholeSaveStays ==
    ASSUME KeepsIdentity, NEW t, NEW content, NEW returned,
           HoldsWholeSave(spans, t, content, returned)
    PROVE  HoldsWholeSave(spans', t, content, returned)
BY SpanIdsOfDoc DEF HoldsWholeSave, KeepsIdentity

LEMMA GetStaysWhole ==
    ASSUME IInv, IInv', [Next]_vars, ReaderHasWhole, GetHoldsWholeSave
    PROVE  GetHoldsWholeSave'
<1>1. KeepsIdentity /\ got \in [Readers -> Reading]
  BY StepKeepsIdentity DEF IInv, TypeOK
<1>2. SUFFICES ASSUME NEW r \in Readers, got'[r].at = "done", got'[r].row # None
               PROVE  HoldsWholeSave(spans', got'[r].trace, got'[r].row.content,
                                     SpansOf(got'[r].spans, got'[r].trace))
  BY DEF GetHoldsWholeSave, HoldsWholeSave, SpansOf
<1>3. CASE got'[r] = got[r]
  <2>1. HoldsWholeSave(spans, got[r].trace, got[r].row.content,
                       SpansOf(got[r].spans, got[r].trace))
    BY <1>2, <1>3 DEF GetHoldsWholeSave
  <2> QED
    BY <1>1, <1>3, <2>1, HoldsWholeSaveStays
<1>4. ASSUME SelectSpans(r)
      PROVE  HoldsWholeSave(spans', got'[r].trace, got'[r].row.content,
                            SpansOf(got'[r].spans, got'[r].trace))
  <2> DEFINE t == got[r].trace
             read == [s \in SpanIds |-> IF s \in SpansOf(spans, t) THEN spans[s] ELSE None]
  <2>1. /\ got[r].at = "row" /\ spans' = spans /\ got'[r].trace = t
        /\ got'[r].row = got[r].row /\ got'[r].spans = read
    BY <1>1, <1>4 DEF SelectSpans, store, Reading
  <2>2. SavedWhole(spans, t, got[r].row.content)
    BY <2>1 DEF ReaderHasWhole
  <2>3. SpansOf(read, t) = SpansOf(spans, t)
    BY DEF SpansOf
  <2>4. HoldsWholeSave(spans, t, got[r].row.content, SpansOf(spans, t))
    BY <2>2, SpanIdsOfDoc DEF SavedWhole, HoldsWholeSave, SpansOf
  <2> QED
    BY <2>1, <2>3, <2>4
<1>5. got'[r] = got[r] \/ SelectSpans(r)
  <2>1. ASSUME NEW q \in Readers, ReaderNext(q)
        PROVE  got'[r] = got[r] \/ SelectSpans(r)
    <3>1. CASE q # r
      BY <1>1, <2>1, <3>1 DEF ReaderNext, SelectTrace, SelectSpans, SelectBusy, ListTraces
    <3>2. ASSUME q = r, NEW t \in TraceIds, SelectTrace(r, t)
          PROVE  got'[r].at = "row" \/ got'[r].row = None
      BY <1>1, <3>2 DEF SelectTrace
    <3>3. ASSUME q = r, SelectBusy(r)
          PROVE  got'[r].at = "idle"
      BY <1>1, <3>3 DEF SelectBusy, NoReading
    <3>4. ASSUME q = r, NEW f \in Filters, NEW n \in 0..MaxLimit, NEW k \in 0..MaxLimit,
                 ListTraces(r, f, n, k)
          PROVE  got'[r].at = "idle"
      BY <1>1, <3>4 DEF ListTraces, NoReading
    <3> QED
      BY <1>2, <2>1, <3>1, <3>2, <3>3, <3>4 DEF ReaderNext
  <2>2. ASSUME NEW w \in Writers, WriterNext(w)
        PROVE  got' = got
    BY <2>2 DEF WriterNext, reader, SaveTrace, UpsertTraceRow, Busy, UpsertSpanRow,
                Commit, Rollback, Crash
  <2> QED
    BY <2>1, <2>2 DEF Next, vars, reader
<1> QED
  BY <1>3, <1>4, <1>5

\* A get_trace that overlaps any number of saves still returns a row together with
\* every span of a save that wrote it.
THEOREM GetsAreWhole == Spec => []GetHoldsWholeSave
<1> DEFINE GetInv == RowsAreSavedWhole /\ ReaderHasWhole /\ GetHoldsWholeSave
<1>1. Init => GetInv
  BY DEF Init, Empty, NoReading, RowsAreSavedWhole, ReaderHasWhole, GetHoldsWholeSave
<1>2. IInv /\ IInv' /\ [Next]_vars /\ GetInv => GetInv'
  BY RowsStaySavedWhole, ReaderStaysWhole, GetStaysWhole
<1>3. GetInv => GetHoldsWholeSave
  OBVIOUS
<1> QED
  <2> HIDE DEF GetInv
  <2> QED
    BY <1>1, <1>2, <1>3, StoreInvariant, PTL DEF Spec

-----------------------------------------------------------------------------
(* What list_traces counts *)

\* However many traces and spans there could be, only finitely many are stored, so
\* that they can be counted.
TraceRows == {t \in TraceIds : traces[t] # None}
SpanRows  == {s \in SpanIds : spans[s] # None}
RowsAreFinite == IsFiniteSet(TraceRows) /\ IsFiniteSet(SpanRows)

LEMMA SpanIdsAreFinite ==
    ASSUME NEW d \in Docs
    PROVE  IsFiniteSet(SpanIdsIn(d))
<1> DEFINE places == 1..Len(d.spans)
           idAt == [i \in places |-> d.spans[i].span]
<1>1. IsFiniteSet(places)
  BY FS_Interval, DocFields
<1>2. SpanIdsIn(d) = {idAt[i] : i \in places}
  BY DEF SpanIdsIn
<1> HIDE DEF idAt, places
<1>3. IsFiniteSet({idAt[i] : i \in places})
  BY <1>1, FiniteImage
<1> QED
  BY <1>2, <1>3

LEMMA RowsStayFinite ==
    ASSUME IInv, IInv', [Next]_vars, RowsAreFinite
    PROVE  RowsAreFinite'
<1>1. CASE UNCHANGED store
  BY <1>1 DEF store, RowsAreFinite, TraceRows, SpanRows
<1>2. CASE Atomic!Next
  <2>1. PICK d \in Docs : Atomic!SaveWhole(d)
    BY <1>2 DEF Atomic!Next
  <2>2. /\ traces \in TracesTable /\ spans \in SpansTable /\ spans' \in SpansTable
        /\ traces' = UpsertTrace(traces, d)
        /\ Atomic!Merged(spans, d.spans, Len(d.spans), spans')
    BY <2>1, SameTables DEF Atomic!SaveWhole, IInv, TypeOK
  <2>3. TraceRows' \in SUBSET (TraceRows \cup {d.trace})
    BY <2>2, UpsertTraceKeeps DEF TraceRows
  <2>4. SpanRows' \in SUBSET (SpanRows \cup SpanIdsIn(d))
    <3>1. ASSUME NEW s \in SpanIds, s \notin SpanIdsIn(d)
          PROVE  spans'[s] = spans[s]
      <4>1. Atomic!Mentions(d.spans, Len(d.spans), s) = {}
        BY <3>1, DocFields DEF Atomic!Mentions, SpanIdsIn
      <4> QED
        BY <4>1, <2>2 DEF Atomic!Merged
    <3> QED
      BY <3>1 DEF SpanRows
  <2>5. IsFiniteSet(TraceRows \cup {d.trace}) /\ IsFiniteSet(SpanRows \cup SpanIdsIn(d))
    BY FS_Singleton, FS_Union, SpanIdsAreFinite DEF RowsAreFinite
  <2>6. IsFiniteSet(TraceRows')
    BY <2>3, <2>5, FS_Subset
  <2>7. IsFiniteSet(SpanRows')
    BY <2>4, <2>5, FS_Subset
  <2> QED
    BY <2>6, <2>7 DEF RowsAreFinite
<1> QED
  BY <1>1, <1>2, StepIsAtomic

\* What one entry of a list says, in the tables as they are now.
EntryIsWhole(table, entry) ==
    \E d \in Docs :
        /\ d.trace = entry.trace
        /\ d.content = entry.row.content
        /\ \A s \in SpanIdsIn(d) : table[s] # None
        /\ entry.spanCount >= Cardinality(SpanIdsIn(d) \cap SpansOf(table, entry.trace))

\* Its document's spans are stored, and stay where they are.
LEMMA EntryStaysWhole ==
    ASSUME KeepsIdentity, NEW entry, EntryIsWhole(spans, entry)
    PROVE  EntryIsWhole(spans', entry)
<1>1. PICK d \in Docs :
        /\ d.trace = entry.trace
        /\ d.content = entry.row.content
        /\ \A s \in SpanIdsIn(d) : spans[s] # None
        /\ entry.spanCount >= Cardinality(SpanIdsIn(d) \cap SpansOf(spans, entry.trace))
  BY DEF EntryIsWhole
<1>2. \A s \in SpanIdsIn(d) : spans'[s] # None
  BY <1>1, SpanIdsOfDoc DEF KeepsIdentity
<1>3. SpanIdsIn(d) \cap SpansOf(spans', entry.trace) = SpanIdsIn(d) \cap SpansOf(spans, entry.trace)
  BY <1>1, <1>2, SpanIdsOfDoc DEF KeepsIdentity, SpansOf
<1> QED
  BY <1>1, <1>2, <1>3 DEF EntryIsWhole

LEMMA SummaryIsWhole ==
    ASSUME IInv, RowsAreFinite, RowsAreSavedWhole, NEW t \in TraceIds, traces[t] # None
    PROVE  SummaryOf(t) \in Summary /\ EntryIsWhole(spans, SummaryOf(t))
<1> DEFINE entry == SummaryOf(t)
<1>1. PICK d \in Docs : /\ d.trace = t
                        /\ d.content = traces[t].content
                        /\ \A s \in SpanIdsIn(d) : spans[s] # None
  BY DEF RowsAreSavedWhole, SavedWhole
<1>2. /\ entry.trace = t /\ entry.row = traces[t]
      /\ entry.spanCount = Cardinality(SpansOf(spans, t))
  BY DEF SummaryOf
<1>3. SpansOf(spans, t) \in SUBSET SpanRows
  BY DEF SpansOf, SpanRows
<1>4. IsFiniteSet(SpansOf(spans, t))
  BY <1>3, FS_Subset DEF RowsAreFinite
<1>5. Cardinality(SpansOf(spans, t)) \in Nat
  BY <1>4, FS_CardinalityType
<1>6. SpanIdsIn(d) \cap SpansOf(spans, t) \in SUBSET SpansOf(spans, t)
  OBVIOUS
<1>7. Cardinality(SpanIdsIn(d) \cap SpansOf(spans, t)) <= Cardinality(SpansOf(spans, t))
  BY <1>4, <1>6, FS_Subset
<1>8. Cardinality(SpanIdsIn(d) \cap SpansOf(spans, t)) \in Nat
  <2>1. IsFiniteSet(SpanIdsIn(d) \cap SpansOf(spans, t))
    BY <1>4, <1>6, FS_Subset
  <2> QED
    BY <2>1, FS_CardinalityType
<1>9. SummaryOf(t) \in Summary
  BY <1>5 DEF SummaryOf, Summary, IInv, TypeOK, TracesTable
<1>10. entry.spanCount >= Cardinality(SpanIdsIn(d) \cap SpansOf(spans, entry.trace))
  BY <1>2, <1>5, <1>7, <1>8
<1> HIDE DEF entry
<1>11. EntryIsWhole(spans, entry)
  BY <1>1, <1>2, <1>10 DEF EntryIsWhole
<1> QED
  BY <1>9, <1>11 DEF entry

ListsAreWhole ==
    /\ listed \in [Readers -> Seq(Summary)]
    /\ \A r \in Readers : \A i \in 1..Len(listed[r]) : EntryIsWhole(spans, listed[r][i])

\* The page of a list has entries of the traces that match, in their order.
LEMMA ListIsWhole ==
    ASSUME IInv, RowsAreFinite, RowsAreSavedWhole, NEW r \in Readers, NEW f \in Filters,
           NEW n \in 0..MaxLimit, NEW k \in 0..MaxLimit, ListTraces(r, f, n, k)
    PROVE  \E new \in Seq(Summary) :
              /\ listed' = [listed EXCEPT ![r] = new]
              /\ \A i \in 1..Len(new) : EntryIsWhole(spans, new[i])
<1> DEFINE matching == {t \in TraceIds : traces[t] # None /\ traces[t].content \in f}
           total    == Cardinality(matching)
           page     == IF total <= k THEN 0
                       ELSE IF total - k < n THEN total - k ELSE n
<1>1. matching \in SUBSET TraceRows
  BY DEF TraceRows
<1>2. IsFiniteSet(matching)
  BY <1>1, FS_Subset DEF RowsAreFinite
<1>3. total \in Nat /\ k \in Nat /\ n \in Nat
  BY <1>2, FS_CardinalityType, LimitAssumption
<1>4. PICK order \in [1..total -> matching] :
        listed' = [listed EXCEPT ![r] = [i \in 1..page |-> SummaryOf(order[i + k])]]
  BY DEF ListTraces
<1>5. \A t \in matching : t \in TraceIds /\ traces[t] # None
  OBVIOUS
<1> HIDE DEF matching, total
<1>6. page \in Nat /\ \A i \in 1..page : i + k \in 1..total
  BY <1>3
<1> HIDE DEF page
<1> DEFINE new == [i \in 1..page |-> SummaryOf(order[i + k])]
<1>7. \A i \in 1..page : order[i + k] \in matching
  BY <1>4, <1>6
<1>8. ASSUME NEW i \in 1..page
      PROVE  new[i] \in Summary /\ EntryIsWhole(spans, new[i])
  <2>1. PICK t \in TraceIds : t = order[i + k] /\ traces[t] # None
    BY <1>5, <1>7
  <2>2. new[i] = SummaryOf(t)
    BY <2>1
  <2>3. SummaryOf(t) \in Summary /\ EntryIsWhole(spans, SummaryOf(t))
    BY <2>1, SummaryIsWhole
  <2> QED
    BY <2>2, <2>3
<1>9. new \in [1..page -> Summary]
  BY <1>8
<1>10. new \in Seq(Summary) /\ Len(new) = page
  <2> HIDE DEF new
  <2> QED
    BY <1>6, <1>9
<1> QED
  <2>1. listed' = [listed EXCEPT ![r] = new]
    BY <1>4
  <2> HIDE DEF new
  <2> QED
    BY <1>8, <1>10, <2>1

LEMMA ListsStayWhole ==
    ASSUME IInv, IInv', [Next]_vars, RowsAreFinite, RowsAreSavedWhole, ListsAreWhole
    PROVE  ListsAreWhole'
<1>1. KeepsIdentity /\ listed \in [Readers -> Seq(Summary)]
  BY StepKeepsIdentity DEF ListsAreWhole
<1>2. ASSUME NEW r \in Readers, NEW i \in 1..Len(listed[r])
      PROVE  EntryIsWhole(spans', listed[r][i])
  <2>1. PICK entry : entry = listed[r][i]
    OBVIOUS
  <2>2. EntryIsWhole(spans, entry)
    BY <2>1 DEF ListsAreWhole
  <2>3. EntryIsWhole(spans', entry)
    BY <1>1, <2>2, EntryStaysWhole
  <2> QED
    BY <2>1, <2>3
<1>3. CASE listed' = listed
  BY <1>1, <1>2, <1>3 DEF ListsAreWhole
<1>4. ASSUME NEW r \in Readers, NEW t \in TraceIds, SelectTrace(r, t)
      PROVE  ListsAreWhole'
  <2>1. listed' = [listed EXCEPT ![r] = << >>]
    BY <1>4 DEF SelectTrace
  <2> QED
    BY <1>1, <1>2, <2>1 DEF ListsAreWhole
<1>5. ASSUME NEW r \in Readers, NEW f \in Filters, NEW n \in 0..MaxLimit,
             NEW k \in 0..MaxLimit, ListTraces(r, f, n, k)
      PROVE  ListsAreWhole'
  <2>1. PICK new \in Seq(Summary) :
          /\ listed' = [listed EXCEPT ![r] = new]
          /\ \A i \in 1..Len(new) : EntryIsWhole(spans, new[i])
    BY <1>5, ListIsWhole
  <2>2. spans' = spans
    BY <1>5 DEF ListTraces, store
  <2>3. ASSUME NEW q \in Readers, NEW i \in 1..Len(listed'[q])
        PROVE  EntryIsWhole(spans', listed'[q][i])
    <3>1. CASE q = r
      BY <1>1, <2>1, <2>2, <2>3, <3>1
    <3>2. CASE q # r
      BY <1>1, <1>2, <2>1, <2>3, <3>2
    <3> QED
      BY <3>1, <3>2
  <2>4. listed' \in [Readers -> Seq(Summary)]
    BY <1>1, <2>1
  <2> QED
    BY <2>3, <2>4 DEF ListsAreWhole
<1>6. \/ listed' = listed
      \/ \E r \in Readers, t \in TraceIds : SelectTrace(r, t)
      \/ \E r \in Readers, f \in Filters : \E n \in 0..MaxLimit, k \in 0..MaxLimit :
            ListTraces(r, f, n, k)
  <2>1. ASSUME NEW w \in Writers, WriterNext(w)
        PROVE  listed' = listed
    BY <2>1 DEF WriterNext, reader, SaveTrace, UpsertTraceRow, Busy, UpsertSpanRow,
                Commit, Rollback, Crash
  <2>2. ASSUME NEW r \in Readers, SelectSpans(r) \/ SelectBusy(r)
        PROVE  listed' = listed
    BY <2>2 DEF SelectSpans, SelectBusy
  <2> QED
    BY <2>1, <2>2 DEF Next, ReaderNext, vars, reader
<1> QED
  BY <1>3, <1>4, <1>5, <1>6

\* The count next to a trace in a list is at least that of a whole save, whatever
\* filter and page were asked for and however many saves were under way.
THEOREM ListsCountWholeSaves == Spec => []ListCountsWholeSaves
<1> DEFINE ListInv == RowsAreFinite /\ RowsAreSavedWhole /\ ListsAreWhole
<1>1. Init => ListInv
  <2> SUFFICES ASSUME Init
               PROVE  ListInv
    OBVIOUS
  <2>1. TraceRows = {} /\ SpanRows = {}
    BY DEF Init, Empty, TraceRows, SpanRows
  <2>2. RowsAreFinite
    BY <2>1, FS_EmptySet DEF RowsAreFinite
  <2> QED
    BY <2>2 DEF Init, Empty, RowsAreSavedWhole, ListsAreWhole
<1>2. IInv /\ IInv' /\ [Next]_vars /\ ListInv => ListInv'
  BY RowsStayFinite, RowsStaySavedWhole, ListsStayWhole
<1>3. ListInv => ListCountsWholeSaves
  BY DEF ListsAreWhole, ListCountsWholeSaves, EntryIsWhole
<1> QED
  <2> HIDE DEF ListInv
  <2> QED
    BY <1>1, <1>2, <1>3, StoreInvariant, PTL DEF Spec
=============================================================================

-------------------------- MODULE OtlpIngestProofs --------------------------
(***************************************************************************)
(* Theorems of OtlpIngest for every set of batches, whatever is posted,    *)
(* lost, repeated, refused or half saved.  What they say of span ids that  *)
(* come twice is a hypothesis of its own on the batches.                   *)
(***************************************************************************)
EXTENDS OtlpIngest, FiniteOrders

-----------------------------------------------------------------------------
(* Batches and their groups *)

LEMMA MinOfFinite ==
    ASSUME NEW S \in SUBSET Int, IsFiniteSet(S), S # {}
    PROVE  Min(S) \in S /\ \A x \in S : Min(S) <= x
BY LeastExists DEF Min

LEMMA MaxOfFinite ==
    ASSUME NEW S \in SUBSET Int, IsFiniteSet(S), S # {}
    PROVE  Max(S) \in S /\ \A x \in S : Max(S) >= x
BY GreatestExists DEF Max

\* What a body holds are raw spans, by either protocol.
LEMMA PayloadType ==
    ASSUME NEW b \in Batches
    PROVE  /\ Len(Payload[b]) \in Nat
           /\ \A i \in 1..Len(Payload[b]) : Payload[b][i] \in RawSpan
<1> DEFINE ss == SpansIn[b]
<1>1. ss \in Seq(RawSpan) /\ Len(ss) \in Nat /\ \A i \in 1..Len(ss) : ss[i] \in RawSpan
  BY SpansInAssumption
<1>2. CASE Form[b] = "protobuf"
  <2> DEFINE r(i) == [trace |-> Base64[ss[i].trace], span |-> Base64[ss[i].span],
                      start |-> ss[i].start, end |-> ss[i].end, code |-> ss[i].code]
  <2>1. Payload[b] = [i \in 1..Len(ss) |-> r(i)]
    BY <1>2 DEF Payload, ParseOtlpProtobuf
  <2>2. \A i \in 1..Len(ss) : r(i) \in RawSpan
    BY <1>1, Base64Assumption DEF RawSpan
  <2>3. Len(Payload[b]) = Len(ss)
    <3> HIDE DEF r
    <3> QED
      BY <1>1, <2>1
  <2> HIDE DEF r
  <2> QED
    BY <1>1, <2>1, <2>2, <2>3
<1>3. CASE Form[b] # "protobuf"
  BY <1>1, <1>3 DEF Payload
<1> QED
  BY <1>2, <1>3

LEMMA GroupFacts ==
    ASSUME NEW b \in Batches, NEW t \in TracesIn(b)
    PROVE  /\ t \in TraceIds
           /\ SpansOfTrace(b, t) \subseteq 1..Len(Payload[b])
           /\ IsFiniteSet(SpansOfTrace(b, t)) /\ SpansOfTrace(b, t) # {}
           /\ Group(b, t) \subseteq RawSpan /\ IsFiniteSet(Group(b, t)) /\ Group(b, t) # {}
           /\ \A raw \in Group(b, t) : raw.trace = t /\ raw.span \in SpanIds
<1> DEFINE places == SpansOfTrace(b, t)
<1>1. places \subseteq 1..Len(Payload[b]) /\ \A i \in places : Payload[b][i].trace = t
  BY DEF SpansOfTrace
<1>2. t \in TraceIds /\ places # {}
  <2>1. PICK i \in 1..Len(Payload[b]) : Payload[b][i].trace = t /\ t # None
    BY DEF TracesIn
  <2>2. Payload[b][i].trace \in TraceIds \cup {None}
    BY PayloadType DEF RawSpan
  <2> QED
    BY <2>1, <2>2 DEF SpansOfTrace
<1>3. IsFiniteSet(places)
  <2>1. IsFiniteSet(1..Len(Payload[b]))
    BY PayloadType, FS_Interval
  <2> HIDE DEF places
  <2> QED
    BY <1>1, <2>1, FS_Subset
<1> HIDE DEF places
<1>4. Group(b, t) = {Payload[b][i] : i \in places}
  BY DEF Group, places
<1>5. IsFiniteSet({Payload[b][i] : i \in places})
  BY <1>3, FiniteImage
<1>6. \A i \in places : Payload[b][i] \in RawSpan
  BY <1>1, PayloadType
<1>7. Group(b, t) \subseteq RawSpan /\ \A raw \in Group(b, t) : raw.trace = t
  BY <1>1, <1>4, <1>6
<1>8. \A raw \in RawSpan : raw.span \in SpanIds
  BY DEF RawSpan
<1>9. IsFiniteSet(Group(b, t)) /\ Group(b, t) # {}
  BY <1>2, <1>4, <1>5
<1> QED
  BY <1>1, <1>2, <1>3, <1>7, <1>8, <1>9 DEF places

\* What is saved of a group: fields of the right type, times that enclose those of its
\* spans and are times of theirs but for a start at the server's time, and ERROR if one
\* of them is.
LEMMA TraceDocFacts ==
    ASSUME NEW b \in Batches, NEW t \in TracesIn(b)
    PROVE  /\ TraceDoc(b, t).trace = t
           /\ TraceDoc(b, t).start \in Times
           /\ TraceDoc(b, t).content \in Contents
           /\ TraceDoc(b, t).start <= Now
           /\ TraceDoc(b, t).start # Now =>
                 \E raw \in Group(b, t) : TraceDoc(b, t).start = raw.start
           /\ TraceDoc(b, t).content.end # None =>
                 \E raw \in Group(b, t) : TraceDoc(b, t).content.end = raw.end
           /\ \A raw \in Group(b, t) :
                 /\ TraceDoc(b, t).start <= raw.start
                 /\ raw.end # None => /\ TraceDoc(b, t).content.end # None
                                      /\ TraceDoc(b, t).content.end >= raw.end
                 /\ StatusOfSpan(raw) = "ERROR" => TraceDoc(b, t).content.status = "ERROR"
<1> DEFINE ss == Group(b, t)
           start == [r \in ss |-> r.start]
           end == [r \in ss |-> r.end]
           starts == {Now} \cup {start[r] : r \in ss}
<1>1. ss \subseteq RawSpan /\ IsFiniteSet(ss)
  BY GroupFacts
<1> HIDE DEF ss
<1>2. /\ StartOf(ss) \in Times /\ \A r \in ss : StartOf(ss) <= r.start
      /\ StartOf(ss) <= Now
      /\ StartOf(ss) # Now => \E r \in ss : StartOf(ss) = r.start
  <2>1. IsFiniteSet({start[r] : r \in ss})
    <3> HIDE DEF start
    <3> QED
      BY <1>1, FiniteImage
  <2>2. \A r \in ss : start[r] = r.start /\ r.start \in Times
    BY <1>1 DEF RawSpan
  <2>3. StartOf(ss) = Min(starts)
    <3>1. {start[r] : r \in ss} = {r.start : r \in ss}
      OBVIOUS
    <3> QED
      BY <3>1 DEF StartOf
  <2>4. starts \subseteq Times /\ Now \in starts
    BY <2>2, NowAssumption
  <2>5. IsFiniteSet(starts)
    <3> DEFINE rest == {start[r] : r \in ss}
    <3>1. IsFiniteSet(rest)
      BY <2>1
    <3>2. starts = rest \cup {Now}
      OBVIOUS
    <3> HIDE DEF rest, starts
    <3> QED
      BY <3>1, <3>2, FS_AddElement
  <2>6. /\ \A r \in ss : r.start \in starts
        /\ \A x \in starts : x = Now \/ \E r \in ss : x = r.start
    BY <2>2
  <2> HIDE DEF starts, start
  <2>7. Min(starts) \in starts /\ \A x \in starts : Min(starts) <= x
    BY <2>4, <2>5, TimesAssumption, MinOfFinite
  <2> QED
    BY <2>3, <2>4, <2>6, <2>7
<1>3. /\ EndOf(ss) \in Times \cup {None}
      /\ EndOf(ss) # None => \E r \in ss : EndOf(ss) = r.end
      /\ \A r \in ss : r.end # None => EndOf(ss) # None /\ EndOf(ss) >= r.end
  <2>1. IsFiniteSet({end[r] : r \in ss})
    <3> HIDE DEF end
    <3> QED
      BY <1>1, FiniteImage
  <2>2. {end[r] : r \in ss} = {r.end : r \in ss}
    OBVIOUS
  <2>3. Ends(ss) \subseteq Times /\ None \notin Ends(ss)
    BY <1>1 DEF Ends, RawSpan
  <2>4. IsFiniteSet(Ends(ss))
    <3> DEFINE all == {r.end : r \in ss}
    <3>1. IsFiniteSet(all)
      BY <2>1, <2>2
    <3>2. Ends(ss) \subseteq all
      BY DEF Ends
    <3> HIDE DEF all
    <3> QED
      BY <3>1, <3>2, FS_Subset
  <2>5. /\ \A r \in ss : r.end # None => r.end \in Ends(ss)
        /\ \A x \in Ends(ss) : \E r \in ss : x = r.end
    BY DEF Ends
  <2>6. CASE Ends(ss) = {}
    BY <2>5, <2>6 DEF EndOf
  <2>7. CASE Ends(ss) # {}
    <3>1. EndOf(ss) \in Ends(ss) /\ \A x \in Ends(ss) : EndOf(ss) >= x
      BY <2>3, <2>4, <2>7, TimesAssumption, MaxOfFinite DEF EndOf
    <3> QED
      BY <2>3, <2>5, <3>1
  <2> QED
    BY <2>6, <2>7
<1>4. StatusOf(ss) \in Status /\ \A r \in ss : StatusOfSpan(r) = "ERROR" => StatusOf(ss) = "ERROR"
  BY DEF StatusOf, Status
<1>5. /\ TraceDoc(b, t).trace = t /\ TraceDoc(b, t).start = StartOf(ss)
      /\ TraceDoc(b, t).content = [status |-> StatusOf(ss), end |-> EndOf(ss)]
  BY DEF TraceDoc, ss
<1> QED
  BY <1>2, <1>3, <1>4, <1>5, ContentsAssumption DEF ss

LEMMA SpanFromOtlpFacts ==
    ASSUME NEW raw \in RawSpan
    PROVE  /\ SpanFromOtlp(raw).start = raw.start /\ raw.start \in Times
           /\ SpanFromOtlp(raw).trace = raw.trace
           /\ SpanFromOtlp(raw).span = raw.span
           /\ SpanFromOtlp(raw).content \in Contents
           /\ SpanFromOtlp(raw).content.status = StatusOfSpan(raw)
           /\ SpanFromOtlp(raw).content.end = raw.end
<1>1. StatusOfSpan(raw) \in Status
  BY DEF StatusOfSpan, Status
<1> QED
  BY <1>1, ContentsAssumption DEF SpanFromOtlp, RawSpan

-----------------------------------------------------------------------------
(* One save *)

\* A row of the table after a group is saved: untouched if the group has no span of that
\* id, and otherwise made of two spans of the group.
Merges(table, new, ss, s) ==
    \/ new[s] = table[s] /\ \A raw \in ss : raw.span # s
    \/ \E f, l \in ss : f.span = s /\ l.span = s
                        /\ new[s] = MergedRow(table[s], SpanFromOtlp(f), SpanFromOtlp(l))

LEMMA UpsertSpansMerges ==
    ASSUME NEW table, NEW b \in Batches, NEW t \in TracesIn(b), NEW s \in SpanIds
    PROVE  Merges(table, UpsertSpans(table, b, t), Group(b, t), s)
<1> DEFINE places == SpansOfTrace(b, t)
           at == {i \in places : Payload[b][i].span = s}
<1>1. UpsertSpans(table, b, t)[s] =
        IF at = {} THEN table[s]
        ELSE MergedRow(table[s], SpanFromOtlp(Payload[b][Min(at)]),
                                 SpanFromOtlp(Payload[b][Max(at)]))
  BY DEF UpsertSpans
<1>2. \A i \in places : Payload[b][i] \in Group(b, t)
  BY DEF Group
<1>3. \A raw \in Group(b, t) : \E i \in places : raw = Payload[b][i]
  BY DEF Group
<1>4. at \subseteq Int /\ IsFiniteSet(at)
  <2>1. places \subseteq Int /\ IsFiniteSet(places)
    BY GroupFacts, PayloadType
  <2> HIDE DEF places
  <2> QED
    BY <2>1, FS_Subset
<1>5. CASE at = {}
  BY <1>1, <1>3, <1>5 DEF Merges
<1>6. CASE at # {}
  <2>1. Min(at) \in at /\ Max(at) \in at
    <3> HIDE DEF at
    <3> QED
      BY <1>4, <1>6, MinOfFinite, MaxOfFinite
  <2>2. PICK i \in at, j \in at : Min(at) = i /\ Max(at) = j
    BY <2>1
  <2>3. Payload[b][i] \in Group(b, t) /\ Payload[b][j] \in Group(b, t)
    BY <1>2
  <2>4. Payload[b][i].span = s /\ Payload[b][j].span = s
    OBVIOUS
  <2>5. UpsertSpans(table, b, t)[s] =
          MergedRow(table[s], SpanFromOtlp(Payload[b][i]), SpanFromOtlp(Payload[b][j]))
    BY <1>1, <1>6, <2>2
  <2> QED
    BY <2>3, <2>4, <2>5 DEF Merges
<1> QED
  BY <1>5, <1>6

\* What that means for types, for rows that are there and for rows that are new.
LEMMA UpsertSpansEffect ==
    ASSUME NEW table \in SpansTable, NEW b \in Batches, NEW t \in TracesIn(b)
    PROVE  LET new == UpsertSpans(table, b, t)
           IN  /\ new \in SpansTable
               /\ \A s \in SpanIds : table[s] # None =>
                     /\ new[s] # None /\ new[s].trace = table[s].trace
                     /\ new[s].start = table[s].start
               /\ \A s \in SpanIds : table[s] = None /\ new[s] # None =>
                     /\ new[s].trace = t
                     /\ \E f \in Group(b, t) : f.span = s /\ new[s].start = f.start
               /\ \A s \in SpanIds :
                     \/ new[s] = table[s] /\ \A raw \in Group(b, t) : raw.span # s
                     \/ /\ new[s] # None
                        /\ \E l \in Group(b, t) :
                              l.span = s /\ new[s].content = SpanFromOtlp(l).content
<1> DEFINE new == UpsertSpans(table, b, t)
           ss == Group(b, t)
<1>1. \A s \in SpanIds : Merges(table, new, ss, s)
  BY UpsertSpansMerges
<1>2. /\ ss \subseteq RawSpan /\ t \in TraceIds /\ \A raw \in ss : raw.trace = t
  BY GroupFacts
<1>3. new = [s \in SpanIds |-> new[s]]
  BY DEF UpsertSpans
<1> HIDE DEF new, ss
<1>4. ASSUME NEW row \in SpanRow \cup {None}, NEW f \in ss, NEW l \in ss,
             NEW merged, merged = MergedRow(row, SpanFromOtlp(f), SpanFromOtlp(l))
      PROVE  /\ merged \in SpanRow /\ merged # None
             /\ row # None => merged.trace = row.trace /\ merged.start = row.start
             /\ row = None => merged.trace = t /\ merged.start = f.start
             /\ merged.content = SpanFromOtlp(l).content
  <2>1. SpanFromOtlp(f).start = f.start /\ f.start \in Times /\ SpanFromOtlp(f).trace = t
    BY <1>2, SpanFromOtlpFacts
  <2>2. SpanFromOtlp(l).content \in Contents
    BY <1>2, SpanFromOtlpFacts
  <2>3. merged \in SpanRow
    BY <1>2, <1>4, <2>1, <2>2 DEF MergedRow, SpanRow
  <2> QED
    BY <1>4, <2>1, <2>3, NoneAssumption DEF MergedRow
<1>5. ASSUME NEW s \in SpanIds
      PROVE  /\ new[s] \in SpanRow \cup {None}
             /\ table[s] # None => /\ new[s] # None /\ new[s].trace = table[s].trace
                                   /\ new[s].start = table[s].start
             /\ table[s] = None /\ new[s] # None =>
                  /\ new[s].trace = t
                  /\ \E f \in ss : f.span = s /\ new[s].start = f.start
             /\ \/ new[s] = table[s] /\ \A raw \in ss : raw.span # s
                \/ /\ new[s] # None
                   /\ \E l \in ss : l.span = s /\ new[s].content = SpanFromOtlp(l).content
  <2>1. table[s] \in SpanRow \cup {None}
    BY DEF SpansTable
  <2>2. CASE new[s] = table[s] /\ \A raw \in ss : raw.span # s
    BY <2>1, <2>2
  <2>3. CASE \E f, l \in ss : f.span = s /\ l.span = s
                        /\ new[s] = MergedRow(table[s], SpanFromOtlp(f), SpanFromOtlp(l))
    <3>1. PICK f \in ss, l \in ss : /\ f.span = s /\ l.span = s
                                    /\ new[s] = MergedRow(table[s], SpanFromOtlp(f), SpanFromOtlp(l))
      BY <2>3
    <3>2. /\ new[s] \in SpanRow /\ new[s] # None
          /\ table[s] # None => new[s].trace = table[s].trace /\ new[s].start = table[s].start
          /\ table[s] = None => new[s].trace = t /\ new[s].start = f.start
          /\ new[s].content = SpanFromOtlp(l).content
      <4>1. PICK row \in SpanRow \cup {None} : row = table[s]
        BY <2>1
      <4>2. PICK merged : merged = new[s]
        OBVIOUS
      <4>3. merged = MergedRow(row, SpanFromOtlp(f), SpanFromOtlp(l))
        BY <3>1, <4>1, <4>2
      <4>4. /\ merged \in SpanRow /\ merged # None
            /\ row # None => merged.trace = row.trace /\ merged.start = row.start
            /\ row = None => merged.trace = t /\ merged.start = f.start
            /\ merged.content = SpanFromOtlp(l).content
        BY SMTT(40), <1>4, <4>3
      <4> QED
        BY <4>1, <4>2, <4>4
    <3> QED
      BY <3>1, <3>2
  <2> QED
    BY <1>1, <2>2, <2>3 DEF Merges
<1>6. new \in SpansTable
  BY <1>3, <1>5 DEF SpansTable
<1> QED
  BY <1>5, <1>6 DEF new, ss

\* The row of the trace.
LEMMA UpsertTraceEffect ==
    ASSUME NEW table \in TracesTable, NEW b \in Batches, NEW t \in TracesIn(b)
    PROVE  LET new == UpsertTrace(table, TraceDoc(b, t))
           IN  /\ new \in TracesTable
               /\ \A u \in TraceIds : u # t => new[u] = table[u]
               /\ new[t] # None /\ new[t].content = TraceDoc(b, t).content
               /\ new[t].start = IF table[t] = None THEN TraceDoc(b, t).start
                                                    ELSE table[t].start
<1> DEFINE d == TraceDoc(b, t)
           row == [start   |-> IF table[t] = None THEN d.start ELSE table[t].start,
                   content |-> d.content]
<1>1. d.trace = t /\ d.start \in Times /\ d.content \in Contents /\ t \in TraceIds
  BY TraceDocFacts, GroupFacts
<1> HIDE DEF d
<1>2. row \in TraceRow /\ row # None
  BY <1>1, NoneAssumption DEF TracesTable, TraceRow
<1>3. UpsertTrace(table, d) = [table EXCEPT ![t] = row]
  BY <1>1 DEF UpsertTrace
<1>4. /\ row.content = d.content
      /\ row.start = IF table[t] = None THEN d.start ELSE table[t].start
  OBVIOUS
<1> HIDE DEF row
<1> QED
  BY <1>1, <1>2, <1>3, <1>4 DEF TracesTable, d

-----------------------------------------------------------------------------
(* Types *)

\* The handler is idle or in a request it can read, with groups of it left to save.
Serving ==
    handling = Idle \/ /\ handling.batch \in Readable
                       /\ handling.left \subseteq TracesIn(handling.batch)

TInv == TypeOK /\ Serving

\* What a save that is due finds: its batch and trace are known, and others are idle.
LEMMA SaveGroupEffect ==
    ASSUME TInv, NEW t \in TraceIds, SaveGroup(t)
    PROVE  \E b \in Readable :
              /\ b = handling.batch /\ t \in TracesIn(b)
              /\ handling.left \subseteq TracesIn(b) /\ t \in handling.left
              /\ traces' = UpsertTrace(traces, TraceDoc(b, t))
              /\ spans' = UpsertSpans(spans, b, t)
              /\ handling'.batch = b /\ handling'.left = handling.left \ {t}
              /\ UNCHANGED <<pending, acknowledged>>
<1>1. t \in handling.left
  BY DEF SaveGroup, IsNext
<1>2. handling # Idle
  BY <1>1 DEF Idle
<1>3. handling.batch \in Readable /\ handling.left \subseteq TracesIn(handling.batch)
  BY <1>2 DEF TInv, Serving
<1>4. handling'.batch = handling.batch /\ handling'.left = handling.left \ {t}
  BY DEF SaveGroup, TInv, TypeOK
<1> QED
  BY <1>1, <1>3, <1>4 DEF SaveGroup

LEMMA TypesHold == Spec => []TInv
<1>1. Init => TInv
  BY DEF Init, TInv, TypeOK, Serving, Idle, TracesTable, SpansTable
<1>2. TInv /\ [Next]_vars => TInv'
  <2> SUFFICES ASSUME TInv, [Next]_vars
               PROVE  TInv'
    OBVIOUS
  <2>1. \A b \in Readable : b \in Batches /\ TracesIn(b) \subseteq TraceIds
    BY GroupFacts DEF Readable
  <2>2. ASSUME NEW b \in Batches, Post(b) \/ Lose(b) \/ Refuse(b)
        PROVE  TInv'
    BY <2>2 DEF Post, Lose, Refuse, TInv, TypeOK, Serving
  <2>3. ASSUME NEW b \in Batches, Receive(b)
        PROVE  TInv'
    BY <2>1, <2>3 DEF Receive, TInv, TypeOK, Serving
  <2>4. ASSUME NEW t \in TraceIds, SaveGroup(t)
        PROVE  TInv'
    <3>1. PICK b \in Readable :
              /\ b = handling.batch /\ t \in TracesIn(b)
              /\ handling.left \subseteq TracesIn(b) /\ t \in handling.left
              /\ traces' = UpsertTrace(traces, TraceDoc(b, t))
              /\ spans' = UpsertSpans(spans, b, t)
              /\ handling'.batch = b /\ handling'.left = handling.left \ {t}
              /\ UNCHANGED <<pending, acknowledged>>
      BY <2>4, SaveGroupEffect
    <3>2. traces' \in TracesTable /\ spans' \in SpansTable
      BY <2>1, <3>1, UpsertTraceEffect, UpsertSpansEffect DEF TInv, TypeOK
    <3> QED
      BY <2>1, <3>1, <3>2 DEF TInv, TypeOK, Serving
  <2>5. CASE Respond \/ SaveFails \/ Crash
    <3>1. handling' = Idle /\ UNCHANGED <<traces, spans, pending>>
      BY <2>5 DEF Respond, Succeed, SaveFails, Crash
    <3>2. acknowledged' \in {acknowledged, acknowledged \cup {handling.batch}}
      BY <2>5 DEF Respond, Succeed, SaveFails, Crash
    <3>3. acknowledged' # acknowledged => handling # Idle
      BY <2>5 DEF Respond, SaveFails, Crash
    <3>4. acknowledged' \subseteq Batches
      BY <2>1, <3>2, <3>3 DEF TInv, TypeOK, Serving
    <3> QED
      BY <3>1, <3>4 DEF TInv, TypeOK, Serving, Idle
  <2>6. CASE UNCHANGED vars
    BY <2>6 DEF vars, TInv, TypeOK, Serving
  <2> QED
    BY <2>2, <2>3, <2>4, <2>5, <2>6 DEF Next
<1> QED
  BY <1>1, <1>2, PTL DEF Spec

\* The tables keep the types of their columns and the handler works on groups of a batch
\* it can read, whatever arrives: the times and the status taken from a group exist.
THEOREM TypeCorrect == Spec => []TypeOK
BY TypesHold, PTL DEF TInv

-----------------------------------------------------------------------------
(* Where rows come from *)

\* A trace row has its start from one batch and the rest from one; a span row too.
TracesAreSent ==
    \A t \in TraceIds : traces[t] # None =>
        /\ \E b \in Readable : t \in TracesIn(b) /\ traces[t].start = TraceDoc(b, t).start
        /\ \E b \in Readable : t \in TracesIn(b) /\ traces[t].content = TraceDoc(b, t).content

SpansAreSent ==
    \A s \in SpanIds : spans[s] # None =>
        /\ traces[spans[s].trace] # None
        /\ \E b \in Readable : /\ spans[s].trace \in TracesIn(b)
                               /\ \E f \in Group(b, spans[s].trace) :
                                     f.span = s /\ spans[s].start = f.start
        /\ \E b \in Readable : /\ spans[s].trace \in TracesIn(b)
                               /\ \E l \in Group(b, spans[s].trace) :
                                     l.span = s /\ spans[s].content = SpanFromOtlp(l).content

RowsAreSent == TracesAreSent /\ SpansAreSent

LEMMA RowsAreSentHolds ==
    ASSUME OneTraceEach
    PROVE  Spec => []RowsAreSent
<1>1. Init => RowsAreSent
  BY DEF Init, RowsAreSent, TracesAreSent, SpansAreSent
<1>2. TInv /\ RowsAreSent /\ [Next]_vars => RowsAreSent'
  <2> SUFFICES ASSUME TInv, RowsAreSent, [Next]_vars
               PROVE  RowsAreSent'
    OBVIOUS
  <2>1. ASSUME NEW t \in TraceIds, SaveGroup(t)
        PROVE  RowsAreSent'
    <3>1. PICK b \in Readable :
              /\ b = handling.batch /\ t \in TracesIn(b)
              /\ traces' = UpsertTrace(traces, TraceDoc(b, t))
              /\ spans' = UpsertSpans(spans, b, t)
      BY <2>1, SaveGroupEffect
    <3>2. b \in Batches /\ traces \in TracesTable /\ spans \in SpansTable
      BY DEF Readable, TInv, TypeOK
    <3>3. /\ \A u \in TraceIds : u # t => traces'[u] = traces[u]
          /\ traces'[t] # None /\ traces'[t].content = TraceDoc(b, t).content
          /\ traces'[t].start = IF traces[t] = None THEN TraceDoc(b, t).start
                                                    ELSE traces[t].start
      BY <3>1, <3>2, UpsertTraceEffect
    <3>4. TracesAreSent'
      BY <3>1, <3>3 DEF RowsAreSent, TracesAreSent
    <3>5. SpansAreSent'
      <4> SUFFICES ASSUME NEW s \in SpanIds, spans'[s] # None
                   PROVE  /\ traces'[spans'[s].trace] # None
                          /\ \E c \in Readable :
                                /\ spans'[s].trace \in TracesIn(c)
                                /\ \E f \in Group(c, spans'[s].trace) :
                                      f.span = s /\ spans'[s].start = f.start
                          /\ \E c \in Readable :
                                /\ spans'[s].trace \in TracesIn(c)
                                /\ \E l \in Group(c, spans'[s].trace) :
                                      l.span = s /\ spans'[s].content = SpanFromOtlp(l).content
        BY DEF SpansAreSent
      <4>1. /\ spans[s] # None => /\ spans'[s].trace = spans[s].trace
                                  /\ spans'[s].start = spans[s].start
            /\ spans[s] = None =>
                  /\ spans'[s].trace = t
                  /\ \E f \in Group(b, t) : f.span = s /\ spans'[s].start = f.start
            /\ \/ spans'[s] = spans[s]
               \/ \E l \in Group(b, t) :
                     l.span = s /\ spans'[s].content = SpanFromOtlp(l).content
        BY <3>1, <3>2, UpsertSpansEffect
      <4>2. spans[s] # None =>
              /\ spans[s].trace \in TraceIds /\ traces[spans[s].trace] # None
              /\ \E c \in Readable : /\ spans[s].trace \in TracesIn(c)
                                     /\ \E f \in Group(c, spans[s].trace) :
                                           f.span = s /\ spans[s].start = f.start
              /\ \E c \in Readable :
                    /\ spans[s].trace \in TracesIn(c)
                    /\ \E l \in Group(c, spans[s].trace) :
                          l.span = s /\ spans[s].content = SpanFromOtlp(l).content
        BY <3>2 DEF RowsAreSent, SpansAreSent, SpansTable, SpanRow
      <4>3. traces'[spans'[s].trace] # None
        BY <3>3, <4>1, <4>2
      <4>4. spans[s] # None /\ (\E l \in Group(b, t) : l.span = s) => spans[s].trace = t
        BY <3>1, <4>2 DEF OneTraceEach
      <4>5. CASE spans[s] = None
        BY <3>1, <4>1, <4>3, <4>5
      <4>6. CASE spans[s] # None
        BY <3>1, <4>1, <4>2, <4>3, <4>4, <4>6
      <4> QED
        BY <4>5, <4>6
    <3> QED
      BY <3>4, <3>5 DEF RowsAreSent
  <2>2. CASE UNCHANGED <<traces, spans>>
    BY <2>2 DEF RowsAreSent, TracesAreSent, SpansAreSent
  <2>3. (\A t \in TraceIds : ~ SaveGroup(t)) => UNCHANGED <<traces, spans>>
    BY DEF Next, vars, Post, Lose, Refuse, Receive, Respond, Succeed, SaveFails, Crash
  <2> QED
    BY <2>1, <2>2, <2>3
<1> QED
  BY <1>1, <1>2, TypesHold, PTL DEF Spec

\* A trace that came in one batch, as often as that was posted, is ERROR if one of its
\* stored spans is, provided that no other trace has spans of the same ids.
THEOREM WholeTracesAreHonest ==
    ASSUME OneTraceEach
    PROVE  Spec => []WholeTraceIsHonest
<1>1. TInv /\ RowsAreSent => WholeTraceIsHonest
  <2> SUFFICES ASSUME TInv, RowsAreSent, NEW t \in TraceIds, InOneBatch(t),
                      NEW s \in SpansOf(spans, t), spans[s].content.status = "ERROR"
               PROVE  traces[t].content.status = "ERROR"
    BY DEF WholeTraceIsHonest, TellsStatus
  <2>1. s \in SpanIds /\ spans[s] # None /\ spans[s].trace = t /\ traces[t] # None
    BY DEF SpansOf, RowsAreSent, SpansAreSent
  <2>2. PICK b \in Readable : \A c \in Readable : t \in TracesIn(c) <=> c = b
    BY DEF InOneBatch
  <2>3. traces[t].content = TraceDoc(b, t).content
    BY <2>1, <2>2 DEF RowsAreSent, TracesAreSent
  <2>4. PICK l \in Group(b, t) : spans[s].content = SpanFromOtlp(l).content
    BY <2>1, <2>2 DEF RowsAreSent, SpansAreSent
  <2>5. b \in Batches /\ t \in TracesIn(b)
    BY <2>2 DEF Readable
  <2>6. StatusOfSpan(l) = "ERROR"
    BY <2>4, <2>5, GroupFacts, SpanFromOtlpFacts
  <2> QED
    BY <2>3, <2>5, <2>6, TraceDocFacts
<1> QED
  BY <1>1, TypesHold, RowsAreSentHolds, PTL

-----------------------------------------------------------------------------
(* Whole groups *)

LEMMA SentOnceIsOneBatchEach == SentOnce => OneBatchEach
<1> SUFFICES ASSUME SentOnce, NEW b \in Readable, NEW c \in Readable,
                    NEW t \in TracesIn(b), NEW u \in TracesIn(c),
                    NEW x \in Group(b, t), NEW y \in Group(c, u), x.span = y.span
             PROVE  b = c /\ t = u
  BY DEF OneBatchEach
<1>1. PICK i \in SpansOfTrace(b, t) : x = Payload[b][i]
  BY DEF Group
<1>2. PICK j \in SpansOfTrace(c, u) : y = Payload[c][j]
  BY DEF Group
<1>3. b = c /\ i = j
  BY <1>1, <1>2 DEF SentOnce
<1> QED
  BY <1>1, <1>2, <1>3 DEF SpansOfTrace

LEMMA OnlyOneSpan ==
    ASSUME SentOnce, NEW b \in Readable, NEW t \in TracesIn(b), NEW x \in Group(b, t),
           NEW c \in Readable, NEW u \in TracesIn(c), NEW y \in Group(c, u), y.span = x.span
    PROVE  y = x /\ u = t
<1>1. PICK i \in SpansOfTrace(b, t) : x = Payload[b][i]
  BY DEF Group
<1>2. PICK j \in SpansOfTrace(c, u) : y = Payload[c][j]
  BY DEF Group
<1>3. b = c /\ i = j
  BY <1>1, <1>2 DEF SentOnce
<1> QED
  BY <1>1, <1>2, <1>3 DEF SpansOfTrace

LEMMA OneBatchIsOneTraceEach == OneBatchEach => OneTraceEach
BY DEF OneBatchEach, OneTraceEach

\* A group is in the tables as one batch has it.
StoredAs(b, t) ==
    /\ traces[t].content = TraceDoc(b, t).content
    /\ \A raw \in Group(b, t) :
          spans[raw.span] = [trace |-> t, start |-> raw.start,
                             content |-> SpanFromOtlp(raw).content]

WholeGroups == \A t \in TraceIds : traces[t] # None =>
                  \E b \in Readable : t \in TracesIn(b) /\ StoredAs(b, t)

LEMMA WholeGroupsHold ==
    ASSUME SentOnce
    PROVE  Spec => []WholeGroups
<1>0. OneBatchEach /\ OneTraceEach
  BY SentOnceIsOneBatchEach, OneBatchIsOneTraceEach
<1>1. Init => WholeGroups
  BY DEF Init, WholeGroups
<1>2. TInv /\ RowsAreSent /\ WholeGroups /\ [Next]_vars => WholeGroups'
  <2> SUFFICES ASSUME TInv, RowsAreSent, WholeGroups, [Next]_vars
               PROVE  WholeGroups'
    OBVIOUS
  <2>1. ASSUME NEW t \in TraceIds, SaveGroup(t)
        PROVE  WholeGroups'
    <3>1. PICK b \in Readable :
              /\ b = handling.batch /\ t \in TracesIn(b)
              /\ traces' = UpsertTrace(traces, TraceDoc(b, t))
              /\ spans' = UpsertSpans(spans, b, t)
      BY <2>1, SaveGroupEffect
    <3>2. b \in Batches /\ traces \in TracesTable /\ spans \in SpansTable
      BY DEF Readable, TInv, TypeOK
    <3>3. /\ \A u \in TraceIds : u # t => traces'[u] = traces[u]
          /\ traces'[t].content = TraceDoc(b, t).content
      BY <3>1, <3>2, UpsertTraceEffect
    <3>4. \A s \in SpanIds : Merges(spans, spans', Group(b, t), s)
      BY <3>1, <3>2, UpsertSpansMerges
    <3>5. Group(b, t) \subseteq RawSpan
          /\ \A raw \in Group(b, t) : raw.span \in SpanIds /\ raw.trace = t
      BY <3>1, <3>2, GroupFacts
    <3>6. ASSUME NEW raw \in Group(b, t)
          PROVE  spans'[raw.span] = [trace |-> t, start |-> raw.start,
                                     content |-> SpanFromOtlp(raw).content]
      <4>1. \A c \in Readable : \A u \in TracesIn(c) : \A y \in Group(c, u) :
               y.span = raw.span => y = raw /\ u = t
        BY <3>1, OnlyOneSpan
      <4>2. spans'[raw.span] =
              MergedRow(spans[raw.span], SpanFromOtlp(raw), SpanFromOtlp(raw))
        BY <3>1, <3>4, <3>5, <4>1 DEF Merges
      <4>3. /\ SpanFromOtlp(raw).start = raw.start
            /\ SpanFromOtlp(raw).trace = t
        BY <3>5, SpanFromOtlpFacts
      <4>4. spans[raw.span] # None => /\ spans[raw.span].trace = t
                                      /\ spans[raw.span].start = raw.start
        BY <3>5, <4>1 DEF RowsAreSent, SpansAreSent
      <4> QED
        BY <4>2, <4>3, <4>4 DEF MergedRow
    <3>7. StoredAs(b, t)'
      BY <3>3, <3>6 DEF StoredAs
    <3>8. ASSUME NEW u \in TraceIds, u # t, traces'[u] # None
          PROVE  \E c \in Readable : u \in TracesIn(c) /\ StoredAs(c, u)'
      <4>1. PICK c \in Readable : u \in TracesIn(c) /\ StoredAs(c, u)
        BY <3>3, <3>8 DEF WholeGroups
      <4>2. \A raw \in Group(c, u) : raw.span \in SpanIds
        BY <4>1, GroupFacts DEF Readable
      <4>3. \A raw \in Group(c, u) : \A y \in Group(b, t) : y.span # raw.span
        BY <1>0, <3>1, <3>8, <4>1 DEF OneTraceEach
      <4>4. \A raw \in Group(c, u) : spans'[raw.span] = spans[raw.span]
        BY <3>4, <4>2, <4>3 DEF Merges
      <4>5. traces'[u] = traces[u]
        BY <3>3, <3>8
      <4> QED
        BY <4>1, <4>4, <4>5 DEF StoredAs
    <3> QED
      BY <3>1, <3>7, <3>8 DEF WholeGroups
  <2>2. CASE UNCHANGED <<traces, spans>>
    BY <2>2 DEF WholeGroups, StoredAs
  <2>3. (\A t \in TraceIds : ~ SaveGroup(t)) => UNCHANGED <<traces, spans>>
    BY DEF Next, vars, Post, Lose, Refuse, Receive, Respond, Succeed, SaveFails, Crash
  <2> QED
    BY <2>1, <2>2, <2>3
<1> QED
  BY <1>0, <1>1, <1>2, TypesHold, RowsAreSentHolds, PTL DEF Spec

\* If no span is sent twice but in a repetition of its batch, a stored trace has all the
\* spans that the batch behind its row has for it, as that batch has them, whatever is
\* lost, repeated, reordered or interrupted.
THEOREM StoredGroupsAreWhole ==
    ASSUME SentOnce
    PROVE  Spec => []GroupsAreWhole
<1>1. WholeGroups => GroupsAreWhole
  <2> SUFFICES ASSUME NEW t \in TraceIds, NEW b \in Readable, t \in TracesIn(b), StoredAs(b, t),
                      NEW i \in 1..Len(Payload[b]), Payload[b][i].trace = t
               PROVE  LET d == SpanFromOtlp(Payload[b][i])
                      IN  spans[d.span] = [trace |-> t, start |-> d.start, content |-> d.content]
    BY DEF WholeGroups, GroupsAreWhole, StoredAs
  <2>1. Payload[b][i] \in Group(b, t) /\ b \in Batches
    BY DEF Group, SpansOfTrace, Readable
  <2>2. /\ SpanFromOtlp(Payload[b][i]).span = Payload[b][i].span
        /\ SpanFromOtlp(Payload[b][i]).start = Payload[b][i].start
    BY <2>1, GroupFacts, SpanFromOtlpFacts
  <2> QED
    BY <2>1, <2>2 DEF StoredAs
<1> QED
  BY <1>1, WholeGroupsHold, PTL

\* The start and end of a trace that came in one batch are those of its earliest and
\* latest span, whatever is lost, repeated or interrupted, if no span is sent twice but in
\* a repetition of its batch; only if all begin after the server's clock the start is the
\* time of arrival.
THEOREM WholeTracesHaveTheirTimes ==
    ASSUME SentOnce
    PROVE  Spec => []WholeTraceTimes
<1>1. TInv /\ RowsAreSent /\ WholeGroups => WholeTraceTimes
  <2> SUFFICES ASSUME TInv, RowsAreSent, WholeGroups,
                      NEW t \in TraceIds, InOneBatch(t), traces[t] # None
               PROVE  /\ EnclosesSpans(t)
                      /\ (\E s \in SpansOf(spans, t) : spans[s].start <= Now) =>
                           \E s \in SpansOf(spans, t) : traces[t].start = spans[s].start
                      /\ traces[t].content.end # None =>
                           \E s \in SpansOf(spans, t) : traces[t].content.end = spans[s].content.end
    BY DEF WholeTraceTimes
  <2>1. PICK b \in Readable : \A c \in Readable : t \in TracesIn(c) <=> c = b
    BY DEF InOneBatch
  <2>2. b \in Batches /\ t \in TracesIn(b)
    BY <2>1 DEF Readable
  <2>3. StoredAs(b, t)
    BY <2>1 DEF WholeGroups
  <2>4. traces[t].content = TraceDoc(b, t).content /\ traces[t].start = TraceDoc(b, t).start
    BY <2>1, <2>3 DEF RowsAreSent, TracesAreSent, StoredAs
  <2>5. ASSUME NEW s \in SpansOf(spans, t)
        PROVE  \E raw \in Group(b, t) : spans[s].start = raw.start /\ spans[s].content.end = raw.end
    <3>1. s \in SpanIds /\ spans[s] # None /\ spans[s].trace = t
      BY DEF SpansOf
    <3>2. PICK raw \in Group(b, t) : raw.span = s
      BY <2>1, <3>1 DEF RowsAreSent, SpansAreSent
    <3>3. raw \in RawSpan
      BY <2>2, GroupFacts
    <3>4. spans[s].start = raw.start /\ spans[s].content = SpanFromOtlp(raw).content
      <4>1. spans[raw.span] = [trace |-> t, start |-> raw.start,
                               content |-> SpanFromOtlp(raw).content]
        BY <2>3 DEF StoredAs
      <4> QED
        BY <3>2, <4>1
    <3> QED
      BY <3>3, <3>4, SpanFromOtlpFacts
  <2>6. ASSUME NEW raw \in Group(b, t)
        PROVE  \E s \in SpansOf(spans, t) : spans[s].start = raw.start /\ spans[s].content.end = raw.end
    <3>1. raw \in RawSpan /\ raw.span \in SpanIds
      BY <2>2, GroupFacts
    <3>2. spans[raw.span] = [trace |-> t, start |-> raw.start, content |-> SpanFromOtlp(raw).content]
      BY <2>3 DEF StoredAs
    <3>3. spans[raw.span] \in SpanRow
      BY <3>1, <3>2, SpanFromOtlpFacts DEF SpanRow
    <3>4. raw.span \in SpansOf(spans, t)
      BY <3>1, <3>2, <3>3, NoneAssumption DEF SpansOf
    <3> QED
      BY <3>1, <3>2, <3>4, SpanFromOtlpFacts
  <2>7. EnclosesSpans(t)
    BY <2>2, <2>4, <2>5, TraceDocFacts DEF EnclosesSpans
  <2>8. ASSUME NEW s \in SpansOf(spans, t), spans[s].start <= Now
        PROVE  \E u \in SpansOf(spans, t) : traces[t].start = spans[u].start
    <3>1. CASE traces[t].start # Now
      BY <2>2, <2>4, <2>6, <3>1, TraceDocFacts
    <3>2. CASE traces[t].start = Now
      <4>1. PICK raw \in Group(b, t) : spans[s].start = raw.start
        BY <2>5
      <4>2. raw.start \in Times
        BY <2>2, GroupFacts DEF RawSpan
      <4>3. traces[t].start <= spans[s].start
        BY <2>7 DEF EnclosesSpans
      <4>4. Now <= raw.start /\ raw.start <= Now
        BY <2>8, <3>2, <4>1, <4>3
      <4>5. raw.start \in Int /\ Now \in Int
        BY <4>2, NowAssumption, TimesAssumption
      <4>6. raw.start = Now
        BY <4>4, <4>5
      <4> QED
        BY <3>2, <4>1, <4>6
    <3> QED
      BY <3>1, <3>2
  <2>9. traces[t].content.end # None =>
          \E s \in SpansOf(spans, t) : traces[t].content.end = spans[s].content.end
    BY <2>2, <2>4, <2>6, TraceDocFacts
  <2> QED
    BY <2>7, <2>8, <2>9
<1>2. OneTraceEach
  BY SentOnceIsOneBatchEach, OneBatchIsOneTraceEach
<1> QED
  BY <1>1, <1>2, TypesHold, RowsAreSentHolds, WholeGroupsHold, PTL

-----------------------------------------------------------------------------
(* The abstract delivery *)

\* What of its batch a request has got to is delivered.
Promised ==
    handling = Idle \/ TracesIn(handling.batch) \ handling.left \subseteq Delivered(handling.batch)

\* A save delivers its group, takes no other back and delivers no other.
LEMMA DeliveredAfterSave ==
    ASSUME OneBatchEach, TInv, RowsAreSent, NEW b \in Readable, NEW t \in TracesIn(b),
           traces' = UpsertTrace(traces, TraceDoc(b, t)),
           spans' = UpsertSpans(spans, b, t),
           NEW c \in Batches
    PROVE  Delivered(c)' = IF c = b THEN Delivered(b) \cup {t} ELSE Delivered(c)
<1>0. b \in Batches /\ traces \in TracesTable /\ spans \in SpansTable /\ t \in TraceIds
  BY GroupFacts DEF Readable, TInv, TypeOK
<1>1. /\ \A u \in TraceIds : u # t => traces'[u] = traces[u]
      /\ traces'[t] # None
  BY <1>0, UpsertTraceEffect
<1>2. /\ \A s \in SpanIds : spans[s] # None => /\ spans'[s] # None
                                               /\ spans'[s].trace = spans[s].trace
      /\ \A s \in SpanIds : spans[s] = None /\ spans'[s] # None =>
            spans'[s].trace = t /\ \E f \in Group(b, t) : f.span = s
      /\ \A s \in SpanIds : (\E raw \in Group(b, t) : raw.span = s) => spans'[s] # None
  BY <1>0, UpsertSpansEffect
<1>3. ASSUME NEW d \in Readable, NEW u \in TracesIn(d), NEW raw \in Group(d, u)
      PROVE  raw.span \in SpanIds /\ raw.trace = u /\ u \in TraceIds
  BY GroupFacts DEF Readable
<1>4. ASSUME NEW raw, StoredUnder(raw), raw.span \in SpanIds
      PROVE  StoredUnder(raw)'
  BY <1>2, <1>4 DEF StoredUnder
<1>5. ASSUME NEW u \in Delivered(c)
      PROVE  u \in Delivered(c)'
  <2>1. /\ u \in TracesIn(c) /\ c \in Readable /\ traces[u] # None
        /\ \A raw \in Group(c, u) : StoredUnder(raw)
    BY DEF Delivered
  <2>2. traces'[u] # None
    BY <1>1, <2>1, GroupFacts
  <2>3. \A raw \in Group(c, u) : StoredUnder(raw)'
    BY <1>3, <1>4, <2>1
  <2> QED
    BY <2>1, <2>2, <2>3 DEF Delivered
<1>6. t \in Delivered(b)'
  <2>1. ASSUME NEW raw \in Group(b, t)
        PROVE  StoredUnder(raw)'
    <3>1. raw.span \in SpanIds /\ raw.trace = t
      BY <1>3
    <3>2. spans'[raw.span] # None
      BY <1>2, <3>1
    <3>3. spans[raw.span] # None => spans[raw.span].trace = t
      BY <3>1 DEF RowsAreSent, SpansAreSent, OneBatchEach
    <3> QED
      BY <1>2, <3>1, <3>2, <3>3 DEF StoredUnder
  <2> QED
    BY <1>1, <2>1 DEF Delivered
<1>7. ASSUME NEW u \in Delivered(c)', u \notin Delivered(c)
      PROVE  c = b /\ u = t
  <2>1. /\ u \in TracesIn(c) /\ c \in Readable /\ traces'[u] # None
        /\ \A raw \in Group(c, u) : StoredUnder(raw)'
    BY <1>7 DEF Delivered
  <2>2. u \in TraceIds /\ Group(c, u) # {}
    BY <2>1, GroupFacts
  <2>3. PICK raw \in Group(c, u) : traces[u] # None => ~ StoredUnder(raw)
    BY <1>7, <2>1, <2>2 DEF Delivered
  <2>4. raw.span \in SpanIds /\ raw.trace = u
    BY <1>3, <2>1
  <2>5. StoredUnder(raw) => traces[u] # None
    BY <2>4 DEF StoredUnder, RowsAreSent, SpansAreSent
  <2>6. ~ StoredUnder(raw) /\ spans'[raw.span] # None /\ spans'[raw.span].trace = u
    BY <2>1, <2>3, <2>4, <2>5 DEF StoredUnder
  <2>7. spans[raw.span] = None
    BY <1>2, <2>4, <2>6 DEF StoredUnder
  <2>8. PICK f \in Group(b, t) : f.span = raw.span
    BY <1>2, <2>4, <2>6, <2>7
  <2> QED
    BY <2>1, <2>8 DEF OneBatchEach
<1>8. c = b => Delivered(c)' = Delivered(b) \cup {t}
  BY <1>5, <1>6, <1>7
<1>9. c # b => Delivered(c)' = Delivered(c)
  BY <1>5, <1>7
<1> QED
  BY <1>8, <1>9

LEMMA PromisedHolds ==
    ASSUME OneBatchEach
    PROVE  Spec => []Promised
<1>0. OneTraceEach
  BY OneBatchIsOneTraceEach
<1>1. Init => Promised
  BY DEF Init, Promised
<1>2. TInv /\ RowsAreSent /\ Promised /\ [Next]_vars => Promised'
  <2> SUFFICES ASSUME TInv, RowsAreSent, Promised, [Next]_vars
               PROVE  Promised'
    OBVIOUS
  <2>1. ASSUME NEW t \in TraceIds, SaveGroup(t)
        PROVE  Promised'
    <3>1. PICK b \in Readable :
              /\ b = handling.batch /\ t \in TracesIn(b) /\ t \in handling.left
              /\ traces' = UpsertTrace(traces, TraceDoc(b, t))
              /\ spans' = UpsertSpans(spans, b, t)
              /\ handling'.batch = b /\ handling'.left = handling.left \ {t}
      BY <2>1, SaveGroupEffect
    <3>2. Delivered(b)' = Delivered(b) \cup {t}
      BY <3>1, DeliveredAfterSave DEF Readable
    <3>3. TracesIn(b) \ handling.left \subseteq Delivered(b)
      BY <3>1 DEF Promised, Idle
    <3>4. TracesIn(b) \ handling'.left \subseteq Delivered(b)'
      BY <3>1, <3>2, <3>3
    <3> QED
      BY <3>1, <3>4 DEF Promised
  <2>2. ASSUME NEW b \in Batches, Receive(b)
        PROVE  Promised'
    <3>1. handling'.batch = b /\ handling'.left = TracesIn(b)
      BY <2>2 DEF Receive
    <3> QED
      BY <3>1 DEF Promised
  <2>3. CASE handling' = Idle
    BY <2>3 DEF Promised, Idle
  <2>4. CASE UNCHANGED <<traces, spans, handling>>
    BY <2>4 DEF Promised, Delivered, StoredUnder
  <2> QED
    BY <2>1, <2>2, <2>3, <2>4
    DEF Next, vars, Post, Lose, Refuse, Respond, Succeed, SaveFails, Crash
<1> QED
  BY <1>0, <1>1, <1>2, TypesHold, RowsAreSentHolds, PTL DEF Spec

\* The server delivers the groups of a batch whole and for good, one by one, and answers
\* with success only when all are there: each step of it is a step of the abstract
\* delivery or none, if no span is in two batches.
THEOREM IngestImplementsDelivery ==
    ASSUME OneBatchEach
    PROVE  Spec => IngestDelivers
<1> DEFINE delivered == [b \in Batches |-> Delivered(b)]
<1>0. OneTraceEach
  BY OneBatchIsOneTraceEach
<1>1. Init => Delivery!Init
  <2> SUFFICES ASSUME Init
               PROVE  Delivery!Init
    OBVIOUS
  <2>1. \A b \in Batches : Delivered(b) = {}
    BY GroupFacts DEF Init, Delivered
  <2> QED
    BY <2>1 DEF Init, Delivery!Init
<1>2. TInv /\ RowsAreSent /\ Promised /\ [Next]_vars => [Delivery!Next]_(Delivery!vars)
  <2> SUFFICES ASSUME TInv, RowsAreSent, Promised, [Next]_vars
               PROVE  [Delivery!Next]_(Delivery!vars)
    OBVIOUS
  <2>1. ASSUME NEW t \in TraceIds, SaveGroup(t)
        PROVE  Delivery!Next
    <3>1. PICK b \in Readable :
              /\ t \in TracesIn(b) /\ UNCHANGED acknowledged
              /\ traces' = UpsertTrace(traces, TraceDoc(b, t))
              /\ spans' = UpsertSpans(spans, b, t)
      BY <2>1, SaveGroupEffect
    <3>2. b \in Batches /\ b \notin Batches \ Readable
      BY DEF Readable
    <3>3. \A c \in Batches :
             Delivered(c)' = IF c = b THEN Delivered(b) \cup {t} ELSE Delivered(c)
      BY <3>1, DeliveredAfterSave
    <3>4. delivered' = [delivered EXCEPT ![b] = @ \cup {t}]
      BY <3>2, <3>3
    <3>5. Delivery!Deliver(b, t)
      BY <3>1, <3>2, <3>4 DEF Delivery!Deliver
    <3> QED
      BY <3>1, <3>2, <3>5 DEF Delivery!Next
  <2>2. CASE UNCHANGED <<traces, spans, acknowledged>>
    <3>1. delivered' = delivered
      BY <2>2 DEF Delivered, StoredUnder
    <3> QED
      BY <2>2, <3>1 DEF Delivery!vars
  <2>3. CASE Respond /\ acknowledged' # acknowledged
    <3>1. PICK b \in Readable : b = handling.batch /\ handling.left = {} /\ handling # Idle
      BY <2>3 DEF Respond, TInv, Serving
    <3>2. acknowledged' = acknowledged \cup {b} /\ UNCHANGED <<traces, spans>>
      BY <2>3, <3>1 DEF Respond, Succeed
    <3>3. Delivered(b) = TracesIn(b)
      BY <3>1 DEF Promised, Delivered
    <3>4. delivered' = delivered
      BY <3>2 DEF Delivered, StoredUnder
    <3>5. b \in Batches /\ b \notin Batches \ Readable
      BY DEF Readable
    <3>6. Delivery!Acknowledge(b)
      BY <3>2, <3>3, <3>4, <3>5 DEF Delivery!Acknowledge
    <3> QED
      BY <3>5, <3>6 DEF Delivery!Next
  <2> QED
    BY <2>1, <2>2, <2>3
    DEF Next, vars, Post, Lose, Receive, Refuse, Respond, Succeed, SaveFails, Crash
<1> QED
  BY <1>0, <1>1, <1>2, TypesHold, RowsAreSentHolds, PromisedHolds, PTL
  DEF Spec, IngestDelivers, Delivery!Spec
=============================================================================

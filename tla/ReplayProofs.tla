---------------------------- MODULE ReplayProofs ----------------------------
(***************************************************************************)
(* Theorems of Replay for every set of traces, spans, captures, overrides  *)
(* and handlers, and chains of replays of any length.                      *)
(***************************************************************************)
EXTENDS Replay, TLAPS

-----------------------------------------------------------------------------
(* Overrides and clones *)

\* An update touches the two attributes only, and an empty one nothing.
LEMMA UpdatedFacts ==
    ASSUME NEW c \in Content, NEW o \in Override
    PROVE  /\ Updated(c, o) \in Content
           /\ Updated(c, o).type = c.type
           /\ Updated(c, o).name = c.name
           /\ o = NoOverride => /\ Updated(c, o).documents = c.documents
                                /\ Updated(c, o).safety = c.safety
<1> DEFINE d == IF o.documents = None THEN c.documents ELSE o.documents
           f == IF o.safety = None THEN c.safety ELSE o.safety
<1>1. d \in Documents /\ f \in Declared
  BY DEF Content, Override
<1>2. Updated(c, o) = [c EXCEPT !.documents = d, !.safety = f]
  BY DEF Updated
<1>3. o = NoOverride => d = c.documents /\ f = c.safety
  BY DEF NoOverride
<1> HIDE DEF d, f
<1> QED
  BY <1>1, <1>2, <1>3 DEF Content

\* The maps to fresh ids are injective, and the ids are minted and have no row.
LEMMA FreshIds ==
    ASSUME NEW read, IsRead(read), NEW idMap \in IdMaps(read)
    PROVE  /\ idMap \in [DOMAIN read -> SpanIds]
           /\ \A x, y \in DOMAIN read : idMap[x] = idMap[y] => x = y
           /\ \A x \in DOMAIN read : idMap[x] \in MintedSpans /\ spans[idMap[x]] = None
BY MintedAssumption DEF IdMaps

\* A clone has the ids of the map, ...
LEMMA CloneDomain ==
    ASSUME NEW read, IsRead(read), NEW asked \in Asked, NEW idMap \in IdMaps(read)
    PROVE  DOMAIN Clone(read, asked, idMap) = {idMap[x] : x \in DOMAIN read}
BY DEF Clone

\* ... which lead back to the spans they replace, ...
LEMMA CloneOriginal ==
    ASSUME NEW read, IsRead(read), NEW idMap \in IdMaps(read)
    PROVE  \A x \in DOMAIN read : OriginalOf(read, idMap, idMap[x]) = x
BY FreshIds DEF OriginalOf

\* ... keeps the types, and the attributes that are not overridden, ...
LEMMA CloneContent ==
    ASSUME NEW read, IsRead(read), NEW asked \in Asked, NEW idMap \in IdMaps(read)
    PROVE  \A x \in DOMAIN read :
              LET c == Clone(read, asked, idMap)[idMap[x]]
              IN  /\ c \in Content
                  /\ c.type = read[x].type
                  /\ asked[read[x].name] = NoOverride =>
                       c.documents = read[x].documents /\ c.safety = read[x].safety
<1> TAKE x \in DOMAIN read
<1> DEFINE moved == [read[x] EXCEPT !.parent = CloneParent(read, idMap, @)]
           c == Clone(read, asked, idMap)[idMap[x]]
<1>1. read[x] \in Content
  BY DEF IsRead
<1>2. asked[read[x].name] \in Override
  BY <1>1, AskedAssumption DEF Content
<1>3. CloneParent(read, idMap, read[x].parent) \in SpanIds \cup {None}
  BY <1>1, FreshIds DEF CloneParent, Content
<1>4. /\ moved \in Content
      /\ moved.type = read[x].type
      /\ moved.documents = read[x].documents
      /\ moved.safety = read[x].safety
  BY <1>1, <1>3 DEF Content
<1>5. c = Updated(moved, asked[read[x].name])
  BY CloneOriginal DEF Clone
<1> HIDE DEF moved, c
<1>6. /\ c \in Content
      /\ c.type = read[x].type
      /\ asked[read[x].name] = NoOverride =>
           c.documents = read[x].documents /\ c.safety = read[x].safety
  BY <1>2, <1>4, <1>5, UpdatedFacts
<1> QED
  BY <1>6 DEF c

\* ... and is a trace again.
LEMMA CloneIsRead ==
    ASSUME NEW read, IsRead(read), NEW asked \in Asked, NEW idMap \in IdMaps(read)
    PROVE  IsRead(Clone(read, asked, idMap))
<1> DEFINE clone == Clone(read, asked, idMap)
<1>1. DOMAIN clone = {idMap[x] : x \in DOMAIN read}
  BY CloneDomain
<1>2. DOMAIN clone \subseteq SpanIds
  BY <1>1, FreshIds
<1>3. \A s \in DOMAIN clone : clone[s] \in Content
  BY <1>1, CloneContent
<1>4. clone = [s \in DOMAIN clone |-> clone[s]]
  BY DEF Clone
<1> HIDE DEF clone
<1>5. IsRead(clone)
  BY <1>2, <1>3, <1>4 DEF IsRead
<1> QED
  BY <1>5 DEF clone

\* A saved document gives every span it names a row with its content, that of the
\* trace it is saved under if it had none.
LEMMA SaveFacts ==
    ASSUME NEW t \in TraceIds, NEW read, IsRead(read), Save(t, read),
           spans \in [SpanIds -> SpanRow \cup {None}]
    PROVE  /\ spans' \in [SpanIds -> SpanRow \cup {None}]
           /\ \A s \in SpanIds \ DOMAIN read : spans'[s] = spans[s]
           /\ \A s \in DOMAIN read :
                 /\ spans'[s] # None
                 /\ spans'[s].content = read[s]
                 /\ spans'[s].trace = IF spans[s] = None THEN t ELSE spans[s].trace
<1>1. ASSUME NEW s \in DOMAIN read
      PROVE  [trace   |-> IF spans[s] = None THEN t ELSE spans[s].trace,
              content |-> read[s]] \in SpanRow
  BY <1>1 DEF IsRead, SpanRow
<1>2. DOMAIN read \subseteq SpanIds
  BY DEF IsRead
<1> QED
  BY <1>1, <1>2, NoneAssumption DEF Save

-----------------------------------------------------------------------------
(* Types *)

LEMMA TypeInit == Init => TypeOK
BY DEF Init, TypeOK

\* get_trace returns contents by id.
LEMMA ReadTraceIsRead ==
    ASSUME NEW t, spans \in [SpanIds -> SpanRow \cup {None}]
    PROVE  IsRead(ReadTrace(t)) /\ DOMAIN ReadTrace(t) = SpansOf(t)
BY DEF IsRead, ReadTrace, SpansOf, SpanRow

LEMMA TypeCapture ==
    ASSUME TypeOK, NEW d \in Captures, Capture(d)
    PROVE  TypeOK'
<1>1. d.trace \in TraceIds /\ IsRead(d.spans)
  BY CapturesAssumption
<1>2. Save(d.trace, d.spans)
  BY DEF Capture
<1>3. stored' = stored \cup {d.trace}
  BY <1>2 DEF Save
<1>4. spans' \in [SpanIds -> SpanRow \cup {None}]
  BY <1>1, <1>2, SaveFacts DEF TypeOK
<1>5. \A s \in SpanIds : spans'[s] # None => spans'[s].trace \in stored'
  BY <1>1, <1>2, <1>3, SaveFacts DEF TypeOK
<1> QED
  BY <1>1, <1>3, <1>4, <1>5 DEF Capture, TypeOK

LEMMA TypeFetch ==
    ASSUME TypeOK, NEW h \in Handlers, NEW t \in TraceIds, NEW asked \in Asked,
           NEW allowUnsafe \in BOOLEAN, Fetch(h, t, asked, allowUnsafe)
    PROVE  TypeOK'
<1>1. IsRequest([trace |-> t, read |-> ReadTrace(t), asked |-> asked,
                 allowUnsafe |-> allowUnsafe])
  BY ReadTraceIsRead DEF IsRequest, TypeOK
<1> QED
  BY <1>1 DEF Fetch, TypeOK

LEMMA TypeAbandon ==
    ASSUME TypeOK, NEW h \in Handlers, Abandon(h)
    PROVE  TypeOK'
BY DEF Abandon, TypeOK

LEMMA TypeSaveClone ==
    ASSUME TypeOK, NEW h \in Handlers, SaveClone(h)
    PROVE  TypeOK'
<1> DEFINE q == request[h]
<1>1. IsRequest(q)
  BY DEF SaveClone, TypeOK
<1>2. PICK t \in MintedTraces \ stored, idMap \in IdMaps(q.read) :
        LET clone == Clone(q.read, q.asked, idMap)
        IN  /\ Save(t, clone)
            /\ answer' = [answer EXCEPT ![h] =
                 [resolved |-> RulesFired(q.read) \ RulesFired(clone),
                  new      |-> RulesFired(clone) \ RulesFired(q.read),
                  edited   |-> \E x \in DOMAIN q.read :
                                   /\ q.read[x].type = "RETRIEVAL"
                                   /\ q.asked[q.read[x].name].documents # None]]
            /\ captured' = [s \in SpanIds |->
                 IF s \notin DOMAIN clone THEN captured[s]
                 ELSE LET x == OriginalOf(q.read, idMap, s)
                      IN  IF captured[x] = None THEN q.read[x] ELSE captured[x]]
            /\ confirmed' = IF q.allowUnsafe \/ q.trace \in confirmed
                            THEN confirmed \cup {t} ELSE confirmed
  BY DEF SaveClone
<1> DEFINE clone == Clone(q.read, q.asked, idMap)
<1>3. IsRead(q.read) /\ q.asked \in Asked /\ q.read \in [DOMAIN q.read -> Content]
  BY <1>1 DEF IsRequest, IsRead
<1>4. /\ IsRead(clone)
      /\ DOMAIN clone = {idMap[x] : x \in DOMAIN q.read}
      /\ \A x \in DOMAIN q.read : OriginalOf(q.read, idMap, idMap[x]) = x
  <2>1. IsRead(clone)
    BY <1>3, CloneIsRead
  <2>2. DOMAIN clone = {idMap[x] : x \in DOMAIN q.read}
    BY ZenonT(40), <1>3, CloneDomain
  <2>3. \A x \in DOMAIN q.read : OriginalOf(q.read, idMap, idMap[x]) = x
    BY <1>3, CloneOriginal
  <2> QED
    BY <2>1, <2>2, <2>3
<1>5. t \in TraceIds
  BY MintedAssumption
<1>6. Save(t, clone) /\ stored' = stored \cup {t}
  BY <1>2 DEF Save
<1> HIDE DEF clone
<1>7. spans' \in [SpanIds -> SpanRow \cup {None}]
  BY <1>4, <1>5, <1>6, SaveFacts DEF TypeOK
<1>8. \A s \in SpanIds : spans'[s] # None => spans'[s].trace \in stored'
  BY <1>4, <1>5, <1>6, SaveFacts DEF TypeOK
<1>9. request' = [request EXCEPT ![h] = None]
  BY DEF SaveClone
<1>10. answer' \in [Handlers -> Answer \cup {None}]
  <2>1. \A r : RulesFired(r) \subseteq RuleIds
    BY DEF RulesFired
  <2> DEFINE edited == \E x \in DOMAIN q.read :
                          /\ q.read[x].type = "RETRIEVAL"
                          /\ q.asked[q.read[x].name].documents # None
             new == [resolved |-> RulesFired(q.read) \ RulesFired(clone),
                     new      |-> RulesFired(clone) \ RulesFired(q.read),
                     edited   |-> edited]
  <2>2. edited \in BOOLEAN
    OBVIOUS
  <2>3. new.resolved \in SUBSET RuleIds /\ new.new \in SUBSET RuleIds
    BY <2>1
  <2> HIDE DEF edited
  <2>4. new \in Answer
    BY <2>2, <2>3 DEF Answer
  <2>5. answer' = [answer EXCEPT ![h] = new]
    BY <1>2 DEF edited, clone
  <2> HIDE DEF new
  <2> QED
    BY <2>4, <2>5 DEF TypeOK
<1>11. captured' \in [SpanIds -> Content \cup {None}]
  <2>1. \A s \in DOMAIN clone : OriginalOf(q.read, idMap, s) \in DOMAIN q.read
    BY <1>4
  <2>2. DOMAIN q.read \subseteq SpanIds
    BY <1>3 DEF IsRead
  <2>3. captured' = [s \in SpanIds |->
          IF s \notin DOMAIN clone THEN captured[s]
          ELSE LET x == OriginalOf(q.read, idMap, s)
               IN  IF captured[x] = None THEN q.read[x] ELSE captured[x]]
    BY <1>2 DEF clone
  <2> QED
    BY <1>3, <2>1, <2>2, <2>3 DEF TypeOK
<1>12. confirmed' \subseteq TraceIds
  BY <1>2, <1>5 DEF TypeOK
<1> QED
  BY <1>5, <1>6, <1>7, <1>8, <1>9, <1>10, <1>11, <1>12 DEF TypeOK

\* The tables, the requests and the answers have the types the code gives them.
THEOREM TypeCorrect == Spec => []TypeOK
<1>1. TypeOK /\ [Next]_vars => TypeOK'
  <2> SUFFICES ASSUME TypeOK, [Next]_vars PROVE TypeOK'
    OBVIOUS
  <2>1. CASE \E d \in Captures : Capture(d)
    BY <2>1, TypeCapture
  <2>2. CASE \E h \in Handlers, t \in TraceIds, asked \in Asked, allowUnsafe \in BOOLEAN :
                Fetch(h, t, asked, allowUnsafe)
    BY <2>2, TypeFetch
  <2>3. CASE \E h \in Handlers : Abandon(h)
    BY <2>3, TypeAbandon
  <2>4. CASE \E h \in Handlers : SaveClone(h)
    BY <2>4, TypeSaveClone
  <2>5. CASE UNCHANGED vars
    BY <2>5 DEF vars, TypeOK, IsRequest
  <2> QED
    BY <2>1, <2>2, <2>3, <2>4, <2>5 DEF Next
<1> QED
  BY <1>1, TypeInit, PTL DEF Spec
-----------------------------------------------------------------------------
(* The inductive invariant *)

\* The rows under minted ids are those of replays, ...
ReplayRowsMinted ==
    \A s \in SpanIds : spans[s] # None =>
        (s \in MintedSpans <=> spans[s].trace \in MintedTraces)

\* ... each knows the content its chain began with, whose type it has kept, ...
ReplayRowsCaptured ==
    \A s \in SpanIds :
        /\ s \notin MintedSpans => captured[s] = None
        /\ s \in MintedSpans /\ spans[s] # None =>
             captured[s] # None /\ captured[s].type = spans[s].content.type

\* ... and no rule raises on it.
NoReplayRaises ==
    \A s \in SpanIds : s \in MintedSpans /\ spans[s] # None =>
        ~ (spans[s].content.type = "RETRIEVAL" /\ spans[s].content.documents = "mixed")

\* What a handler has read of a replay is still what is stored; what it has read of
\* a captured trace need not be, but was no replay's.
ReadsOfReplaysCurrent ==
    \A h \in Handlers : request[h] # None =>
        \A x \in DOMAIN request[h].read :
            IF request[h].trace \in MintedTraces
            THEN /\ x \in MintedSpans
                 /\ spans[x] # None
                 /\ spans[x].trace = request[h].trace
                 /\ spans[x].content = request[h].read[x]
            ELSE x \notin MintedSpans

IInv ==
    /\ TypeOK
    /\ ReplayRowsMinted
    /\ ReplayRowsCaptured
    /\ NoReplayRaises
    /\ ReadsOfReplaysCurrent
    /\ UnconfirmedKeepsUnsafe

LEMMA InvInit == Init => IInv
BY TypeInit DEF Init, IInv, ReplayRowsMinted, ReplayRowsCaptured, NoReplayRaises,
                ReadsOfReplaysCurrent, UnconfirmedKeepsUnsafe

\* A capture leaves the minted ids alone, which gives all parts of the invariant.
LEMMA CaptureFacts ==
    ASSUME TypeOK, NEW d \in Captures, Capture(d)
    PROVE  /\ \A s \in MintedSpans : spans'[s] = spans[s]
           /\ \A s \in SpanIds : spans'[s] # spans[s] =>
                /\ spans'[s] # None
                /\ spans[s] = None => spans'[s].trace \notin MintedTraces
                /\ spans[s] # None => spans'[s].trace = spans[s].trace
           /\ UNCHANGED <<request, captured, confirmed>>
<1>1. /\ d.trace \in TraceIds \ MintedTraces
      /\ IsRead(d.spans)
      /\ DOMAIN d.spans \cap MintedSpans = {}
  BY CapturesAssumption
<1>2. Save(d.trace, d.spans)
  BY DEF Capture
<1>3. /\ \A s \in SpanIds \ DOMAIN d.spans : spans'[s] = spans[s]
      /\ \A s \in DOMAIN d.spans :
            /\ spans'[s] # None
            /\ spans'[s].trace = IF spans[s] = None THEN d.trace ELSE spans[s].trace
  BY <1>1, <1>2, SaveFacts DEF TypeOK
<1>4. UNCHANGED <<request, captured, confirmed>>
  BY DEF Capture
<1> QED
  BY <1>1, <1>3, <1>4, MintedAssumption

LEMMA InvCapture ==
    ASSUME IInv, NEW d \in Captures, Capture(d)
    PROVE  IInv'
<1>1. TypeOK'
  BY TypeCapture DEF IInv
<1>2. /\ \A s \in MintedSpans : spans'[s] = spans[s]
      /\ \A s \in SpanIds : spans'[s] # spans[s] =>
           /\ spans'[s] # None
           /\ spans[s] = None => spans'[s].trace \notin MintedTraces
           /\ spans[s] # None => spans'[s].trace = spans[s].trace
      /\ UNCHANGED <<request, captured, confirmed>>
  BY CaptureFacts DEF IInv
<1>3. ReplayRowsMinted'
  BY <1>2 DEF IInv, ReplayRowsMinted
<1>4. ReplayRowsCaptured'
  BY <1>2 DEF IInv, ReplayRowsCaptured
<1>5. NoReplayRaises'
  BY <1>2 DEF IInv, NoReplayRaises
<1>6. ReadsOfReplaysCurrent'
  BY <1>2 DEF IInv, ReadsOfReplaysCurrent
<1>7. UnconfirmedKeepsUnsafe'
  <2> SUFFICES ASSUME NEW s \in SpanIds, spans'[s] # None,
                      spans'[s].trace \in MintedTraces \ confirmed'
               PROVE  /\ captured'[s] # None
                      /\ SpanSafety(captured'[s]) # "READ_ONLY" =>
                           /\ spans'[s].content.documents = captured'[s].documents
                           /\ spans'[s].content.safety = captured'[s].safety
    BY DEF UnconfirmedKeepsUnsafe
  <2>1. s \in MintedSpans
    BY <1>3 DEF ReplayRowsMinted
  <2>2. spans'[s] = spans[s] /\ captured' = captured /\ confirmed' = confirmed
    BY <1>2, <2>1
  <2> QED
    BY <2>2 DEF IInv, UnconfirmedKeepsUnsafe
<1> QED
  BY <1>1, <1>3, <1>4, <1>5, <1>6, <1>7 DEF IInv

LEMMA InvFetch ==
    ASSUME IInv, NEW h \in Handlers, NEW t \in TraceIds, NEW asked \in Asked,
           NEW allowUnsafe \in BOOLEAN, Fetch(h, t, asked, allowUnsafe)
    PROVE  IInv'
<1>1. TypeOK'
  BY TypeFetch DEF IInv
<1>2. UNCHANGED <<stored, spans, captured, confirmed>>
  BY DEF Fetch
<1>3. request' = [request EXCEPT ![h] = [trace |-> t, read |-> ReadTrace(t),
                                         asked |-> asked, allowUnsafe |-> allowUnsafe]]
  BY DEF Fetch
<1>4. \A x \in DOMAIN ReadTrace(t) :
         x \in SpanIds /\ spans[x] # None /\ spans[x].trace = t
           /\ spans[x].content = ReadTrace(t)[x]
  BY DEF ReadTrace, SpansOf
<1>5. ReadsOfReplaysCurrent'
  BY <1>2, <1>3, <1>4 DEF IInv, TypeOK, ReadsOfReplaysCurrent, ReplayRowsMinted
<1>6. ReplayRowsMinted' /\ ReplayRowsCaptured' /\ NoReplayRaises' /\ UnconfirmedKeepsUnsafe'
  BY <1>2 DEF IInv, ReplayRowsMinted, ReplayRowsCaptured, NoReplayRaises,
              UnconfirmedKeepsUnsafe
<1> QED
  BY <1>1, <1>5, <1>6 DEF IInv

LEMMA InvAbandon ==
    ASSUME IInv, NEW h \in Handlers, Abandon(h)
    PROVE  IInv'
<1>1. TypeOK'
  BY TypeAbandon DEF IInv
<1>2. /\ UNCHANGED <<stored, spans, captured, confirmed>>
      /\ request' = [request EXCEPT ![h] = None]
  BY DEF Abandon
<1>3. ReadsOfReplaysCurrent'
  BY <1>2 DEF IInv, TypeOK, ReadsOfReplaysCurrent
<1>4. ReplayRowsMinted' /\ ReplayRowsCaptured' /\ NoReplayRaises' /\ UnconfirmedKeepsUnsafe'
  BY <1>2 DEF IInv, ReplayRowsMinted, ReplayRowsCaptured, NoReplayRaises,
              UnconfirmedKeepsUnsafe
<1> QED
  BY <1>1, <1>3, <1>4 DEF IInv

\* What a saved replay is: new rows under minted ids, one for each span that was read,
\* permitted and seen by the rules; every other row is as it was.
LEMMA SaveCloneFacts ==
    ASSUME TypeOK, NEW h \in Handlers, SaveClone(h)
    PROVE  LET q == request[h]
           IN  \E t \in MintedTraces, idMap \in IdMaps(q.read) :
                 /\ t \notin stored
                 /\ t \notin confirmed' =>
                      /\ q.trace \notin confirmed
                      /\ UnsafeSteps(q.read, q.asked) = {}
                 /\ confirmed \subseteq confirmed'
                 /\ \A s \in SpanIds : s \notin {idMap[x] : x \in DOMAIN q.read} =>
                      spans'[s] = spans[s] /\ captured'[s] = captured[s]
                 /\ \A x \in DOMAIN q.read :
                      LET c == Clone(q.read, q.asked, idMap)[idMap[x]]
                      IN  /\ spans'[idMap[x]] # None
                          /\ spans'[idMap[x]].trace = t
                          /\ spans'[idMap[x]].content = c
                          /\ ~ (c.type = "RETRIEVAL" /\ c.documents = "mixed")
                          /\ captured'[idMap[x]] = IF captured[x] = None THEN q.read[x]
                                                   ELSE captured[x]
<1> DEFINE q == request[h]
<1>1. IsRead(q.read) /\ q.asked \in Asked
  BY DEF SaveClone, TypeOK, IsRequest
<1>2. PICK t \in MintedTraces \ stored, idMap \in IdMaps(q.read) :
        LET clone == Clone(q.read, q.asked, idMap)
        IN  /\ RulesPass(q.read, clone)
            /\ Save(t, clone)
            /\ captured' = [s \in SpanIds |->
                 IF s \notin DOMAIN clone THEN captured[s]
                 ELSE LET x == OriginalOf(q.read, idMap, s)
                      IN  IF captured[x] = None THEN q.read[x] ELSE captured[x]]
            /\ confirmed' = IF q.allowUnsafe \/ q.trace \in confirmed
                            THEN confirmed \cup {t} ELSE confirmed
  BY DEF SaveClone
<1>3. q.allowUnsafe \/ UnsafeSteps(q.read, q.asked) = {}
  BY DEF SaveClone, Permitted, NeedsConfirmation
<1> DEFINE clone == Clone(q.read, q.asked, idMap)
<1>4. IsRead(clone)
  BY <1>1, CloneIsRead
<1>5. DOMAIN clone = {idMap[x] : x \in DOMAIN q.read}
  BY <1>1, CloneDomain
<1>6. \A x \in DOMAIN q.read : OriginalOf(q.read, idMap, idMap[x]) = x
  BY <1>1, CloneOriginal
<1>7. \A x \in DOMAIN q.read : idMap[x] \in SpanIds /\ spans[idMap[x]] = None
  BY <1>1, FreshIds
<1>8. ~ RulesRaise(clone)
  BY <1>2 DEF RulesPass
<1>9. captured' = [s \in SpanIds |->
        IF s \notin DOMAIN clone THEN captured[s]
        ELSE LET x == OriginalOf(q.read, idMap, s)
             IN  IF captured[x] = None THEN q.read[x] ELSE captured[x]]
  BY <1>2
<1>10. t \in TraceIds /\ t \in MintedTraces /\ t \notin stored /\ Save(t, clone)
  BY <1>2, MintedAssumption
<1>11. /\ t \notin confirmed' => q.trace \notin confirmed /\ UnsafeSteps(q.read, q.asked) = {}
       /\ confirmed \subseteq confirmed'
  BY <1>2, <1>3
<1> HIDE DEF clone, q
<1>12. /\ \A s \in SpanIds \ DOMAIN clone : spans'[s] = spans[s]
       /\ \A s \in DOMAIN clone :
             /\ spans'[s] # None
             /\ spans'[s].content = clone[s]
             /\ spans'[s].trace = IF spans[s] = None THEN t ELSE spans[s].trace
  BY <1>4, <1>10, SaveFacts DEF TypeOK
<1>13. \A s \in SpanIds : s \notin {idMap[x] : x \in DOMAIN q.read} =>
         spans'[s] = spans[s] /\ captured'[s] = captured[s]
  BY <1>5, <1>9, <1>12
<1>14. ASSUME NEW x \in DOMAIN q.read
       PROVE  /\ spans'[idMap[x]] # None
              /\ spans'[idMap[x]].trace = t
              /\ spans'[idMap[x]].content = clone[idMap[x]]
              /\ ~ (clone[idMap[x]].type = "RETRIEVAL" /\ clone[idMap[x]].documents = "mixed")
              /\ captured'[idMap[x]] = IF captured[x] = None THEN q.read[x]
                                       ELSE captured[x]
  <2>1. idMap[x] \in DOMAIN clone /\ idMap[x] \in SpanIds /\ spans[idMap[x]] = None
    BY <1>5, <1>7
  <2>2. ~ (clone[idMap[x]].type = "RETRIEVAL" /\ clone[idMap[x]].documents = "mixed")
    BY <1>8, <2>1 DEF RulesRaise, Retrieved
  <2>3. captured'[idMap[x]] = IF captured[x] = None THEN q.read[x] ELSE captured[x]
    BY <1>6, <1>9, <2>1
  <2> QED
    BY <1>12, <2>1, <2>2, <2>3
<1> QED
  BY <1>10, <1>11, <1>13, <1>14 DEF clone, q

LEMMA InvSaveClone ==
    ASSUME IInv, NEW h \in Handlers, SaveClone(h)
    PROVE  IInv'
<1> DEFINE q == request[h]
<1>1. TypeOK /\ TypeOK'
  BY TypeSaveClone DEF IInv
<1>2. /\ q # None /\ IsRead(q.read) /\ q.asked \in Asked
      /\ request' = [request EXCEPT ![h] = None]
  BY <1>1 DEF SaveClone, TypeOK, IsRequest
<1>3. PICK t \in MintedTraces, idMap \in IdMaps(q.read) :
        /\ t \notin stored
        /\ t \notin confirmed' =>
             /\ q.trace \notin confirmed
             /\ UnsafeSteps(q.read, q.asked) = {}
        /\ confirmed \subseteq confirmed'
        /\ \A s \in SpanIds : s \notin {idMap[x] : x \in DOMAIN q.read} =>
             spans'[s] = spans[s] /\ captured'[s] = captured[s]
        /\ \A x \in DOMAIN q.read :
             LET c == Clone(q.read, q.asked, idMap)[idMap[x]]
             IN  /\ spans'[idMap[x]] # None
                 /\ spans'[idMap[x]].trace = t
                 /\ spans'[idMap[x]].content = c
                 /\ ~ (c.type = "RETRIEVAL" /\ c.documents = "mixed")
                 /\ captured'[idMap[x]] = IF captured[x] = None THEN q.read[x]
                                          ELSE captured[x]
  BY <1>1, SaveCloneFacts
<1>4. \A x \in DOMAIN q.read : idMap[x] \in MintedSpans /\ spans[idMap[x]] = None
  BY <1>2, FreshIds
<1>5. \A x \in DOMAIN q.read :
        LET c == Clone(q.read, q.asked, idMap)[idMap[x]]
        IN  /\ c \in Content
            /\ c.type = q.read[x].type
            /\ q.asked[q.read[x].name] = NoOverride =>
                 c.documents = q.read[x].documents /\ c.safety = q.read[x].safety
  BY <1>2, CloneContent
<1> DEFINE NewRow(s, x) ==
      /\ x \in DOMAIN q.read
      /\ s \in MintedSpans
      /\ spans[s] = None
      /\ spans'[s] # None
      /\ spans'[s].trace = t
      /\ spans'[s].content.type = q.read[x].type
      /\ q.asked[q.read[x].name] = NoOverride =>
           /\ spans'[s].content.documents = q.read[x].documents
           /\ spans'[s].content.safety = q.read[x].safety
      /\ ~ (spans'[s].content.type = "RETRIEVAL" /\ spans'[s].content.documents = "mixed")
      /\ captured'[s] = IF captured[x] = None THEN q.read[x] ELSE captured[x]
<1>6. \A s \in SpanIds :
        \/ spans'[s] = spans[s] /\ captured'[s] = captured[s]
        \/ \E x : NewRow(s, x)
  <2> SUFFICES ASSUME NEW s \in SpanIds, NEW x \in DOMAIN q.read, s = idMap[x]
               PROVE  NewRow(s, x)
    BY <1>3
  <2> QED
    BY <1>3, <1>4, <1>5
<1>7. \A x \in DOMAIN q.read :
        /\ x \in SpanIds
        /\ q.read[x] \in Content
        /\ IF q.trace \in MintedTraces
           THEN /\ x \in MintedSpans
                /\ spans[x] # None
                /\ spans[x].trace = q.trace
                /\ spans[x].content = q.read[x]
           ELSE x \notin MintedSpans
  BY <1>2 DEF IInv, ReadsOfReplaysCurrent, IsRead
<1>8. \A x \in DOMAIN q.read :
        /\ captured[x] = None => q.trace \notin MintedTraces
        /\ captured[x] # None => q.trace \in MintedTraces /\ captured[x].type = q.read[x].type
  BY <1>7 DEF IInv, ReplayRowsCaptured
<1>9. ReplayRowsMinted'
  BY <1>6 DEF IInv, ReplayRowsMinted
<1>10. ReplayRowsCaptured'
  <2> SUFFICES ASSUME NEW s \in SpanIds
               PROVE  /\ s \notin MintedSpans => captured'[s] = None
                      /\ s \in MintedSpans /\ spans'[s] # None =>
                           captured'[s] # None /\ captured'[s].type = spans'[s].content.type
    BY DEF ReplayRowsCaptured
  <2>1. CASE spans'[s] = spans[s] /\ captured'[s] = captured[s]
    BY <2>1 DEF IInv, ReplayRowsCaptured
  <2>2. CASE \E x : NewRow(s, x)
    <3> PICK x : NewRow(s, x)
      BY <2>2
    <3> QED
      BY <1>7, <1>8, NoneAssumption
  <2> QED
    BY <1>6, <2>1, <2>2
<1>11. NoReplayRaises'
  BY <1>6 DEF IInv, NoReplayRaises
<1>12. ReadsOfReplaysCurrent'
  <2>1. \A s \in SpanIds : spans[s] # None => spans'[s] = spans[s]
    BY <1>6
  <2>2. \A g \in Handlers : request'[g] # None => request'[g] = request[g]
    BY <1>1, <1>2 DEF TypeOK
  <2> HIDE DEF NewRow, q
  <2> QED
    BY <2>1, <2>2, MintedAssumption DEF IInv, ReadsOfReplaysCurrent
<1>13. UnconfirmedKeepsUnsafe'
  <2> SUFFICES ASSUME NEW s \in SpanIds, spans'[s] # None,
                      spans'[s].trace \in MintedTraces \ confirmed'
               PROVE  /\ captured'[s] # None
                      /\ SpanSafety(captured'[s]) # "READ_ONLY" =>
                           /\ spans'[s].content.documents = captured'[s].documents
                           /\ spans'[s].content.safety = captured'[s].safety
    BY DEF UnconfirmedKeepsUnsafe
  <2>1. CASE spans'[s] = spans[s] /\ captured'[s] = captured[s]
    BY <1>3, <2>1 DEF IInv, UnconfirmedKeepsUnsafe
  <2>2. CASE \E x : NewRow(s, x)
    <3> PICK x : NewRow(s, x)
      BY <2>2
    <3>1. captured'[s] # None
      BY <1>7, NoneAssumption
    <3>2. q.trace \notin confirmed /\ UnsafeSteps(q.read, q.asked) = {}
      BY <1>3
    <3>3. SpanSafety(q.read[x]) # "READ_ONLY" =>
            /\ spans'[s].content.documents = q.read[x].documents
            /\ spans'[s].content.safety = q.read[x].safety
      BY <3>2 DEF UnsafeSteps
    <3>4. CASE captured[x] = None
      BY <3>1, <3>3, <3>4
    <3>5. CASE captured[x] # None
      <4>1. SpanSafety(captured[x]) # "READ_ONLY" =>
              /\ q.read[x].documents = captured[x].documents
              /\ q.read[x].safety = captured[x].safety
        BY <1>7, <1>8, <3>2, <3>5 DEF IInv, UnconfirmedKeepsUnsafe
      <4>2. SpanSafety(captured[x]) # "READ_ONLY" => SpanSafety(q.read[x]) # "READ_ONLY"
        BY <1>8, <3>5, <4>1 DEF SpanSafety
      <4> QED
        BY <3>1, <3>3, <3>5, <4>1, <4>2
    <3> QED
      BY <3>4, <3>5
  <2> QED
    BY <1>6, <2>1, <2>2
<1> QED
  BY <1>1, <1>9, <1>10, <1>11, <1>12, <1>13 DEF IInv

LEMMA InvNext == IInv /\ [Next]_vars => IInv'
<1> SUFFICES ASSUME IInv, [Next]_vars PROVE IInv'
  OBVIOUS
<1>1. CASE \E d \in Captures : Capture(d)
  BY <1>1, InvCapture
<1>2. CASE \E h \in Handlers, t \in TraceIds, asked \in Asked, allowUnsafe \in BOOLEAN :
              Fetch(h, t, asked, allowUnsafe)
  BY <1>2, InvFetch
<1>3. CASE \E h \in Handlers : Abandon(h)
  BY <1>3, InvAbandon
<1>4. CASE \E h \in Handlers : SaveClone(h)
  BY <1>4, InvSaveClone
<1>5. CASE UNCHANGED vars
  BY <1>5 DEF vars, IInv, TypeOK, IsRequest, ReplayRowsMinted, ReplayRowsCaptured,
              NoReplayRaises, ReadsOfReplaysCurrent, UnconfirmedKeepsUnsafe
<1> QED
  BY <1>1, <1>2, <1>3, <1>4, <1>5 DEF Next

LEMMA Invariant == Spec => []IInv
BY InvInit, InvNext, PTL DEF Spec

-----------------------------------------------------------------------------
(* What it gives *)

\* No chain of replays without a confirmation edits a span that was captured as
\* anything but READ_ONLY, however long the chain and whatever is asked for in it.
THEOREM UnsafeKept == Spec => []UnconfirmedKeepsUnsafe
<1>1. IInv => UnconfirmedKeepsUnsafe
  BY DEF IInv
<1> QED
  BY <1>1, Invariant, PTL

\* Every stored replay can be analysed and replayed.
THEOREM Analysable == Spec => []ReplaysAreAnalysable
<1>1. ASSUME IInv, NEW t \in MintedTraces PROVE ~ RulesRaise(ReadTrace(t))
  <2>1. \A s \in SpansOf(t) :
          ~ (spans[s].content.type = "RETRIEVAL" /\ spans[s].content.documents = "mixed")
    BY <1>1 DEF IInv, SpansOf, ReplayRowsMinted, NoReplayRaises
  <2>2. \A s \in SpansOf(t) : ReadTrace(t)[s] = spans[s].content
    BY DEF ReadTrace
  <2>3. DOMAIN ReadTrace(t) = SpansOf(t)
    BY DEF ReadTrace
  <2> QED
    BY <2>1, <2>2, <2>3 DEF RulesRaise, Retrieved
<1>2. IInv => ReplaysAreAnalysable
  BY <1>1 DEF ReplaysAreAnalysable
<1> QED
  BY <1>2, Invariant, PTL

\* A row that is there changes by an exporter's save alone, and a replay's never.
THEOREM AddOnly == Spec => ReplaysAddOnly
<1>1. IInv /\ [Next]_vars => [AddsOnly]_vars
  <2> SUFFICES ASSUME IInv, [Next]_vars PROVE [AddsOnly]_vars
    OBVIOUS
  <2>1. CASE \E d \in Captures : Capture(d)
    BY <2>1, CaptureFacts DEF IInv, AddsOnly
  <2>2. CASE \E h \in Handlers : SaveClone(h)
    <3> PICK h \in Handlers : SaveClone(h)
      BY <2>2
    <3>1. IsRead(request[h].read)
      BY DEF SaveClone, IInv, TypeOK, IsRequest
    <3>2. \E idMap \in IdMaps(request[h].read) :
            \A s \in SpanIds : s \notin {idMap[x] : x \in DOMAIN request[h].read} =>
                spans'[s] = spans[s]
      BY SaveCloneFacts DEF IInv
    <3> QED
      BY <3>1, <3>2, FreshIds DEF AddsOnly
  <2>3. CASE UNCHANGED spans
    BY <2>3 DEF AddsOnly
  <2> QED
    BY <2>1, <2>2, <2>3 DEF Next, Fetch, Abandon, vars
<1> QED
  BY <1>1, Invariant, PTL DEF Spec, ReplaysAddOnly

-----------------------------------------------------------------------------
(* What a replay may find *)

\* A clone has what its original had, but for the attributes that are overridden and
\* the parents inside the trace.
LEMMA CloneParts ==
    ASSUME NEW read, IsRead(read), NEW asked \in Asked, NEW idMap \in IdMaps(read)
    PROVE  \A x \in DOMAIN read :
              LET c == Clone(read, asked, idMap)[idMap[x]]
              IN  /\ c.type = read[x].type
                  /\ c.failed = read[x].failed
                  /\ c.parent = CloneParent(read, idMap, read[x].parent)
                  /\ asked[read[x].name].documents = None => c.documents = read[x].documents
<1> TAKE x \in DOMAIN read
<1> DEFINE p == CloneParent(read, idMap, read[x].parent)
           moved == [read[x] EXCEPT !.parent = p]
           o == asked[read[x].name]
           d == IF o.documents = None THEN moved.documents ELSE o.documents
           f == IF o.safety = None THEN moved.safety ELSE o.safety
           c == Clone(read, asked, idMap)[idMap[x]]
<1>1. read[x] \in Content
  BY DEF IsRead
<1>2. moved = [name |-> read[x].name, parent |-> p, type |-> read[x].type,
               failed |-> read[x].failed, documents |-> read[x].documents,
               safety |-> read[x].safety]
  BY <1>1 DEF Content
<1>3. c = Updated(moved, asked[moved.name])
  BY CloneOriginal DEF Clone
<1>4. moved.name = read[x].name /\ moved.documents = read[x].documents
  BY <1>2
<1>5. c = [moved EXCEPT !.documents = d, !.safety = f]
  BY <1>3, <1>4 DEF Updated
<1>6. o.documents = None => d = read[x].documents
  BY <1>4
<1> HIDE DEF d, f, p, o, c
<1>7. c = [name |-> read[x].name, parent |-> p, type |-> read[x].type,
           failed |-> read[x].failed, documents |-> d, safety |-> f]
  BY <1>2, <1>5
<1>8. /\ c.type = read[x].type
      /\ c.failed = read[x].failed
      /\ c.parent = p
      /\ o.documents = None => c.documents = read[x].documents
  BY <1>6, <1>7
<1> QED
  BY <1>8 DEF c, p, o

\* A retrieval that is not overridden returns in the clone what it returned, ...
LEMMA CloneRetrieved ==
    ASSUME NEW read, IsRead(read), NEW asked \in Asked, NEW idMap \in IdMaps(read),
           \A x \in DOMAIN read :
              read[x].type = "RETRIEVAL" => asked[read[x].name].documents = None,
           NEW documents
    PROVE  Retrieved(Clone(read, asked, idMap), documents) <=> Retrieved(read, documents)
<1> DEFINE clone == Clone(read, asked, idMap)
<1>1. DOMAIN clone = {idMap[x] : x \in DOMAIN read}
  BY CloneDomain
<1>2. \A x \in DOMAIN read :
        /\ clone[idMap[x]].type = read[x].type
        /\ read[x].type = "RETRIEVAL" => clone[idMap[x]].documents = read[x].documents
  BY CloneParts
<1> HIDE DEF clone
<1>3. Retrieved(clone, documents) <=> Retrieved(read, documents)
  BY <1>1, <1>2 DEF Retrieved
<1> QED
  BY <1>3 DEF clone

\* ... a tool that failed has failed, ...
LEMMA CloneToolFailure ==
    ASSUME NEW read, IsRead(read), NEW asked \in Asked, NEW idMap \in IdMaps(read)
    PROVE  ToolFailure(Clone(read, asked, idMap)) <=> ToolFailure(read)
<1> DEFINE clone == Clone(read, asked, idMap)
<1>1. DOMAIN clone = {idMap[x] : x \in DOMAIN read}
  BY CloneDomain
<1>2. \A x \in DOMAIN read : /\ clone[idMap[x]].type = read[x].type
                             /\ clone[idMap[x]].failed = read[x].failed
  BY CloneParts
<1> HIDE DEF clone
<1>3. ToolFailure(clone) <=> ToolFailure(read)
  BY <1>1, <1>2 DEF ToolFailure
<1> QED
  BY <1>3 DEF clone

\* ... and a parent is missing exactly if it was, as no fresh id is that of a missing
\* parent.
LEMMA CloneDangling ==
    ASSUME NEW read, IsRead(read), NEW asked \in Asked, NEW idMap \in IdMaps(read),
           \A x \in DOMAIN read :
              read[x].parent \in MintedSpans => spans[read[x].parent] # None
    PROVE  DanglingParentSpan(Clone(read, asked, idMap)) <=> DanglingParentSpan(read)
<1> DEFINE clone == Clone(read, asked, idMap)
<1>1. DOMAIN clone = {idMap[x] : x \in DOMAIN read}
  BY CloneDomain
<1>2. \A x \in DOMAIN read :
        clone[idMap[x]].parent = CloneParent(read, idMap, read[x].parent)
  BY CloneParts
<1>3. \A x \in DOMAIN read : idMap[x] \in MintedSpans /\ spans[idMap[x]] = None
  BY FreshIds
<1>4. \A x \in DOMAIN read : idMap[x] # None
  BY <1>3, MintedAssumption, NoneAssumption
<1> HIDE DEF clone
<1>5. ASSUME NEW x \in DOMAIN read
      PROVE  clone[idMap[x]].parent \notin DOMAIN clone \cup {None}
               <=> read[x].parent \notin DOMAIN read \cup {None}
  <2>1. CASE read[x].parent \in DOMAIN read
    BY <1>1, <1>2, <2>1 DEF CloneParent
  <2>2. CASE read[x].parent \notin DOMAIN read
    <3>1. clone[idMap[x]].parent = read[x].parent
      BY <1>2, <2>2 DEF CloneParent
    <3>2. read[x].parent \notin DOMAIN clone
      BY <1>1, <1>3
    <3> QED
      BY <2>2, <3>1, <3>2
  <2> QED
    BY <2>1, <2>2
<1>6. DanglingParentSpan(clone) <=> DanglingParentSpan(read)
  BY <1>1, <1>5 DEF DanglingParentSpan
<1> QED
  BY <1>6 DEF clone

\* The findings of a clone are those of its original, but for findings about documents
\* when documents were overridden.
LEMMA CloneFindings ==
    ASSUME NEW read, IsRead(read), NEW asked \in Asked, NEW idMap \in IdMaps(read),
           \A x \in DOMAIN read :
              read[x].parent \in MintedSpans => spans[read[x].parent] # None,
           NEW edited \in BOOLEAN,
           edited <=> \E x \in DOMAIN read : /\ read[x].type = "RETRIEVAL"
                                             /\ asked[read[x].name].documents # None
    PROVE  LET clone == Clone(read, asked, idMap)
           IN  (RulesFired(read) \ RulesFired(clone)) \cup (RulesFired(clone) \ RulesFired(read))
                   \subseteq (IF edited THEN DocumentRules ELSE {})
<1> DEFINE clone == Clone(read, asked, idMap)
<1>1. ToolFailure(clone) <=> ToolFailure(read)
  BY CloneToolFailure
<1>2. DanglingParentSpan(clone) <=> DanglingParentSpan(read)
  BY CloneDangling
<1>3. ~ edited => \A documents : Retrieved(clone, documents) <=> Retrieved(read, documents)
  BY CloneRetrieved
<1> HIDE DEF clone
<1>4. CASE edited
  <2>1. \A r \in RuleIds \ DocumentRules : r \in RulesFired(clone) <=> r \in RulesFired(read)
    BY <1>1, <1>2 DEF RulesFired, RuleIds, DocumentRules
  <2>2. RulesFired(clone) \subseteq RuleIds /\ RulesFired(read) \subseteq RuleIds
    BY DEF RulesFired
  <2> QED
    BY <1>4, <2>1, <2>2 DEF clone
<1>5. CASE ~ edited
  <2>1. /\ EmptyRetrieval(clone) <=> EmptyRetrieval(read)
        /\ StaleRetrievalDocuments(clone) <=> StaleRetrievalDocuments(read)
        /\ DuplicateRetrievedDocuments(clone) <=> DuplicateRetrievedDocuments(read)
    BY <1>3, <1>5 DEF EmptyRetrieval, StaleRetrievalDocuments, DuplicateRetrievedDocuments
  <2>2. RulesFired(clone) = RulesFired(read)
    BY <1>1, <1>2, <2>1 DEF RulesFired
  <2> QED
    BY <1>5, <2>2 DEF clone
<1> QED
  BY <1>4, <1>5

\* Why a fresh id is that of no missing parent: a parent with a minted id has a row,
\* in the table and of what a handler has read.
MintedParentsStored ==
    /\ \A s \in SpanIds : spans[s] # None /\ spans[s].content.parent \in MintedSpans =>
          spans[spans[s].content.parent] # None
    /\ \A h \in Handlers : request[h] # None =>
          \A x \in DOMAIN request[h].read :
              request[h].read[x].parent \in MintedSpans =>
                  spans[request[h].read[x].parent] # None

LEMMA ParentsCapture ==
    ASSUME IInv, MintedParentsStored, NEW d \in Captures, Capture(d)
    PROVE  MintedParentsStored'
<1>1. /\ d.trace \in TraceIds /\ IsRead(d.spans)
      /\ \A x \in DOMAIN d.spans : d.spans[x].parent \notin MintedSpans
  BY CapturesAssumption
<1>2. Save(d.trace, d.spans) /\ request' = request
  BY DEF Capture
<1>3. /\ \A s \in SpanIds \ DOMAIN d.spans : spans'[s] = spans[s]
      /\ \A s \in DOMAIN d.spans : spans'[s] # None /\ spans'[s].content = d.spans[s]
  BY <1>1, <1>2, SaveFacts DEF IInv, TypeOK
<1>4. \A s \in SpanIds : spans[s] # None => spans'[s] # None
  BY <1>3
<1> QED
  BY <1>1, <1>2, <1>3, <1>4, MintedAssumption DEF MintedParentsStored

LEMMA ParentsFetch ==
    ASSUME IInv, MintedParentsStored, NEW h \in Handlers, NEW t \in TraceIds,
           NEW asked \in Asked, NEW allowUnsafe \in BOOLEAN, Fetch(h, t, asked, allowUnsafe)
    PROVE  MintedParentsStored'
<1>1. /\ spans' = spans
      /\ request' = [request EXCEPT ![h] = [trace |-> t, read |-> ReadTrace(t),
                                            asked |-> asked, allowUnsafe |-> allowUnsafe]]
  BY DEF Fetch
<1>2. \A x \in DOMAIN ReadTrace(t) :
         x \in SpanIds /\ spans[x] # None /\ ReadTrace(t)[x] = spans[x].content
  BY DEF ReadTrace, SpansOf
<1> QED
  BY <1>1, <1>2 DEF MintedParentsStored, IInv, TypeOK

LEMMA ParentsSaveClone ==
    ASSUME IInv, MintedParentsStored, NEW h \in Handlers, SaveClone(h)
    PROVE  MintedParentsStored'
<1> DEFINE q == request[h]
<1>1. /\ q # None /\ IsRead(q.read) /\ q.asked \in Asked
      /\ request' = [request EXCEPT ![h] = None]
  BY DEF SaveClone, IInv, TypeOK, IsRequest
<1>2. PICK t \in MintedTraces, idMap \in IdMaps(q.read) :
        /\ \A s \in SpanIds : s \notin {idMap[x] : x \in DOMAIN q.read} => spans'[s] = spans[s]
        /\ \A x \in DOMAIN q.read :
              /\ spans'[idMap[x]] # None
              /\ spans'[idMap[x]].content = Clone(q.read, q.asked, idMap)[idMap[x]]
  BY SaveCloneFacts DEF IInv
<1>3. \A x \in DOMAIN q.read :
        /\ spans'[idMap[x]] # None
        /\ spans'[idMap[x]].content.parent = CloneParent(q.read, idMap, q.read[x].parent)
  BY <1>1, <1>2, CloneParts
<1>4. \A x \in DOMAIN q.read : idMap[x] \in SpanIds /\ spans[idMap[x]] = None
  BY <1>1, FreshIds
<1>5. \A s \in SpanIds : spans[s] # None => spans'[s] = spans[s]
  BY <1>2, <1>4
<1>6. \A x \in DOMAIN q.read :
        q.read[x].parent \in MintedSpans => spans[q.read[x].parent] # None
  BY <1>1 DEF MintedParentsStored
<1> HIDE DEF q
<1>7. ASSUME NEW s \in SpanIds, spans'[s] # None, spans'[s].content.parent \in MintedSpans
      PROVE  spans'[spans'[s].content.parent] # None
  <2>1. CASE s \notin {idMap[x] : x \in DOMAIN q.read}
    <3>1. spans'[s] = spans[s]
      BY <1>2, <2>1
    <3>2. spans[spans[s].content.parent] # None
      BY <1>7, <3>1 DEF MintedParentsStored
    <3> QED
      BY <1>5, <1>7, <3>1, <3>2, MintedAssumption
  <2>2. ASSUME NEW x \in DOMAIN q.read, s = idMap[x]
        PROVE  spans'[spans'[s].content.parent] # None
    <3>1. spans'[s].content.parent = CloneParent(q.read, idMap, q.read[x].parent)
      BY <1>3, <2>2
    <3>2. CASE q.read[x].parent \in DOMAIN q.read
      BY <1>3, <3>1, <3>2 DEF CloneParent
    <3>3. CASE q.read[x].parent \notin DOMAIN q.read
      <4>1. spans'[s].content.parent = q.read[x].parent
        BY <3>1, <3>3 DEF CloneParent
      <4> QED
        BY <1>5, <1>6, <1>7, <4>1, MintedAssumption
    <3> QED
      BY <3>2, <3>3
  <2> QED
    BY <2>1, <2>2
<1>8. \A g \in Handlers : request'[g] # None => request'[g] = request[g]
  BY <1>1 DEF IInv, TypeOK
<1> QED
  BY <1>5, <1>7, <1>8, MintedAssumption DEF MintedParentsStored

LEMMA ParentsNext ==
    ASSUME IInv, MintedParentsStored, [Next]_vars
    PROVE  MintedParentsStored'
<1>1. CASE \E d \in Captures : Capture(d)
  BY <1>1, ParentsCapture
<1>2. CASE \E h \in Handlers, t \in TraceIds, asked \in Asked, allowUnsafe \in BOOLEAN :
              Fetch(h, t, asked, allowUnsafe)
  BY <1>2, ParentsFetch
<1>3. ASSUME NEW h \in Handlers, Abandon(h)
      PROVE  MintedParentsStored'
  BY <1>3 DEF Abandon, MintedParentsStored, IInv, TypeOK
<1>4. CASE \E h \in Handlers : SaveClone(h)
  BY <1>4, ParentsSaveClone
<1>5. CASE UNCHANGED vars
  BY <1>5 DEF vars, MintedParentsStored
<1> QED
  BY <1>1, <1>2, <1>3, <1>4, <1>5 DEF Next

\* What an answer may say.
AnswerIsOfOverrides(a) ==
    a.resolved \cup a.new \subseteq (IF a.edited THEN DocumentRules ELSE {})

LEMMA AnswersSaveClone ==
    ASSUME IInv, MintedParentsStored, OnlyOverridesResolve, NEW h \in Handlers, SaveClone(h)
    PROVE  OnlyOverridesResolve'
<1> DEFINE q == request[h]
           edited == \E x \in DOMAIN q.read :
                        /\ q.read[x].type = "RETRIEVAL"
                        /\ q.asked[q.read[x].name].documents # None
<1>1. /\ q # None /\ IsRead(q.read) /\ q.asked \in Asked
      /\ \A x \in DOMAIN q.read :
            q.read[x].parent \in MintedSpans => spans[q.read[x].parent] # None
  BY DEF SaveClone, IInv, TypeOK, IsRequest, MintedParentsStored
<1>2. PICK idMap \in IdMaps(q.read) :
        LET clone == Clone(q.read, q.asked, idMap)
        IN  answer' = [answer EXCEPT ![h] =
              [resolved |-> RulesFired(q.read) \ RulesFired(clone),
               new      |-> RulesFired(clone) \ RulesFired(q.read),
               edited   |-> edited]]
  BY DEF SaveClone
<1>3. PICK e \in BOOLEAN : e <=> edited
  OBVIOUS
<1>4. e = edited
  BY <1>3
<1> DEFINE clone == Clone(q.read, q.asked, idMap)
<1>5. (RulesFired(q.read) \ RulesFired(clone)) \cup (RulesFired(clone) \ RulesFired(q.read))
          \subseteq (IF e THEN DocumentRules ELSE {})
  BY <1>1, <1>3, CloneFindings
<1>6. answer' = [answer EXCEPT ![h] = [resolved |-> RulesFired(q.read) \ RulesFired(clone),
                                       new      |-> RulesFired(clone) \ RulesFired(q.read),
                                       edited   |-> e]]
  BY <1>2, <1>4
<1> HIDE DEF clone, edited, q
<1> DEFINE a == [resolved |-> RulesFired(q.read) \ RulesFired(clone),
                 new      |-> RulesFired(clone) \ RulesFired(q.read),
                 edited   |-> e]
<1>7. AnswerIsOfOverrides(a)
  BY <1>5 DEF AnswerIsOfOverrides
<1>8. answer' = [answer EXCEPT ![h] = a]
  BY <1>6
<1> HIDE DEF a
<1>9. \A g \in Handlers : answer'[g] # None => AnswerIsOfOverrides(answer'[g])
  BY <1>7, <1>8 DEF OnlyOverridesResolve, AnswerIsOfOverrides, IInv, TypeOK
<1> QED
  BY <1>9 DEF OnlyOverridesResolve, AnswerIsOfOverrides

LEMMA AnswersNext ==
    ASSUME IInv, MintedParentsStored, OnlyOverridesResolve, [Next]_vars
    PROVE  OnlyOverridesResolve'
<1>1. ASSUME answer' = answer
      PROVE  OnlyOverridesResolve'
  BY <1>1 DEF OnlyOverridesResolve
<1>2. ASSUME NEW h \in Handlers, NEW t \in TraceIds, NEW asked \in Asked,
             NEW allowUnsafe \in BOOLEAN, Fetch(h, t, asked, allowUnsafe)
      PROVE  OnlyOverridesResolve'
  BY <1>2 DEF Fetch, OnlyOverridesResolve, IInv, TypeOK
<1>3. CASE \E h \in Handlers : SaveClone(h)
  BY <1>3, AnswersSaveClone
<1> QED
  BY <1>1, <1>2, <1>3 DEF Next, Capture, Abandon, vars

\* A finding is resolved or new only by an override of documents: the clone itself,
\* with its fresh ids and moved parents, adds and hides none, in chains of any length.
THEOREM FindingsFollowOverrides == Spec => []OnlyOverridesResolve
<1> DEFINE Inv == MintedParentsStored /\ OnlyOverridesResolve
<1>1. Init => Inv
  BY DEF Init, MintedParentsStored, OnlyOverridesResolve
<1>2. IInv /\ [Next]_vars /\ Inv => Inv'
  BY ParentsNext, AnswersNext
<1>3. Inv => OnlyOverridesResolve
  OBVIOUS
<1> QED
  <2> HIDE DEF Inv
  <2> QED
    BY <1>1, <1>2, <1>3, Invariant, PTL DEF Spec
=============================================================================

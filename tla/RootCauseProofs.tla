---------------------------- MODULE RootCauseProofs ----------------------------
(***************************************************************************)
(* Theorems of ExecutionGraph and RootCause for every set of traces, of    *)
(* any length and with any parents, and every list of findings.            *)
(***************************************************************************)
EXTENDS RootCause, FiniteOrders, SequenceTheorems

-----------------------------------------------------------------------------
(* Sequences that grow and shrink at their end *)

IsAppended(t, s, x) ==
    /\ t = Append(s, x) /\ Len(s) \in Nat /\ Len(t) = Len(s) + 1
    /\ DOMAIN s = 1..Len(s) /\ DOMAIN t = 1..(Len(s) + 1)
    /\ \A i \in 1..Len(s) : t[i] = s[i]
    /\ t[Len(s) + 1] = x

LEMMA AppendFacts ==
    ASSUME NEW S, NEW s \in Seq(S), NEW x \in S
    PROVE  \E t \in Seq(S) : IsAppended(t, s, x)
<1>1. PICK t \in Seq(S) :
        /\ t = Append(s, x) /\ Len(t) = Len(s) + 1
        /\ \A i \in 1..Len(s) : t[i] = s[i]
        /\ t[Len(s) + 1] = x
  BY AppendProperties
<1>2. Len(s) \in Nat /\ DOMAIN s = 1..Len(s) /\ DOMAIN t = 1..Len(t)
  BY LenProperties
<1> QED
  BY <1>1, <1>2 DEF IsAppended

IsFront(t, s) ==
    /\ t = SubSeq(s, 1, Len(s) - 1) /\ Len(s) \in Nat \ {0} /\ Len(t) = Len(s) - 1
    /\ DOMAIN s = 1..Len(s) /\ DOMAIN t = 1..(Len(s) - 1)
    /\ \A i \in 1..(Len(s) - 1) : t[i] = s[i]

LEMMA FrontFacts ==
    ASSUME NEW S, NEW s \in Seq(S), s # << >>
    PROVE  \E t \in Seq(S) : IsFront(t, s)
<1>1. Len(s) \in Nat \ {0}
  BY EmptySeq, Zenon
<1>2. s \in [1..Len(s) -> S] /\ DOMAIN s = 1..Len(s)
  BY LenProperties, Zenon
<1>3. \A i \in 1..Len(s) : s[i] \in S
  BY <1>2, Zenon
<1>4. PICK n \in Nat : n = Len(s) - 1
  BY <1>1
<1>5. \A i \in 1..n : s[i] \in S
  BY <1>1, <1>4, <1>3
<1>6. /\ SubSeq(s, 1, n) \in Seq(S)
      /\ Len(SubSeq(s, 1, n)) = IF 1 <= n THEN n - 1 + 1 ELSE 0
      /\ \A i \in 1..(n - 1 + 1) : SubSeq(s, 1, n)[i] = s[1 + i - 1]
  <2>1. PICK one \in Int : one = 1
    OBVIOUS
  <2>2. n \in Int /\ \A i \in one..n : s[i] \in S
    BY <1>5, <2>1
  <2>3. /\ SubSeq(s, one, n) \in Seq(S)
        /\ Len(SubSeq(s, one, n)) = IF one <= n THEN n - one + 1 ELSE 0
        /\ \A i \in 1..(n - one + 1) : SubSeq(s, one, n)[i] = s[one + i - 1]
    BY <2>2, SubSeqProperties
  <2> QED
    BY <2>1, <2>3
<1>7. PICK t \in Seq(S) :
        /\ t = SubSeq(s, 1, n) /\ Len(t) = IF 1 <= n THEN n - 1 + 1 ELSE 0
        /\ \A i \in 1..(n - 1 + 1) : t[i] = s[1 + i - 1]
  <2>1. PICK t \in Seq(S) : t = SubSeq(s, 1, n)
    BY <1>6
  <2> QED
    BY <1>6, <2>1
<1>8. Len(t) = n /\ \A i \in 1..n : t[i] = s[i]
  BY <1>7
<1>9. DOMAIN t = 1..n
  BY <1>8, LenProperties
<1> QED
  BY <1>1, <1>2, <1>4, <1>7, <1>8, <1>9 DEF IsFront

-----------------------------------------------------------------------------
(* What is so many hops above a node *)

\* The recursive function inside Above, as an equation.
IsClimb(n, k, f) ==
    f = [i \in 0..k |-> IF i = 0 THEN {n} ELSE UNION {Origins(m) : m \in f[i - 1]}]

LEMMA ClimbExists ==
    ASSUME NEW n, NEW k \in Nat
    PROVE  \E f : IsClimb(n, k, f)
<1> DEFINE Without == {j \in Nat : ~ \E f : IsClimb(n, j, f)}
<1>1. SUFFICES ASSUME Without # {}
               PROVE  FALSE
  OBVIOUS
<1>2. PICK j \in Without : \A i \in Without : j <= i
  BY <1>1, LeastNatural
<1>3. CASE j = 0
  <2> DEFINE f == [i \in 0..0 |-> {n}]
  <2>1. IsClimb(n, 0, f)
    BY DEF IsClimb
  <2> QED
    BY <1>2, <1>3, <2>1
<1>4. CASE j # 0
  <2>1. j - 1 \in Nat /\ j - 1 \notin Without
    BY <1>2, <1>4
  <2>2. PICK f : IsClimb(n, j - 1, f)
    BY <2>1
  <2> DEFINE top == UNION {Origins(m) : m \in f[j - 1]}
             g == [i \in 0..j |-> IF i = j THEN top ELSE f[i]]
  <2>3. \A i \in 0..(j - 1) :
          f[i] = IF i = 0 THEN {n} ELSE UNION {Origins(m) : m \in f[i - 1]}
    BY <2>2 DEF IsClimb
  <2>4. \A i \in 0..j : i # 0 => i - 1 \in 0..(j - 1)
    BY <1>2
  <2>5. \A i \in 0..(j - 1) : g[i] = f[i]
    BY <1>2
  <2>6. g[j] = top
    BY <1>2
  <2>7. ASSUME NEW i \in 0..j
        PROVE  g[i] = IF i = 0 THEN {n} ELSE UNION {Origins(m) : m \in g[i - 1]}
    <3>1. CASE i = j
      <4>1. g[i - 1] = f[j - 1]
        BY <1>4, <2>4, <2>5, <3>1
      <4> QED
        BY <1>4, <2>6, <3>1, <4>1
    <3>2. CASE i # j
      <4>1. i \in 0..(j - 1)
        BY <1>2, <3>2
      <4> QED
        BY <2>3, <2>4, <2>5, <4>1
    <3> QED
      BY <3>1, <3>2
  <2>8. g = [i \in 0..j |-> g[i]]
    OBVIOUS
  <2> HIDE DEF g
  <2>9. IsClimb(n, j, g)
    BY <2>7, <2>8 DEF IsClimb
  <2> QED
    BY <1>2, <2>9
<1> QED
  BY <1>3, <1>4

LEMMA ClimbIsOne ==
    ASSUME NEW n, NEW j \in Nat, NEW k \in Nat, NEW f, NEW g,
           IsClimb(n, j, f), IsClimb(n, k, g)
    PROVE  \A i \in Nat : i <= j /\ i <= k => f[i] = g[i]
<1> DEFINE Apart == {i \in Nat : i <= j /\ i <= k /\ f[i] # g[i]}
<1>1. SUFFICES ASSUME Apart # {}
               PROVE  FALSE
  OBVIOUS
<1>2. PICK i \in Apart : \A h \in Apart : i <= h
  BY <1>1, LeastNatural
<1>3. i # 0 => i - 1 \in Nat /\ f[i - 1] = g[i - 1]
  BY <1>2
<1>4. i \in 0..j /\ i \in 0..k
  BY <1>2
<1>5. f[i] = IF i = 0 THEN {n} ELSE UNION {Origins(m) : m \in f[i - 1]}
  BY <1>4 DEF IsClimb
<1>6. g[i] = IF i = 0 THEN {n} ELSE UNION {Origins(m) : m \in g[i - 1]}
  BY <1>4 DEF IsClimb
<1> QED
  BY <1>2, <1>3, <1>5, <1>6

LEMMA AboveIsClimb ==
    ASSUME NEW n, NEW k \in Nat
    PROVE  \E f : IsClimb(n, k, f) /\ Above(n, k) = f[k]
<1> DEFINE up == CHOOSE f : IsClimb(n, k, f)
<1>1. IsClimb(n, k, up)
  BY ClimbExists
<1>2. Above(n, k) = up[k]
  BY Zenon DEF Above, IsClimb
<1> QED
  BY <1>1, <1>2

\* Above is what its recursive function says: the node itself, and then the origins of
\* what is one hop lower.
LEMMA AboveZero ==
    ASSUME NEW n
    PROVE  Above(n, 0) = {n}
<1>1. PICK f : IsClimb(n, 0, f) /\ Above(n, 0) = f[0]
  BY AboveIsClimb
<1>2. f[0] = {n}
  BY <1>1 DEF IsClimb
<1> QED
  BY <1>1, <1>2

LEMMA AboveNext ==
    ASSUME NEW n, NEW k \in Nat
    PROVE  Above(n, k + 1) = UNION {Origins(m) : m \in Above(n, k)}
<1>1. PICK f : IsClimb(n, k, f) /\ Above(n, k) = f[k]
  BY AboveIsClimb
<1>2. PICK g : IsClimb(n, k + 1, g) /\ Above(n, k + 1) = g[k + 1]
  BY AboveIsClimb
<1>3. f[k] = g[k]
  BY <1>1, <1>2, ClimbIsOne
<1>4. g[k + 1] = UNION {Origins(m) : m \in g[(k + 1) - 1]}
  BY <1>2 DEF IsClimb
<1> QED
  BY <1>1, <1>2, <1>3, <1>4

-----------------------------------------------------------------------------
(* The nodes and edges of a graph *)

\* What every trace is: a finite sequence of spans with different ids.
IsTrace == /\ trace \in Seq(SpanRec)
           /\ \A i, j \in DOMAIN trace : trace[i].id = trace[j].id => i = j

LEMMA TraceIsTrace ==
    ASSUME trace \in Traces
    PROVE  IsTrace
BY TracesAssumption DEF IsTrace

LEMMA TraceFacts ==
    ASSUME IsTrace
    PROVE  /\ Len(trace) \in Nat /\ DOMAIN trace = 1..Len(trace)
           /\ \A i \in DOMAIN trace :
                 /\ trace[i].id \in SpanIds
                 /\ trace[i].parent \in SpanIds \cup {None}
                 /\ trace[i].documents \in Seq(DocIds)
                 /\ trace[i].end \in Times \cup {None}
                 /\ ParentNode(trace[i]) \in SpanIds \cup {TraceId}
<1>1. Len(trace) \in Nat /\ DOMAIN trace = 1..Len(trace)
  BY DEF IsTrace
<1>2. \A i \in DOMAIN trace : trace[i] \in SpanRec
  BY DEF IsTrace
<1>3. \A i \in DOMAIN trace : /\ trace[i].id \in SpanIds
                              /\ trace[i].parent \in SpanIds \cup {None}
                              /\ trace[i].documents \in Seq(DocIds)
                              /\ trace[i].end \in Times \cup {None}
  BY <1>2 DEF SpanRec
<1>4. \A i \in DOMAIN trace : ParentNode(trace[i]) \in SpanIds \cup {TraceId}
  BY <1>3 DEF ParentNode, InTrace
<1> QED
  BY <1>1, <1>3, <1>4

\* The nodes that something can come from, of which there is one more than spans.
Nodes == {trace[i].id : i \in DOMAIN trace} \cup {TraceId}

LEMMA NodesFacts ==
    ASSUME IsTrace
    PROVE  /\ Nodes \subseteq SpanIds \cup {TraceId}
           /\ IsFiniteSet(Nodes) /\ Cardinality(Nodes) <= Len(trace) + 1
           /\ IsFiniteSet(Nodes \ {TraceId}) /\ Cardinality(Nodes \ {TraceId}) <= Len(trace)
<1> DEFINE places == 1..Len(trace)
           ids == {trace[i].id : i \in places}
           idAt == [i \in places |-> trace[i].id]
<1>1. Len(trace) \in Nat /\ DOMAIN trace = places
  BY TraceFacts
<1>2. IsFiniteSet(places) /\ Cardinality(places) = Len(trace)
  <2>1. PICK n \in Nat : n = Len(trace)
    BY <1>1
  <2>2. IsFiniteSet(1..n) /\ Cardinality(1..n) = n
    BY FS_Interval
  <2> QED
    BY <2>1, <2>2
<1>3. idAt \in Surjection(places, ids)
  BY DEF Surjection
<1>4. Nodes = ids \cup {TraceId}
  BY <1>1 DEF Nodes
<1>5. TraceId \notin ids /\ ids \subseteq SpanIds
  BY <1>1, TraceFacts, IdsAssumption
<1> HIDE DEF places, ids, idAt
<1>6. IsFiniteSet(ids) /\ Cardinality(ids) <= Len(trace)
  BY <1>2, <1>3, FS_Surjection
<1>7. IsFiniteSet(Nodes) /\ Cardinality(Nodes) = Cardinality(ids) + 1
  BY <1>4, <1>5, <1>6, FS_AddElement
<1>8. Cardinality(ids) \in Nat
  BY <1>6, FS_CardinalityType
<1>9. Nodes \ {TraceId} = ids
  BY <1>4, <1>5
<1>10. Nodes \subseteq SpanIds \cup {TraceId}
  BY <1>4, <1>5
<1>11. Cardinality(Nodes) <= Len(trace) + 1
  BY <1>1, <1>6, <1>7, <1>8
<1>12. IsFiniteSet(Nodes \ {TraceId}) /\ Cardinality(Nodes \ {TraceId}) <= Len(trace)
  BY <1>6, <1>9
<1> QED
  BY <1>7, <1>10, <1>11, <1>12

\* Whatever comes from a span, a document or the trace itself comes from a node.
LEMMA OriginsFacts ==
    ASSUME IsTrace, NEW n
    PROVE  /\ Origins(n) \subseteq Nodes
           /\ n \notin DocIds => \A a, b \in Origins(n) : a = b
           /\ n \in Nodes \ {TraceId} => Origins(n) # {}
           /\ Origins(TraceId) = {}
<1>1. \A i \in DOMAIN trace :
        (IF InTrace(trace[i].parent) THEN trace[i].parent ELSE TraceId) \in Nodes
  BY DEF InTrace, Nodes
<1>2. \A i \in DOMAIN trace : trace[i].id \in Nodes /\ trace[i].id # TraceId
  BY TraceFacts, IdsAssumption DEF Nodes
<1>3. Origins(n) \subseteq Nodes
  BY <1>1, <1>2 DEF Origins
<1>4. ASSUME n \notin DocIds, NEW a \in Origins(n), NEW b \in Origins(n)
      PROVE  a = b
  <2>1. PICK i \in DOMAIN trace :
          trace[i].id = n /\ a = IF InTrace(trace[i].parent) THEN trace[i].parent ELSE TraceId
    BY <1>4 DEF Origins
  <2>2. PICK j \in DOMAIN trace :
          trace[j].id = n /\ b = IF InTrace(trace[j].parent) THEN trace[j].parent ELSE TraceId
    BY <1>4 DEF Origins
  <2>3. i = j
    BY <2>1, <2>2 DEF IsTrace
  <2> QED
    BY <2>1, <2>2, <2>3
<1>5. ASSUME n \in Nodes \ {TraceId}
      PROVE  Origins(n) # {}
  <2>1. PICK i \in DOMAIN trace : trace[i].id = n
    BY <1>5 DEF Nodes
  <2>2. n \notin DocIds
    BY <2>1, TraceFacts, IdsAssumption
  <2> QED
    BY <2>1, <2>2 DEF Origins
<1>6. Origins(TraceId) = {}
  BY <1>2, IdsAssumption DEF Origins
<1> QED
  BY <1>3, <1>4, <1>5, <1>6

ParentEdge(s)  == [source |-> ParentNode(s), target |-> s.id, relationship |-> "PARENT"]
DocEdge(s, d)  == [source |-> s.id, target |-> d, relationship |-> "RETRIEVES"]

\* The edges are those of the first spans, and none of them is missing.
EdgesAreBuilt ==
    /\ edges \in Seq(Edge)
    /\ \A e \in DOMAIN edges : \E i \in 1..built :
          \/ edges[e] = ParentEdge(trace[i])
          \/ \E d \in DOMAIN trace[i].documents :
                edges[e] = DocEdge(trace[i], trace[i].documents[d])
    /\ \A i \in 1..built :
          /\ \E e \in DOMAIN edges : edges[e] = ParentEdge(trace[i])
          /\ \A d \in DOMAIN trace[i].documents :
                \E e \in DOMAIN edges : edges[e] = DocEdge(trace[i], trace[i].documents[d])

LEMMA AddSpanBuilds ==
    ASSUME IsTrace, built \in 0..Len(trace), EdgesAreBuilt, AddSpan
    PROVE  EdgesAreBuilt'
<1>1. built + 1 \in DOMAIN trace /\ built < Len(trace)
  BY TraceFacts DEF AddSpan
<1>2. PICK s : s = trace[built + 1]
  OBVIOUS
<1>3. /\ s.id \in SpanIds /\ s.documents \in Seq(DocIds)
      /\ ParentNode(s) \in SpanIds \cup {TraceId}
  BY <1>1, <1>2, TraceFacts
<1>4. edges' = (edges \o <<ParentEdge(s)>>) \o Extracted(s)
  BY <1>2 DEF AddSpan, ParentEdge
<1> DEFINE n == Len(edges)
           k == Len(s.documents)
<1>5. n \in Nat /\ DOMAIN edges = 1..n /\ k \in Nat /\ DOMAIN s.documents = 1..k
  BY <1>3 DEF EdgesAreBuilt
<1>6. ParentEdge(s) \in Edge
  BY <1>3 DEF ParentEdge, Edge
<1>7. \A d \in 1..k : DocEdge(s, s.documents[d]) \in Edge
  BY <1>3 DEF DocEdge, Edge
<1>8. Extracted(s) = [d \in 1..k |-> DocEdge(s, s.documents[d])]
  BY DEF Extracted, DocEdge
<1>9. Extracted(s) \in Seq(Edge) /\ Len(Extracted(s)) = k
  BY <1>5, <1>7, <1>8
<1>10. edges \in Seq(Edge) /\ <<ParentEdge(s)>> \in Seq(Edge)
  BY <1>6 DEF EdgesAreBuilt
<1> HIDE DEF n, k
<1>11. /\ edges \o <<ParentEdge(s)>> \in Seq(Edge)
       /\ Len(edges \o <<ParentEdge(s)>>) = n + 1
       /\ \A e \in 1..(n + 1) :
             (edges \o <<ParentEdge(s)>>)[e] = IF e <= n THEN edges[e] ELSE ParentEdge(s)
  BY <1>5, <1>10 DEF n
<1>12. PICK front \in Seq(Edge) :
         /\ Len(front) = n + 1
         /\ \A e \in 1..(n + 1) : front[e] = IF e <= n THEN edges[e] ELSE ParentEdge(s)
         /\ edges' = front \o Extracted(s)
  BY <1>4, <1>11
<1>13. /\ edges' \in Seq(Edge) /\ Len(edges') = n + 1 + k
       /\ DOMAIN edges' = 1..(n + 1 + k)
       /\ \A e \in 1..(n + 1) : edges'[e] = front[e]
       /\ \A d \in 1..k : edges'[n + 1 + d] = Extracted(s)[d]
  <2>1. PICK back \in Seq(Edge) : back = Extracted(s) /\ Len(back) = k
    BY <1>9
  <2>2. front \o back \in Seq(Edge) /\ Len(front \o back) = (n + 1) + k
    <3>1. front \o back \in Seq(Edge) /\ Len(front \o back) = Len(front) + Len(back)
      BY Zenon, ConcatProperties
    <3> QED
      BY Zenon, <1>12, <2>1, <3>1
  <2>3. \A e \in 1..(n + 1) + k :
          (front \o back)[e] = IF e <= n + 1 THEN front[e] ELSE back[e - (n + 1)]
    BY <1>12, <2>1, ConcatProperties
  <2>4. edges' = front \o back
    BY <1>12, <2>1
  <2>5. PICK all \in Seq(Edge) : /\ all = edges' /\ Len(all) = (n + 1) + k
                               /\ \A e \in 1..(n + 1) + k :
                                     all[e] = IF e <= n + 1 THEN front[e] ELSE back[e - (n + 1)]
    BY <2>2, <2>3, <2>4
  <2>6. /\ DOMAIN all = 1..(n + 1 + k)
        /\ \A e \in 1..(n + 1) : all[e] = front[e]
        /\ \A d \in 1..k : all[n + 1 + d] = back[d]
    BY <1>5, <2>5
  <2> QED
    BY <1>5, <2>1, <2>5, <2>6
<1>14. /\ \A e \in 1..n : edges'[e] = edges[e]
       /\ edges'[n + 1] = ParentEdge(s)
       /\ \A d \in 1..k : edges'[n + 1 + d] = DocEdge(s, s.documents[d])
  BY SMTT(40), <1>5, <1>8, <1>12, <1>13
<1>15. built' = built + 1 /\ trace' = trace
  BY DEF AddSpan
<1>16. \A i \in 1..built' : i = built + 1 \/ i \in 1..built
  BY <1>15
<1>17. ASSUME NEW e \in DOMAIN edges'
       PROVE  \E i \in 1..built' :
                 \/ edges'[e] = ParentEdge(trace[i])
                 \/ \E d \in DOMAIN trace[i].documents :
                       edges'[e] = DocEdge(trace[i], trace[i].documents[d])
  <2>1. CASE e \in 1..n
    <3>1. PICK i \in 1..built :
            \/ edges[e] = ParentEdge(trace[i])
            \/ \E d \in DOMAIN trace[i].documents :
                  edges[e] = DocEdge(trace[i], trace[i].documents[d])
      BY <1>5, <2>1 DEF EdgesAreBuilt
    <3>2. i \in 1..built'
      BY <1>15
    <3> QED
      BY <1>14, <2>1, <3>1, <3>2
  <2>2. CASE e = n + 1
    <3>1. PICK i \in 1..built' : i = built + 1
      BY <1>15
    <3>2. edges'[e] = ParentEdge(trace[i])
      BY <1>2, <1>14, <2>2, <3>1
    <3> QED
      BY <3>2
  <2>3. CASE e \notin 1..n /\ e # n + 1
    <3>1. e - (n + 1) \in 1..k /\ e = n + 1 + (e - (n + 1))
      <4>1. e \in 1..(n + 1 + k) /\ n \in Nat /\ k \in Nat
        BY <1>5, <1>13
      <4>2. e \in Int /\ e > n + 1 /\ e <= n + 1 + k
        BY <2>3, <4>1
      <4> QED
        BY <4>1, <4>2
    <3>2. edges'[e] = DocEdge(s, s.documents[e - (n + 1)])
      BY <1>14, <3>1
    <3> QED
      BY <1>2, <1>5, <1>15, <3>1, <3>2
  <2> QED
    BY <2>1, <2>2, <2>3
<1>18. ASSUME NEW i \in 1..built'
       PROVE  /\ \E e \in DOMAIN edges' : edges'[e] = ParentEdge(trace[i])
              /\ \A d \in DOMAIN trace[i].documents :
                    \E e \in DOMAIN edges' : edges'[e] = DocEdge(trace[i], trace[i].documents[d])
  <2>1. CASE i \in 1..built
    <3>1. \A e \in DOMAIN edges : e \in DOMAIN edges' /\ edges'[e] = edges[e]
      BY <1>5, <1>13, <1>14
    <3> QED
      BY <2>1, <3>1 DEF EdgesAreBuilt
  <2>2. CASE i = built + 1
    <3>1. n + 1 \in DOMAIN edges' /\ edges'[n + 1] = ParentEdge(trace[i])
      BY <1>2, <1>5, <1>13, <1>14, <2>2
    <3>2. \A d \in 1..k : n + 1 + d \in DOMAIN edges'
                          /\ edges'[n + 1 + d] = DocEdge(trace[i], trace[i].documents[d])
      BY <1>2, <1>5, <1>13, <1>14, <2>2
    <3> QED
      BY <1>2, <1>5, <2>2, <3>1, <3>2
  <2> QED
    BY <1>16, <2>1, <2>2
<1>19. EdgesAreBuilt' <=>
         /\ edges' \in Seq(Edge)
         /\ \A e \in DOMAIN edges' : \E i \in 1..built' :
               \/ edges'[e] = ParentEdge(trace[i])
               \/ \E d \in DOMAIN trace[i].documents :
                     edges'[e] = DocEdge(trace[i], trace[i].documents[d])
         /\ \A i \in 1..built' :
               /\ \E e \in DOMAIN edges' : edges'[e] = ParentEdge(trace[i])
               /\ \A d \in DOMAIN trace[i].documents :
                     \E e \in DOMAIN edges' :
                         edges'[e] = DocEdge(trace[i], trace[i].documents[d])
  BY <1>15 DEF EdgesAreBuilt, DocEdge, ParentEdge, ParentNode, InTrace
<1> QED
  BY <1>13, <1>17, <1>18, <1>19

\* When the graph is built, what comes in to a node over its edges is what it comes
\* from, by edges of one kind.
LEMMA IncomingFacts ==
    ASSUME IsTrace, Built, EdgesAreBuilt, NEW n \in Ids
    PROVE  /\ {edges[e].source : e \in Incoming(n)} = Origins(n)
           /\ n \notin DocIds => Parents(n) = Incoming(n)
<1>1. 1..built = DOMAIN trace
  BY TraceFacts DEF Built
<1>2. ASSUME NEW e \in Incoming(n)
      PROVE  /\ edges[e].source \in Origins(n)
             /\ n \notin DocIds => edges[e].relationship = "PARENT"
  <2>1. e \in DOMAIN edges /\ edges[e].target = n
    BY DEF Incoming
  <2>2. PICK i \in 1..built :
          \/ edges[e] = ParentEdge(trace[i])
          \/ \E d \in DOMAIN trace[i].documents :
                edges[e] = DocEdge(trace[i], trace[i].documents[d])
    BY <2>1 DEF EdgesAreBuilt
  <2> i \in DOMAIN trace
    BY <1>1
  <2>3. CASE edges[e] = ParentEdge(trace[i])
    <3>1. /\ trace[i].id = n /\ edges[e].source = ParentNode(trace[i])
          /\ edges[e].relationship = "PARENT"
      BY <2>1, <2>3 DEF ParentEdge
    <3>2. n \notin DocIds
      BY <3>1, TraceFacts, IdsAssumption
    <3> QED
      BY <3>1, <3>2 DEF Origins, ParentNode
  <2>4. CASE \E d \in DOMAIN trace[i].documents :
                edges[e] = DocEdge(trace[i], trace[i].documents[d])
    <3>1. PICK d \in DOMAIN trace[i].documents :
            edges[e] = DocEdge(trace[i], trace[i].documents[d])
      BY <2>4
    <3>2. trace[i].documents[d] = n /\ edges[e].source = trace[i].id
      BY <2>1, <3>1 DEF DocEdge
    <3>3. n \in DocIds
      BY <3>2, TraceFacts
    <3> QED
      BY <3>2, <3>3 DEF Origins
  <2> QED
    BY <2>2, <2>3, <2>4
<1>3. ASSUME NEW m \in Origins(n)
      PROVE  \E e \in Incoming(n) : edges[e].source = m
  <2>1. CASE n \in DocIds
    <3>1. PICK i \in DOMAIN trace :
            /\ m = trace[i].id
            /\ \E d \in DOMAIN trace[i].documents : trace[i].documents[d] = n
      BY <2>1 DEF Origins
    <3>2. PICK d \in DOMAIN trace[i].documents : trace[i].documents[d] = n
      BY <3>1
    <3>3. PICK e \in DOMAIN edges : edges[e] = DocEdge(trace[i], trace[i].documents[d])
      BY <1>1, <3>1 DEF EdgesAreBuilt
    <3> QED
      BY <3>1, <3>2, <3>3 DEF DocEdge, Incoming
  <2>2. CASE n \notin DocIds
    <3>1. PICK i \in DOMAIN trace : trace[i].id = n /\ m = ParentNode(trace[i])
      BY <2>2 DEF Origins, ParentNode
    <3>2. PICK e \in DOMAIN edges : edges[e] = ParentEdge(trace[i])
      BY <1>1 DEF EdgesAreBuilt
    <3> QED
      BY <3>1, <3>2 DEF ParentEdge, Incoming
  <2> QED
    BY <2>1, <2>2
<1> QED
  BY <1>2, <1>3 DEF Parents, Incoming

-----------------------------------------------------------------------------
(* Nothing is further up than there are nodes *)

Reach(n, k) == UNION {Above(n, i) : i \in 1..k}

LEMMA AboveAreNodes ==
    ASSUME IsTrace, NEW n, NEW k \in Nat
    PROVE  Above(n, k + 1) \subseteq Nodes
BY AboveNext, OriginsFacts

LEMMA ReachFacts ==
    ASSUME IsTrace, NEW n, NEW k \in Nat
    PROVE  /\ Reach(n, k) \subseteq Nodes
           /\ IsFiniteSet(Reach(n, k)) /\ Cardinality(Reach(n, k)) \in Nat
           /\ Reach(n, k + 1) = Reach(n, k) \cup Above(n, k + 1)
           /\ \A m \in Reach(n, k) : Origins(m) \subseteq Reach(n, k + 1)
<1>1. ASSUME NEW i \in 1..k
      PROVE  Above(n, i) \subseteq Nodes
  <2>1. i - 1 \in Nat /\ i = (i - 1) + 1
    OBVIOUS
  <2> QED
    BY <2>1, AboveAreNodes
<1>2. Reach(n, k) \in SUBSET Nodes
  BY <1>1 DEF Reach
<1>3. IsFiniteSet(Reach(n, k))
  BY <1>2, NodesFacts, FS_Subset
<1>4. Cardinality(Reach(n, k)) \in Nat
  BY <1>3, FS_CardinalityType
<1>5. 1..(k + 1) = 1..k \cup {k + 1}
  OBVIOUS
<1>6. Reach(n, k + 1) = Reach(n, k) \cup Above(n, k + 1)
  BY <1>5 DEF Reach
<1>7. ASSUME NEW m \in Reach(n, k)
      PROVE  Origins(m) \subseteq Reach(n, k + 1)
  <2>1. PICK i \in 1..k : m \in Above(n, i)
    BY DEF Reach
  <2>2. i \in Nat /\ i + 1 \in 1..(k + 1)
    OBVIOUS
  <2>3. Origins(m) \subseteq Above(n, i + 1)
    BY <2>1, <2>2, AboveNext
  <2> QED
    BY <2>2, <2>3 DEF Reach
<1> QED
  BY <1>2, <1>3, <1>4, <1>6, <1>7

\* Each hop adds a node until one adds none.
LEMMA ReachGrows ==
    ASSUME IsTrace, NEW n, NEW k \in Nat
    PROVE  \/ \E j \in Nat : j < k /\ Above(n, j + 1) \subseteq Reach(n, j)
           \/ Cardinality(Reach(n, k)) >= k
<1> DEFINE Short == {i \in Nat : /\ ~ \E j \in Nat : j < i /\ Above(n, j + 1) \subseteq Reach(n, j)
                                 /\ ~ (Cardinality(Reach(n, i)) >= i)}
<1>1. SUFFICES ASSUME Short # {}
               PROVE  FALSE
  OBVIOUS
<1>2. PICK i \in Short : \A h \in Short : i <= h
  BY <1>1, LeastNatural
<1>3. /\ i \in Nat
      /\ \A j \in Nat : j < i => ~ (Above(n, j + 1) \subseteq Reach(n, j))
      /\ ~ (Cardinality(Reach(n, i)) >= i)
  BY <1>2
<1>4. i # 0
  BY <1>3, ReachFacts
<1>5. PICK h \in Nat : i = h + 1
  BY <1>3, <1>4
<1>6. Cardinality(Reach(n, h)) >= h
  BY <1>2, <1>3, <1>5
<1>7. PICK x \in Above(n, h + 1) : x \notin Reach(n, h)
  BY <1>3, <1>5
<1>8. /\ IsFiniteSet(Reach(n, h)) /\ Cardinality(Reach(n, h)) \in Nat
      /\ IsFiniteSet(Reach(n, h + 1)) /\ Cardinality(Reach(n, h + 1)) \in Nat
      /\ Reach(n, h) \cup {x} \in SUBSET Reach(n, h + 1)
  BY <1>7, ReachFacts
<1>9. Cardinality(Reach(n, h) \cup {x}) = Cardinality(Reach(n, h)) + 1
  BY <1>7, <1>8, FS_AddElement
<1>10. Cardinality(Reach(n, h) \cup {x}) <= Cardinality(Reach(n, h + 1))
  BY <1>8, FS_Subset
<1>11. Cardinality(Reach(n, h + 1)) >= h + 1
  BY <1>6, <1>8, <1>9, <1>10
<1> QED
  BY <1>3, <1>5, <1>11

\* So everything above is reached within one hop more than there are spans, ...
LEMMA ReachIsClosed ==
    ASSUME IsTrace, NEW n
    PROVE  \A m \in Reach(n, Len(trace) + 2) : Origins(m) \subseteq Reach(n, Len(trace) + 2)
<1>1. PICK N \in Nat : N = Len(trace) + 1
  BY TraceFacts
<1>2. Cardinality(Nodes) \in Nat /\ Cardinality(Nodes) <= N
  BY <1>1, NodesFacts, FS_CardinalityType
<1>3. Reach(n, N + 1) \in SUBSET Nodes /\ Cardinality(Reach(n, N + 1)) \in Nat
  BY ReachFacts
<1>4. Cardinality(Reach(n, N + 1)) <= Cardinality(Nodes)
  BY <1>3, NodesFacts, FS_Subset
<1>5. PICK j \in Nat : j < N + 1 /\ Above(n, j + 1) \subseteq Reach(n, j)
  <2>1. ~ (Cardinality(Reach(n, N + 1)) >= N + 1)
    BY <1>2, <1>3, <1>4
  <2>2. \/ \E j \in Nat : j < N + 1 /\ Above(n, j + 1) \subseteq Reach(n, j)
        \/ Cardinality(Reach(n, N + 1)) >= N + 1
    <3>1. PICK M \in Nat : M = N + 1
      OBVIOUS
    <3>2. \/ \E j \in Nat : j < M /\ Above(n, j + 1) \subseteq Reach(n, j)
          \/ Cardinality(Reach(n, M)) >= M
      BY ReachGrows
    <3> QED
      BY <3>1, <3>2
  <2> QED
    BY <2>1, <2>2
<1>6. \A m \in Reach(n, j) : Origins(m) \subseteq Reach(n, j)
  BY <1>5, ReachFacts
<1> DEFINE Out == {i \in Nat : i >= j /\ ~ (Above(n, i + 1) \subseteq Reach(n, j))}
<1>7. Out = {}
  <2>1. SUFFICES ASSUME Out # {}
                 PROVE  FALSE
    OBVIOUS
  <2>2. PICK i \in Out : \A h \in Out : i <= h
    BY <2>1, LeastNatural
  <2>3. i # j
    BY <1>5, <2>2
  <2>4. PICK h \in Nat : i = h + 1 /\ h >= j
    BY <2>2, <2>3
  <2>5. Above(n, i) \subseteq Reach(n, j)
    BY <2>2, <2>4
  <2>6. Above(n, i + 1) \subseteq Reach(n, j)
    BY <1>6, <2>2, <2>5, AboveNext
  <2> QED
    BY <2>2, <2>6
<1>8. Reach(n, N + 1) \subseteq Reach(n, j)
  <2>1. ASSUME NEW i \in 1..(N + 1)
        PROVE  Above(n, i) \subseteq Reach(n, j)
    <3>1. CASE i <= j
      BY <3>1 DEF Reach
    <3>2. CASE i > j
      <4>1. PICK h \in Nat : i = h + 1 /\ h >= j
        BY <3>2
      <4> QED
        BY <1>7, <4>1
    <3> QED
      BY <3>1, <3>2
  <2> QED
    BY <2>1 DEF Reach
<1>9. Reach(n, j) \subseteq Reach(n, N + 1)
  BY <1>5 DEF Reach
<1>10. Len(trace) + 2 = N + 1
  BY <1>1, TraceFacts
<1> QED
  BY <1>6, <1>8, <1>9, <1>10

\* ... beginning with what the node itself comes from, and a set that has that, and is
\* closed, has all of it.
LEMMA ReachFirst ==
    ASSUME IsTrace, NEW n
    PROVE  Origins(n) \subseteq Reach(n, Len(trace) + 2)
<1>1. Above(n, 1) = Origins(n)
  <2>1. Above(n, 0 + 1) = UNION {Origins(m) : m \in Above(n, 0)}
    BY AboveNext
  <2>2. UNION {Origins(m) : m \in {n}} = Origins(n)
    OBVIOUS
  <2>3. 0 + 1 = 1
    OBVIOUS
  <2> QED
    BY <2>1, <2>2, <2>3, AboveZero
<1>2. 1 \in 1..(Len(trace) + 2)
  BY TraceFacts
<1> QED
  BY <1>1, <1>2 DEF Reach

LEMMA ReachIsLeast ==
    ASSUME IsTrace, NEW n, NEW S, Origins(n) \subseteq S,
           \A m \in S : Origins(m) \subseteq S, NEW k \in Nat
    PROVE  Reach(n, k) \subseteq S
<1> DEFINE Out == {i \in Nat : ~ (Above(n, i + 1) \subseteq S)}
<1>1. Out = {}
  <2>1. SUFFICES ASSUME Out # {}
                 PROVE  FALSE
    OBVIOUS
  <2>2. PICK i \in Out : \A h \in Out : i <= h
    BY <2>1, LeastNatural
  <2>3. i # 0
    BY <2>2, AboveNext, AboveZero
  <2>4. PICK h \in Nat : i = h + 1
    BY <2>2, <2>3
  <2>5. Above(n, i) \subseteq S
    BY <2>2, <2>4
  <2>6. Above(n, i + 1) \subseteq S
    BY <2>2, <2>5, AboveNext
  <2> QED
    BY <2>2, <2>6
<1>2. ASSUME NEW i \in 1..k
      PROVE  Above(n, i) \subseteq S
  <2>1. PICK h \in Nat : i = h + 1
    OBVIOUS
  <2> QED
    BY <1>1, <2>1
<1> QED
  BY <1>2 DEF Reach

-----------------------------------------------------------------------------
(* The walk of ancestors *)

\* What one walk knows at any time: it lists what it has seen, once each; it has seen
\* nothing that is not above its node; and what it has seen it has looked up from, but
\* for the frontier and the edges that are left.
IsWalk(w) ==
    /\ w \in Walk
    /\ w.left \subseteq DOMAIN edges
    /\ \A e \in w.left : edges[e].source \in Reach(w.node, Len(trace) + 2)
    /\ w.seen \subseteq Reach(w.node, Len(trace) + 2)
    /\ \A i \in DOMAIN w.result : w.result[i] \in w.seen
    /\ \A m \in w.seen : \E i \in DOMAIN w.result : w.result[i] = m
    /\ \A i, j \in DOMAIN w.result : w.result[i] = w.result[j] => i = j
    /\ \A i \in DOMAIN w.frontier : w.frontier[i] \in {w.node} \cup w.seen
    /\ Len(w.frontier) <= Len(w.result) + 1
    /\ \A m \in {w.node} \cup w.seen :
          \/ \E i \in DOMAIN w.frontier : w.frontier[i] = m
          \/ \A e \in Incoming(m) : edges[e].source \in w.seen \/ e \in w.left

LEMMA WalkFields ==
    ASSUME NEW w \in Walk
    PROVE  /\ w = [node |-> w.node, seen |-> w.seen, result |-> w.result,
                   frontier |-> w.frontier, left |-> w.left]
           /\ w.node \in Ids /\ w.seen \subseteq SpanIds \cup {TraceId}
           /\ w.result \in Seq(SpanIds \cup {TraceId}) /\ w.frontier \in Seq(Ids)
           /\ w.left \subseteq Nat
           /\ Len(w.result) \in Nat /\ DOMAIN w.result = 1..Len(w.result)
           /\ Len(w.frontier) \in Nat /\ DOMAIN w.frontier = 1..Len(w.frontier)
BY DEF Walk

\* The sources of the edges into a node that the walk is at are above its own node.
LEMMA SourcesAreAbove ==
    ASSUME IsTrace, Built, EdgesAreBuilt, NEW n \in Ids,
           NEW m \in Ids, m = n \/ m \in Reach(n, Len(trace) + 2)
    PROVE  \A e \in Incoming(m) : edges[e].source \in Reach(n, Len(trace) + 2)
<1>1. \A e \in Incoming(m) : edges[e].source \in Origins(m)
  BY IncomingFacts
<1>2. Origins(m) \subseteq Reach(n, Len(trace) + 2)
  BY ReachFirst, ReachIsClosed
<1> QED
  BY <1>1, <1>2

LEMMA WalkStarts ==
    ASSUME NEW n \in Ids
    PROVE  IsWalk([node |-> n, seen |-> {}, result |-> << >>, frontier |-> <<n>>, left |-> {}])
<1> DEFINE w == [node |-> n, seen |-> {}, result |-> << >>, frontier |-> <<n>>, left |-> {}]
<1>1. /\ w.node = n /\ w.seen = {} /\ w.result = << >> /\ w.left = {} /\ w.frontier = <<n>>
      /\ w \in Walk
  BY DEF Walk
<1> HIDE DEF w
<1>2. /\ Len(w.frontier) = 1 /\ DOMAIN w.frontier = {1} /\ w.frontier[1] = n
      /\ Len(w.result) = 0 /\ DOMAIN w.result = {}
  BY <1>1
<1>3. IsWalk(w)
  BY <1>1, <1>2 DEF IsWalk
<1> QED
  BY <1>3 DEF w

LEMMA WalkPops ==
    ASSUME IsTrace, Built, EdgesAreBuilt, NEW w, IsWalk(w), w.left = {}, w.frontier # << >>,
           NEW v, v = [node |-> w.node, seen |-> w.seen, result |-> w.result,
                       frontier |-> SubSeq(w.frontier, 1, Len(w.frontier) - 1),
                       left |-> Incoming(w.frontier[Len(w.frontier)])]
    PROVE  IsWalk(v)
<1>1. w \in Walk
  BY DEF IsWalk
<1>2. /\ w.node \in Ids /\ w.seen \subseteq SpanIds \cup {TraceId}
      /\ w.result \in Seq(SpanIds \cup {TraceId}) /\ w.frontier \in Seq(Ids)
      /\ Len(w.result) \in Nat
      /\ Len(w.frontier) \in Nat /\ DOMAIN w.frontier = 1..Len(w.frontier)
  BY <1>1, WalkFields
<1>3. PICK top \in Nat : top = Len(w.frontier) /\ top >= 1
  BY <1>2
<1>4. PICK m \in Ids : m = w.frontier[top] /\ m \in {w.node} \cup w.seen
  BY <1>2, <1>3 DEF IsWalk
<1>5. PICK fr \in Seq(Ids) : fr = w.frontier
  BY <1>2
<1>6. PICK rest \in Seq(Ids) : IsFront(rest, fr)
  BY <1>5, FrontFacts
<1>7. /\ rest = SubSeq(w.frontier, 1, top - 1)
      /\ Len(rest) = top - 1 /\ DOMAIN rest = 1..(top - 1)
      /\ \A i \in 1..(top - 1) : rest[i] = w.frontier[i]
  BY <1>3, <1>5, <1>6 DEF IsFront
<1>8. /\ v.node = w.node /\ v.seen = w.seen /\ v.result = w.result
      /\ v.frontier = rest /\ v.left = Incoming(m)
  BY <1>3, <1>4, <1>7
<1>9. Incoming(m) \subseteq DOMAIN edges /\ DOMAIN edges \subseteq Nat
  BY DEF Incoming, EdgesAreBuilt
<1>10. v \in Walk
  BY <1>2, <1>3, <1>4, <1>7, <1>9 DEF Walk
<1>11. \A e \in v.left : edges[e].source \in Reach(v.node, Len(trace) + 2)
  <2>1. m = w.node \/ m \in Reach(w.node, Len(trace) + 2)
    BY <1>4 DEF IsWalk
  <2> QED
    BY <1>2, <1>8, <2>1, SourcesAreAbove
<1>12. ASSUME NEW x \in {v.node} \cup v.seen
       PROVE  \/ \E i \in DOMAIN v.frontier : v.frontier[i] = x
              \/ \A e \in Incoming(x) : edges[e].source \in v.seen \/ e \in v.left
  <2>1. CASE x = m
    BY <1>8, <2>1
  <2>2. CASE x # m
    <3>1. \/ \E i \in DOMAIN w.frontier : w.frontier[i] = x
          \/ \A e \in Incoming(x) : edges[e].source \in w.seen
      BY <1>8 DEF IsWalk
    <3>2. ASSUME NEW i \in DOMAIN w.frontier, w.frontier[i] = x
          PROVE  i \in 1..(top - 1)
      BY <1>2, <1>3, <1>4, <2>2, <3>2
    <3> QED
      BY <1>7, <1>8, <3>1, <3>2
  <2> QED
    BY <2>1, <2>2
<1>13. \A i \in DOMAIN v.frontier : v.frontier[i] \in {v.node} \cup v.seen
  BY <1>2, <1>3, <1>7, <1>8 DEF IsWalk
<1>14. Len(v.frontier) <= Len(v.result) + 1
  BY <1>2, <1>3, <1>7, <1>8 DEF IsWalk
<1> QED
  BY SMTT(40), <1>8, <1>9, <1>10, <1>11, <1>12, <1>13, <1>14 DEF IsWalk

LEMMA WalkSkips ==
    ASSUME NEW w, IsWalk(w), NEW e \in w.left, edges[e].source \in w.seen,
           NEW v, v = [node |-> w.node, seen |-> w.seen, result |-> w.result,
                       frontier |-> w.frontier, left |-> w.left \ {e}]
    PROVE  IsWalk(v)
<1>1. w \in Walk
  BY DEF IsWalk
<1>2. /\ v.node = w.node /\ v.seen = w.seen /\ v.result = w.result
      /\ v.frontier = w.frontier /\ v.left = w.left \ {e} /\ v \in Walk
  BY <1>1 DEF Walk
<1> QED
  BY <1>2 DEF IsWalk

LEMMA WalkAdds ==
    ASSUME EdgesAreBuilt, NEW w, IsWalk(w), NEW e \in w.left,
           NEW x, x = edges[e].source, x \notin w.seen,
           NEW v, v = [node |-> w.node, seen |-> w.seen \cup {x},
                       result |-> Append(w.result, x),
                       frontier |-> Append(w.frontier, x), left |-> w.left \ {e}]
    PROVE  IsWalk(v)
<1>1. w \in Walk
  BY DEF IsWalk
<1>2. /\ w.node \in Ids /\ w.seen \subseteq SpanIds \cup {TraceId}
      /\ w.result \in Seq(SpanIds \cup {TraceId}) /\ w.frontier \in Seq(Ids)
      /\ w.left \subseteq Nat
      /\ Len(w.result) \in Nat /\ DOMAIN w.result = 1..Len(w.result)
      /\ Len(w.frontier) \in Nat /\ DOMAIN w.frontier = 1..Len(w.frontier)
  BY <1>1, WalkFields
<1>3. x \in SpanIds \cup {TraceId} /\ x \in Ids
  <2>1. e \in DOMAIN edges
    BY DEF IsWalk
  <2>2. edges[e] \in Edge
    BY <2>1 DEF EdgesAreBuilt
  <2> QED
    BY <2>2 DEF Edge, Ids
<1>4. PICK more \in Seq(SpanIds \cup {TraceId}) :
        /\ more = Append(w.result, x) /\ Len(more) = Len(w.result) + 1
        /\ DOMAIN more = 1..(Len(w.result) + 1)
        /\ \A i \in 1..Len(w.result) : more[i] = w.result[i]
        /\ more[Len(w.result) + 1] = x
  <2>1. PICK s \in Seq(SpanIds \cup {TraceId}) : s = w.result
    BY <1>2
  <2>3. \E t \in Seq(SpanIds \cup {TraceId}) : IsAppended(t, s, x)
    BY <1>3, AppendFacts
  <2> QED
    BY <2>1, <2>3 DEF IsAppended
<1>5. PICK next \in Seq(Ids) :
        /\ next = Append(w.frontier, x) /\ Len(next) = Len(w.frontier) + 1
        /\ DOMAIN next = 1..(Len(w.frontier) + 1)
        /\ \A i \in 1..Len(w.frontier) : next[i] = w.frontier[i]
        /\ next[Len(w.frontier) + 1] = x
  <2>1. PICK s \in Seq(Ids) : s = w.frontier
    BY <1>2
  <2>3. \E t \in Seq(Ids) : IsAppended(t, s, x)
    BY <1>3, AppendFacts
  <2> QED
    BY <2>1, <2>3 DEF IsAppended
<1>6. /\ v.node = w.node /\ v.seen = w.seen \cup {x} /\ v.result = more
      /\ v.frontier = next /\ v.left = w.left \ {e}
  BY <1>4, <1>5
<1>7. v \in Walk
  BY <1>2, <1>3, <1>4, <1>5 DEF Walk
<1>8. x \in Reach(w.node, Len(trace) + 2)
  BY DEF IsWalk
<1>9. \A m \in w.seen : \E i \in 1..Len(w.result) : w.result[i] = m
  BY <1>2 DEF IsWalk
<1>10. \A i \in 1..Len(w.result) : w.result[i] \in w.seen
  BY <1>2 DEF IsWalk
<1>11. /\ \A i \in DOMAIN v.result : v.result[i] \in v.seen
       /\ \A m \in v.seen : \E i \in DOMAIN v.result : v.result[i] = m
  <2>1. \A i \in 1..(Len(w.result) + 1) : i \in 1..Len(w.result) \/ i = Len(w.result) + 1
    BY <1>2
  <2>2. \A i \in 1..(Len(w.result) + 1) : more[i] \in w.seen \cup {x}
    BY <1>4, <1>10, <2>1
  <2>3. ASSUME NEW y \in w.seen \cup {x}
        PROVE  \E i \in 1..(Len(w.result) + 1) : more[i] = y
    <3>1. CASE y = x
      <4>1. Len(w.result) + 1 \in 1..(Len(w.result) + 1)
        BY <1>2
      <4> QED
        BY <1>4, <3>1, <4>1
    <3>2. CASE y \in w.seen
      <4>1. PICK i \in 1..Len(w.result) : w.result[i] = y
        BY <1>9, <3>2
      <4>2. i \in 1..(Len(w.result) + 1)
        BY <1>2
      <4> QED
        BY <1>4, <4>1, <4>2
    <3> QED
      BY <3>1, <3>2
  <2>4. /\ v.result = more /\ DOMAIN more = 1..(Len(w.result) + 1)
        /\ v.seen = w.seen \cup {x}
    BY <1>4, <1>6
  <2>5. \A i \in DOMAIN v.result : v.result[i] \in v.seen
    BY <2>2, <2>4
  <2>6. \A m \in v.seen : \E i \in DOMAIN v.result : v.result[i] = m
    <3> SUFFICES ASSUME NEW m \in v.seen
                 PROVE  \E i \in DOMAIN v.result : v.result[i] = m
      OBVIOUS
    <3>1. m \in w.seen \cup {x}
      BY <2>4
    <3>2. PICK i \in 1..(Len(w.result) + 1) : more[i] = m
      BY <2>3, <3>1
    <3> QED
      BY <2>4, <3>2
  <2> QED
    BY <2>5, <2>6
<1>12. \A i, j \in DOMAIN v.result : v.result[i] = v.result[j] => i = j
  <2>1. \A i, j \in 1..Len(w.result) : w.result[i] = w.result[j] => i = j
    BY <1>2 DEF IsWalk
  <2>2. \A i \in DOMAIN v.result : i \in 1..Len(w.result) \/ i = Len(w.result) + 1
    BY <1>2, <1>4, <1>6
  <2> QED
    BY <1>4, <1>6, <1>10, <2>1, <2>2
<1>13. \A i \in DOMAIN v.frontier : v.frontier[i] \in {v.node} \cup v.seen
  <2>1. \A i \in 1..Len(w.frontier) : w.frontier[i] \in {w.node} \cup w.seen
    BY <1>2 DEF IsWalk
  <2>2. \A i \in DOMAIN v.frontier : i \in 1..Len(w.frontier) \/ i = Len(w.frontier) + 1
    BY <1>2, <1>5, <1>6
  <2> QED
    BY <1>5, <1>6, <2>1, <2>2
<1>14. ASSUME NEW m \in {v.node} \cup v.seen
       PROVE  \/ \E i \in DOMAIN v.frontier : v.frontier[i] = m
              \/ \A d \in Incoming(m) : edges[d].source \in v.seen \/ d \in v.left
  <2>1. CASE m = x
    <3>1. Len(w.frontier) + 1 \in DOMAIN v.frontier /\ v.frontier[Len(w.frontier) + 1] = m
      BY <1>2, <1>5, <1>6, <2>1
    <3> QED
      BY <3>1
  <2>2. CASE m # x
    <3>1. \/ \E i \in DOMAIN w.frontier : w.frontier[i] = m
          \/ \A d \in Incoming(m) : edges[d].source \in w.seen \/ d \in w.left
      BY <1>6, <2>2 DEF IsWalk
    <3>2. \A i \in DOMAIN w.frontier : i \in DOMAIN v.frontier /\ v.frontier[i] = w.frontier[i]
      BY <1>2, <1>5, <1>6
    <3> QED
      BY <1>6, <3>1, <3>2
  <2> QED
    BY <2>1, <2>2
<1>15. Len(v.frontier) <= Len(v.result) + 1
  BY <1>2, <1>4, <1>5, <1>6 DEF IsWalk
<1>16. /\ v.left \subseteq DOMAIN edges
       /\ \A d \in v.left : edges[d].source \in Reach(v.node, Len(trace) + 2)
       /\ v.seen \subseteq Reach(v.node, Len(trace) + 2)
  BY <1>6, <1>8 DEF IsWalk
<1> QED
  BY <1>7, <1>11, <1>12, <1>13, <1>14, <1>15, <1>16 DEF IsWalk

-----------------------------------------------------------------------------
(* A step that leaves the trace alone leaves what it says of its nodes alone *)

Completed == {i \in DOMAIN trace : trace[i].end # None}
Latest    == {i \in Completed : \A j \in Completed : trace[i].end >= trace[j].end}

LEMMA OriginsAreSteady ==
    ASSUME trace' = trace
    PROVE  /\ \A n : Origins(n)' = Origins(n)
           /\ \A n : \A k \in Nat : Above(n, k)' = Above(n, k)
           /\ \A n : \A k \in Nat : Reach(n, k)' = Reach(n, k)
           /\ Nodes' = Nodes /\ FinalNode' = FinalNode
<1>1. ASSUME NEW n
      PROVE  Origins(n)' = Origins(n)
  BY DEF Origins, InTrace
<1>2. ASSUME NEW n, NEW k \in Nat, NEW f
      PROVE  IsClimb(n, k, f)' <=> IsClimb(n, k, f)
  BY <1>1 DEF IsClimb
<1>3. ASSUME NEW n, NEW k \in Nat
      PROVE  Above(n, k)' = Above(n, k)
  <2>1. PICK f : IsClimb(n, k, f) /\ Above(n, k) = f[k]
    BY AboveIsClimb
  <2>2. PICK up : up = CHOOSE g : IsClimb(n, k, g)'
    OBVIOUS
  <2>3. \E g : IsClimb(n, k, g)'
    BY <1>2, <2>1
  <2>4. IsClimb(n, k, up)'
    BY <2>2, <2>3, Zenon
  <2>5. Above(n, k)' = up[k]
    BY <2>2, Zenon DEF Above, IsClimb
  <2>6. IsClimb(n, k, up)
    BY <1>2, <2>4
  <2>7. f[k] = up[k]
    BY <2>1, <2>6, ClimbIsOne
  <2> QED
    BY <2>1, <2>5, <2>7
<1>4. ASSUME NEW n, NEW k \in Nat
      PROVE  Reach(n, k)' = Reach(n, k)
  <2>1. \A i \in 1..k : Above(n, i)' = Above(n, i)
    BY <1>3
  <2> QED
    BY <2>1 DEF Reach
<1>5. Nodes' = Nodes
  BY Zenon DEF Nodes
<1>6. FinalNode' = FinalNode
  <2>1. Completed' = Completed
    BY DEF Completed
  <2>2. Latest' = Latest
    BY <2>1 DEF Latest
  <2>3. FinalNode = IF Completed = {} THEN TraceId ELSE trace[First(Latest)].id
    BY Zenon DEF FinalNode, Completed, Latest
  <2>4. FinalNode' = IF Completed' = {} THEN TraceId ELSE trace'[First(Latest')].id
    BY Zenon DEF FinalNode, Completed, Latest, First
  <2> QED
    BY <2>1, <2>2, <2>3, <2>4, Zenon
<1> QED
  BY <1>1, <1>3, <1>4, <1>5, <1>6

-----------------------------------------------------------------------------
(* The invariant of the graph *)

GraphInv ==
    /\ trace \in Traces
    /\ built \in 0..Len(trace)
    /\ EdgesAreBuilt
    /\ walk # None => Built /\ IsWalk(walk)

LEMMA FirstOf ==
    ASSUME NEW S \in SUBSET Nat, S # {}
    PROVE  First(S) \in S /\ \A j \in S : First(S) <= j
<1>1. \E i \in S : \A j \in S : i <= j
  BY LeastNatural
<1> QED
  BY <1>1 DEF First

\* When the graph does not change, a walk over it is what it was.
LEMMA WalkIsSteady ==
    ASSUME trace' = trace, edges' = edges, IsTrace, NEW w, walk' = w, IsWalk(w)
    PROVE  IsWalk(walk)'
<1>1. Len(trace) + 2 \in Nat
  BY TraceFacts
<1>2. \A n : Reach(n, Len(trace) + 2)' = Reach(n, Len(trace) + 2)
  <2>1. PICK k \in Nat : k = Len(trace) + 2
    BY <1>1
  <2>2. \A n : Reach(n, k)' = Reach(n, k)
    BY OriginsAreSteady
  <2>3. k = Len(trace') + 2
    BY <2>1
  <2>4. \A n : Reach(n, Len(trace) + 2)' = Reach(n, k)'
    BY <2>1, <2>3 DEF Reach
  <2> QED
    BY <2>1, <2>2, <2>4
<1>3. \A m : Incoming(m)' = Incoming(m)
  BY DEF Incoming
<1> QED
  BY <1>2, <1>3 DEF IsWalk, Walk

LEMMA GraphStarts ==
    ASSUME GraphInit
    PROVE  GraphInv
<1>1. trace \in Traces /\ edges = << >> /\ built = 0 /\ walk = None
  BY DEF GraphInit
<1>2. Len(trace) \in Nat
  BY <1>1, TraceIsTrace, TraceFacts
<1>3. EdgesAreBuilt
  <2>1. edges \in Seq(Edge) /\ DOMAIN edges = {} /\ 1..built = {}
    BY <1>1
  <2> QED
    BY <2>1 DEF EdgesAreBuilt
<1> QED
  BY <1>1, <1>2, <1>3 DEF GraphInv

\* A step that changes nothing but the walk, to a walk that is in order.
LEMMA WalkSteps ==
    ASSUME GraphInv, trace' = trace, edges' = edges, built' = built,
           \/ walk' = None
           \/ (Built /\ \E w : walk' = w /\ IsWalk(w))
    PROVE  GraphInv'
<1>1. IsTrace
  BY TraceIsTrace DEF GraphInv
<1>2. EdgesAreBuilt'
  BY DEF GraphInv, EdgesAreBuilt, DocEdge, ParentEdge, ParentNode, InTrace
<1>3. walk' # None => Built' /\ IsWalk(walk)'
  <2>1. CASE walk' = None
    BY <2>1
  <2>2. CASE Built /\ \E w : walk' = w /\ IsWalk(w)
    <3>1. PICK w : walk' = w /\ IsWalk(w)
      BY <2>2
    <3>2. IsWalk(walk)'
      BY <1>1, <3>1, WalkIsSteady
    <3> QED
      BY <2>2, <3>2 DEF Built
  <2> QED
    BY <2>1, <2>2
<1> QED
  BY <1>2, <1>3 DEF GraphInv

LEMMA PopSteps ==
    ASSUME GraphInv, PopNode
    PROVE  GraphInv'
<1>1. IsTrace /\ Built /\ IsWalk(walk) /\ EdgesAreBuilt
  BY TraceIsTrace DEF GraphInv, PopNode
<1>2. PICK w : w = walk
  OBVIOUS
<1>3. w.left = {} /\ w.frontier # << >> /\ IsWalk(w) /\ w \in Walk
  BY <1>1, <1>2 DEF PopNode, IsWalk
<1>4. walk' = [w EXCEPT !.left = Incoming(w.frontier[Len(w.frontier)]),
                        !.frontier = SubSeq(w.frontier, 1, Len(w.frontier) - 1)]
  BY <1>2 DEF PopNode
<1>5. PICK v : v = [node |-> w.node, seen |-> w.seen, result |-> w.result,
                    frontier |-> SubSeq(w.frontier, 1, Len(w.frontier) - 1),
                    left |-> Incoming(w.frontier[Len(w.frontier)])]
  OBVIOUS
<1>6. walk' = v
  <2>1. PICK u : u = walk'
    OBVIOUS
  <2>2. PICK l, f : /\ l = Incoming(w.frontier[Len(w.frontier)])
                    /\ f = SubSeq(w.frontier, 1, Len(w.frontier) - 1)
    OBVIOUS
  <2>3. u = [w EXCEPT !.left = l, !.frontier = f]
    BY <1>4, <2>1, <2>2
  <2>4. PICK n, z, q, g, h :
          w = [node |-> n, seen |-> z, result |-> q, frontier |-> g, left |-> h]
    BY <1>3, WalkFields
  <2>5. u = [node |-> n, seen |-> z, result |-> q, frontier |-> f, left |-> l]
    BY <2>3, <2>4
  <2>6. w.node = n /\ w.seen = z /\ w.result = q
    BY <2>4
  <2> QED
    BY <1>5, <2>1, <2>2, <2>5, <2>6
<1>7. IsWalk(v)
  BY <1>1, <1>3, <1>5, WalkPops
<1> QED
  BY <1>1, <1>6, <1>7, WalkSteps DEF PopNode

LEMMA FollowSteps ==
    ASSUME GraphInv, FollowEdge
    PROVE  GraphInv'
<1>1. IsTrace /\ Built /\ IsWalk(walk) /\ EdgesAreBuilt
  BY TraceIsTrace DEF GraphInv, FollowEdge
<1>2. PICK w : w = walk
  OBVIOUS
<1>3. IsWalk(w) /\ w \in Walk /\ w.left # {} /\ w.left \in SUBSET Nat
  BY <1>1, <1>2 DEF FollowEdge, IsWalk, Walk
<1>4. PICK e \in w.left : e = First(w.left)
  BY <1>3, FirstOf
<1>5. PICK x : x = edges[e].source
  OBVIOUS
<1>6. CASE x \in w.seen
  <2>1. walk' = [w EXCEPT !.left = w.left \ {e}]
    BY <1>2, <1>4, <1>5, <1>6 DEF FollowEdge, Skipped
  <2>2. PICK v : v = [node |-> w.node, seen |-> w.seen, result |-> w.result,
                      frontier |-> w.frontier, left |-> w.left \ {e}]
    OBVIOUS
  <2>3. walk' = v
    <3>1. PICK u, l : u = walk' /\ l = w.left \ {e}
      OBVIOUS
    <3>2. u = [w EXCEPT !.left = l]
      BY <2>1, <3>1
    <3>3. PICK n, z, q, g, h :
            w = [node |-> n, seen |-> z, result |-> q, frontier |-> g, left |-> h]
      BY <1>3, WalkFields
    <3>4. u = [node |-> n, seen |-> z, result |-> q, frontier |-> g, left |-> l]
      BY <3>2, <3>3
    <3>5. w.node = n /\ w.seen = z /\ w.result = q /\ w.frontier = g
      BY <3>3
    <3> QED
      BY <2>2, <3>1, <3>4, <3>5
  <2>4. IsWalk(v)
    BY <1>3, <1>5, <1>6, <2>2, WalkSkips
  <2> QED
    BY <1>1, <2>3, <2>4, WalkSteps DEF FollowEdge
<1>7. CASE x \notin w.seen
  <2>1. walk' = [w EXCEPT !.left = w.left \ {e}, !.seen = w.seen \cup {x},
                          !.result = Append(w.result, x), !.frontier = Append(w.frontier, x)]
    BY <1>2, <1>4, <1>5, <1>7 DEF FollowEdge, Skipped
  <2>2. PICK v : v = [node |-> w.node, seen |-> w.seen \cup {x},
                      result |-> Append(w.result, x),
                      frontier |-> Append(w.frontier, x), left |-> w.left \ {e}]
    OBVIOUS
  <2>3. walk' = v
    <3>1. PICK u, l, s, r, f :
            /\ u = walk' /\ l = w.left \ {e} /\ s = w.seen \cup {x}
            /\ r = Append(w.result, x) /\ f = Append(w.frontier, x)
      OBVIOUS
    <3>2. u = [w EXCEPT !.left = l, !.seen = s, !.result = r, !.frontier = f]
      BY <2>1, <3>1
    <3>3. PICK n, z, q, g, h :
            w = [node |-> n, seen |-> z, result |-> q, frontier |-> g, left |-> h]
      BY <1>3, WalkFields
    <3>4. u = [node |-> n, seen |-> s, result |-> r, frontier |-> f, left |-> l]
      BY <3>2, <3>3
    <3>5. w.node = n
      BY <3>3
    <3> QED
      BY <2>2, <3>1, <3>4, <3>5
  <2>4. IsWalk(v)
    BY <1>1, <1>3, <1>5, <1>7, <2>2, WalkAdds
  <2> QED
    BY <1>1, <2>3, <2>4, WalkSteps DEF FollowEdge
<1> QED
  BY <1>6, <1>7

LEMMA GraphSteps ==
    ASSUME GraphInv, GraphNext \/ UNCHANGED graphVars
    PROVE  GraphInv'
<1>1. CASE AddSpan
  <2>1. IsTrace /\ built \in 0..Len(trace) /\ EdgesAreBuilt
    BY TraceIsTrace DEF GraphInv
  <2>2. EdgesAreBuilt'
    BY <1>1, <2>1, AddSpanBuilds
  <2>3. built + 1 \in 0..Len(trace) /\ ~ Built
    <3>1. PICK n \in Nat : n = Len(trace)
      BY <2>1, TraceFacts
    <3>2. built \in 0..n /\ built < n
      BY <1>1, <2>1, <3>1 DEF AddSpan
    <3>3. built + 1 \in 0..n /\ built # n
      BY <3>2
    <3> QED
      BY <3>1, <3>3 DEF Built
  <2>4. walk = None
    BY <2>3 DEF GraphInv
  <2> QED
    BY <1>1, <2>2, <2>3, <2>4 DEF GraphInv, AddSpan
<1>2. CASE \E n \in Ids : Ancestors(n)
  <2>1. PICK n \in Ids : Ancestors(n)
    BY <1>2
  <2>2. IsWalk([node |-> n, seen |-> {}, result |-> << >>, frontier |-> <<n>>, left |-> {}])
    BY WalkStarts
  <2> QED
    BY <2>1, <2>2, WalkSteps DEF Ancestors
<1>3. CASE ReturnAncestors
  <2>1. trace' = trace /\ edges' = edges /\ built' = built /\ walk' = None
    BY <1>3 DEF ReturnAncestors
  <2> QED
    BY <2>1, WalkSteps
<1>4. CASE UNCHANGED graphVars
  <2>1. trace' = trace /\ edges' = edges /\ built' = built /\ walk' = walk
    BY <1>4 DEF graphVars
  <2>2. walk' = None \/ (Built /\ \E w : walk' = w /\ IsWalk(w))
    BY <2>1 DEF GraphInv
  <2> QED
    BY <2>1, <2>2, WalkSteps
<1> QED
  BY <1>1, <1>2, <1>3, <1>4, PopSteps, FollowSteps DEF GraphNext

\* What a graph that keeps its invariant is: no longer than the trace allows, ...
LEMMA GraphIsTyped ==
    ASSUME GraphInv
    PROVE  GraphTypeOK
<1>1. IsTrace
  BY TraceIsTrace DEF GraphInv
<1>2. ASSUME walk # None
      PROVE  /\ walk \in Walk /\ walk.left \subseteq DOMAIN edges
             /\ Len(walk.result) <= Len(trace) + 1
             /\ Len(walk.frontier) <= Len(walk.result) + 1
  <2>1. IsWalk(walk) /\ walk \in Walk
    BY <1>2 DEF GraphInv, IsWalk
  <2>2. PICK res : res = walk.result
    OBVIOUS
  <2>3. PICK n \in Nat : res = walk.result /\ n = Len(res) /\ DOMAIN res = 1..n
    BY <2>1, <2>2, WalkFields
  <2>4. PICK top \in Nat : top = Len(trace) + 2
    BY <1>1, TraceFacts
  <2>5. \A i \in 1..n : res[i] \in Nodes
    <3>1. Reach(walk.node, top) \subseteq Nodes
      BY <1>1, ReachFacts
    <3> QED
      BY <2>1, <2>3, <2>4, <3>1 DEF IsWalk
  <2>6. \A i, j \in 1..n : res[i] = res[j] => i = j
    BY <2>1, <2>3 DEF IsWalk
  <2>7. PICK at : at = [i \in 1..n |-> res[i]]
    OBVIOUS
  <2>8. at \in Injection(1..n, Nodes)
    <3>1. at \in [1..n -> Nodes]
      BY <2>5, <2>7
    <3>2. \A i, j \in 1..n : at[i] = at[j] => i = j
      BY <2>6, <2>7
    <3> QED
      BY <3>1, <3>2 DEF Injection, IsInjective
  <2>9. IsFiniteSet(1..n) /\ Cardinality(1..n) = n
    BY FS_Interval
  <2>10. n <= Cardinality(Nodes) /\ Cardinality(Nodes) <= Len(trace) + 1
    BY <1>1, <2>8, <2>9, FS_Injection, NodesFacts
  <2>11. n <= Len(trace) + 1
    BY <1>1, <2>10, NodesFacts, FS_CardinalityType, TraceFacts
  <2> QED
    BY <2>1, <2>3, <2>11 DEF IsWalk
<1> QED
  BY <1>2 DEF GraphInv, GraphTypeOK, EdgesAreBuilt

\* ... and with all that is above a node when a walk is through.
LEMMA GraphIsExact ==
    ASSUME GraphInv
    PROVE  AncestorsAreExact
<1>1. SUFFICES ASSUME Listed
               PROVE  /\ {walk.result[i] : i \in DOMAIN walk.result} =
                           UNION {Above(walk.node, k) : k \in 1..Len(trace) + 2}
                      /\ \A i, j \in DOMAIN walk.result : walk.result[i] = walk.result[j] => i = j
  BY DEF AncestorsAreExact
<1>2. IsTrace /\ IsWalk(walk) /\ walk \in Walk /\ Built /\ EdgesAreBuilt
  BY <1>1, TraceIsTrace DEF GraphInv, Listed, IsWalk
<1>3. PICK w : w = walk
  OBVIOUS
<1>4. /\ w \in Walk /\ IsWalk(w) /\ w.left = {} /\ w.frontier = << >> /\ w.node \in Ids
      /\ w.seen \subseteq SpanIds \cup {TraceId}
  BY <1>1, <1>2, <1>3, WalkFields DEF Listed
<1>5. \A m \in {w.node} \cup w.seen : m \in Ids
  BY <1>4 DEF Ids
<1>6. ASSUME NEW m \in {w.node} \cup w.seen
      PROVE  Origins(m) \subseteq w.seen
  <2>1. DOMAIN w.frontier = {}
    BY <1>4
  <2>2. \A e \in Incoming(m) : edges[e].source \in w.seen
    BY <1>4, <2>1 DEF IsWalk
  <2>3. {edges[e].source : e \in Incoming(m)} = Origins(m)
    BY <1>2, <1>5, IncomingFacts
  <2> QED
    BY <2>2, <2>3
<1>7. PICK top \in Nat : top = Len(trace) + 2
  BY <1>2, TraceFacts
<1>8. Reach(w.node, top) \subseteq w.seen
  BY <1>2, <1>6, ReachIsLeast
<1>9. w.seen \subseteq Reach(w.node, top)
  BY <1>4, <1>7 DEF IsWalk
<1>10. {w.result[i] : i \in DOMAIN w.result} = w.seen
  BY <1>4 DEF IsWalk
<1>11. Reach(w.node, top) = UNION {Above(w.node, k) : k \in 1..Len(trace) + 2}
  BY <1>7 DEF Reach
<1>12. \A i, j \in DOMAIN w.result : w.result[i] = w.result[j] => i = j
  BY <1>4 DEF IsWalk
<1> QED
  BY <1>3, <1>8, <1>9, <1>10, <1>11, <1>12

LEMMA GraphStays == Spec => []GraphInv
<1>1. Init => GraphInv
  BY GraphStarts DEF Init
<1>2. GraphInv /\ [Next]_vars => GraphInv'
  <2>1. [Next]_vars => GraphNext \/ UNCHANGED graphVars
    BY DEF Next, vars, Rank, OnPath, OffPath, Climb, Sort, Conclude
  <2> QED
    BY <2>1, GraphSteps
<1> QED
  BY <1>1, <1>2, PTL DEF Spec

\* The walk of ancestors lists every node that the one asked for comes from, however
\* long the trace is and whatever cycles its parents form, and each of them once
\* (ExecutionGraph.ancestors, "Walk incoming edges transitively").
THEOREM AncestorsExact == Spec => []AncestorsAreExact
<1>1. GraphInv => AncestorsAreExact
  BY GraphIsExact
<1> QED
  BY <1>1, GraphStays, PTL

-----------------------------------------------------------------------------
(* The walk up from the final node *)

\* The final node is a node of the graph, because some completed span ends last.
LEMMA FinalIsNode ==
    ASSUME IsTrace
    PROVE  FinalNode \in Nodes
<1>1. FinalNode = IF Completed = {} THEN TraceId ELSE trace[First(Latest)].id
  BY Zenon DEF FinalNode, Completed, Latest
<1>2. ASSUME Completed # {}
      PROVE  Latest # {} /\ Latest \in SUBSET Nat /\ Latest \subseteq DOMAIN trace
  <2>1. Completed \in SUBSET DOMAIN trace /\ \A i \in Completed : trace[i].end \in Nat
    BY TraceFacts, IdsAssumption DEF Completed
  <2>2. IsFiniteSet(DOMAIN trace)
    <3>1. PICK n \in Nat : n = Len(trace)
      BY TraceFacts
    <3>2. IsFiniteSet(1..n)
      BY FS_Interval
    <3> QED
      BY <3>1, <3>2, TraceFacts
  <2>3. IsFiniteSet(Completed)
    BY <2>1, <2>2, FS_Subset
  <2>4. PICK key : key = [i \in Completed |-> trace[i].end]
    OBVIOUS
  <2>5. \A i \in Completed : key[i] = trace[i].end /\ key[i] \in Int
    BY <2>1, <2>4
  <2>6. PICK i \in Completed : \A j \in Completed : key[i] >= key[j]
    BY <1>2, <2>3, <2>5, GreatestKey
  <2>7. i \in Latest
    BY <2>5, <2>6 DEF Latest
  <2>8. Latest \subseteq DOMAIN trace /\ DOMAIN trace \subseteq Nat
    BY <2>1, TraceFacts DEF Latest
  <2> QED
    BY <2>7, <2>8
<1>3. CASE Completed # {}
  <2>1. First(Latest) \in DOMAIN trace
    BY <1>2, <1>3, FirstOf
  <2> QED
    BY <1>1, <1>3, <2>1 DEF Nodes
<1> QED
  BY <1>1, <1>3 DEF Nodes

\* A set that has the node itself and what each of its members comes from has
\* everything above the node.
LEMMA AboveStaysIn ==
    ASSUME NEW n, NEW S, n \in S, \A m \in S : Origins(m) \subseteq S
    PROVE  \A k \in Nat : Above(n, k) \subseteq S
<1> DEFINE Out == {k \in Nat : ~ (Above(n, k) \subseteq S)}
<1>1. SUFFICES ASSUME Out # {}
               PROVE  FALSE
  OBVIOUS
<1>2. PICK k \in Out : \A i \in Out : k <= i
  BY <1>1, LeastNatural
<1>3. k # 0
  BY <1>2, AboveZero
<1>4. PICK i \in Nat : k = i + 1
  BY <1>2, <1>3
<1>5. Above(n, i) \subseteq S
  BY <1>2, <1>4
<1> QED
  BY <1>2, <1>4, <1>5, AboveNext

\* How far the walk for a finding has come: what it has seen on its way is not the
\* node it looks for.
IsOnTheWay(node, current, hops, visited) ==
    /\ hops \in Nat /\ current \in Nodes
    /\ Above(FinalNode, hops) = {current}
    /\ \A j \in Nat : j < hops => node \notin Above(FinalNode, j)
    /\ visited \subseteq Nodes \ {TraceId}
    /\ \A m \in visited : \E j \in Nat : j < hops /\ m \in Above(FinalNode, j)
    /\ visited # {} => hops > 0
    /\ hops > 0 => Cardinality(visited) = hops - 1

LEMMA WayBegins ==
    ASSUME IsTrace, NEW node
    PROVE  IsOnTheWay(node, FinalNode, 0, {})
BY FinalIsNode, AboveZero DEF IsOnTheWay

\* No walk has more hops than there are spans, and one.
LEMMA WayIsShort ==
    ASSUME IsTrace, NEW node, NEW current, NEW hops, NEW visited,
           IsOnTheWay(node, current, hops, visited)
    PROVE  hops <= Len(trace) + 1
<1>1. PICK n \in Nat : n = Len(trace)
  BY TraceFacts
<1>2. PICK U : U = Nodes \ {TraceId}
  OBVIOUS
<1>3. IsFiniteSet(U) /\ Cardinality(U) <= n
  BY <1>1, <1>2, NodesFacts
<1>4. visited \in SUBSET U
  BY <1>2 DEF IsOnTheWay
<1>5. Cardinality(visited) <= Cardinality(U) /\ Cardinality(U) \in Nat
  BY <1>3, <1>4, FS_Subset, FS_CardinalityType
<1>6. hops \in Nat /\ (hops > 0 => Cardinality(visited) = hops - 1)
  BY DEF IsOnTheWay
<1>7. hops <= n + 1
  BY <1>3, <1>5, <1>6
<1> QED
  BY <1>1, <1>7

\* A walk that has come to the node it looks for has counted the hops to it, ...
LEMMA WayFinds ==
    ASSUME IsTrace, NEW node, NEW current, NEW hops, NEW visited,
           IsOnTheWay(node, current, hops, visited), current = node
    PROVE  ProximityOf(node) = Closeness(hops)
<1> DEFINE distances == {k \in 0..Len(trace) + 1 : node \in Above(FinalNode, k)}
<1>1. ProximityOf(node) = IF distances = {} THEN OffPathProximity ELSE Closeness(First(distances))
  BY DEF ProximityOf
<1>2. hops \in Nat /\ hops <= Len(trace) + 1 /\ Len(trace) \in Nat
  BY WayIsShort, TraceFacts DEF IsOnTheWay
<1>3. hops \in distances
  BY <1>2 DEF IsOnTheWay
<1>4. distances \in SUBSET Nat /\ \A k \in distances : k \in Nat /\ node \in Above(FinalNode, k)
  BY <1>2
<1> HIDE DEF distances
<1>5. PICK k \in distances : k = First(distances) /\ k <= hops
  BY <1>3, <1>4, FirstOf
<1>6. k = hops
  BY <1>2, <1>4, <1>5 DEF IsOnTheWay
<1> QED
  BY <1>1, <1>3, <1>5, <1>6

\* ... and one that cannot go on, or only in a circle, has seen all there is above the
\* final node.
LEMMA WayEnds ==
    ASSUME IsTrace, NEW node, NEW current, NEW hops, NEW visited,
           IsOnTheWay(node, current, hops, visited), current # node,
           current \in visited \/ Origins(current) = {}
    PROVE  ProximityOf(node) = OffPathProximity
<1> DEFINE S == UNION {Above(FinalNode, i) : i \in 0..hops}
<1>1. hops \in Nat /\ Above(FinalNode, hops) = {current}
  BY DEF IsOnTheWay
<1>2. FinalNode \in S
  <2>1. 0 \in 0..hops /\ FinalNode \in Above(FinalNode, 0)
    BY <1>1, AboveZero
  <2> QED
    BY <2>1
<1>3. ASSUME NEW i \in Nat, i < hops, NEW m \in Above(FinalNode, i)
      PROVE  Origins(m) \subseteq S
  <2>1. i + 1 \in 0..hops
    BY <1>1, <1>3
  <2>2. Origins(m) \subseteq Above(FinalNode, i + 1)
    BY AboveNext
  <2> QED
    BY <2>1, <2>2
<1>4. Origins(current) \subseteq S
  <2>1. CASE current \in visited
    <3>1. PICK j \in Nat : j < hops /\ current \in Above(FinalNode, j)
      BY <2>1 DEF IsOnTheWay
    <3> QED
      BY <1>3, <3>1
  <2>2. CASE Origins(current) = {}
    BY <2>2
  <2> QED
    BY <2>1, <2>2
<1>5. ASSUME NEW m \in S
      PROVE  Origins(m) \subseteq S
  <2>1. PICK i \in 0..hops : m \in Above(FinalNode, i)
    OBVIOUS
  <2>2. CASE i = hops
    BY <1>1, <1>4, <2>1, <2>2
  <2>3. CASE i # hops
    <3>1. i \in Nat /\ i < hops
      BY <1>1, <2>3
    <3> QED
      BY <1>3, <2>1, <3>1
  <2> QED
    BY <2>2, <2>3
<1>6. node \notin S
  <2>1. ASSUME NEW i \in 0..hops
        PROVE  node \notin Above(FinalNode, i)
    <3>1. CASE i = hops
      BY <1>1, <3>1
    <3>2. CASE i # hops
      <4>1. i \in Nat /\ i < hops
        BY <1>1, <3>2
      <4> QED
        BY <4>1 DEF IsOnTheWay
    <3> QED
      BY <3>1, <3>2
  <2> QED
    BY <2>1
<1> HIDE DEF S
<1>7. \A k \in Nat : node \notin Above(FinalNode, k)
  BY <1>2, <1>5, <1>6, AboveStaysIn
<1>8. {k \in 0..Len(trace) + 1 : node \in Above(FinalNode, k)} = {}
  BY <1>7, TraceFacts
<1> QED
  BY <1>8 DEF ProximityOf

\* One more hop.
LEMMA WayGoesOn ==
    ASSUME IsTrace, NEW node, NEW current, NEW hops, NEW visited,
           IsOnTheWay(node, current, hops, visited), current # node,
           current \notin visited, NEW up, Origins(current) = {up},
           NEW seen, seen = IF hops = 0 THEN visited ELSE visited \cup {current},
           NEW more, more = hops + 1
    PROVE  IsOnTheWay(node, up, more, seen)
<1>1. hops \in Nat /\ Above(FinalNode, hops) = {current} /\ current \in Nodes
  BY DEF IsOnTheWay
<1>2. Above(FinalNode, hops + 1) = {up}
  <2>1. Above(FinalNode, hops + 1) = UNION {Origins(m) : m \in {current}}
    BY <1>1, AboveNext
  <2> QED
    BY <2>1
<1>3. up \in Nodes /\ current # TraceId
  BY OriginsFacts
<1>4. \A j \in Nat : j < hops + 1 => j < hops \/ j = hops
  BY <1>1
<1>5. \A j \in Nat : j < hops + 1 => node \notin Above(FinalNode, j)
  BY <1>1, <1>4 DEF IsOnTheWay
<1>6. IsFiniteSet(visited)
  <2>1. visited \in SUBSET Nodes
    BY DEF IsOnTheWay
  <2> QED
    BY <2>1, NodesFacts, FS_Subset
<1>7. CASE hops = 0
  <2>1. visited = {} /\ Cardinality({}) = 0
    BY <1>7, FS_EmptySet DEF IsOnTheWay
  <2> QED
    BY <1>1, <1>2, <1>3, <1>5, <1>7, <2>1 DEF IsOnTheWay
<1>8. CASE hops # 0
  <2>1. Cardinality(visited \cup {current}) = (hops + 1) - 1
    <3>1. Cardinality(visited \cup {current}) = Cardinality(visited) + 1
      BY <1>6, FS_AddElement
    <3>2. Cardinality(visited) = hops - 1
      BY <1>1, <1>8 DEF IsOnTheWay
    <3> QED
      BY <1>1, <3>1, <3>2
  <2>2. \A m \in visited \cup {current} : \E j \in Nat : j < hops + 1 /\ m \in Above(FinalNode, j)
    <3>1. ASSUME NEW m \in visited
          PROVE  \E j \in Nat : j < hops + 1 /\ m \in Above(FinalNode, j)
      <4>1. PICK j \in Nat : j < hops /\ m \in Above(FinalNode, j)
        BY DEF IsOnTheWay
      <4> QED
        BY <1>1, <4>1
    <3>2. hops < hops + 1 /\ current \in Above(FinalNode, hops)
      BY <1>1
    <3> QED
      BY <1>1, <3>1, <3>2
  <2>3. visited \cup {current} \subseteq Nodes \ {TraceId}
    BY <1>1, <1>3 DEF IsOnTheWay
  <2>4. seen = visited \cup {current}
    BY <1>8
  <2> QED
    BY <1>1, <1>2, <1>3, <1>5, <2>1, <2>2, <2>3, <2>4 DEF IsOnTheWay
<1> QED
  BY <1>7, <1>8

-----------------------------------------------------------------------------
(* A ranking that is under way *)

\* Each finding that is through has its proximity and a confidence that its components
\* allow, and the walk for the next one is on its way.
IsRanking(r) ==
    /\ r \in RankingRec
    /\ Len(r.components) = Len(r.confidences)
    /\ Len(r.confidences) <= Len(r.findings)
    /\ \A k \in DOMAIN r.components :
          /\ r.components[k].causal_proximity = ProximityOf(r.findings[k].node)
          /\ r.confidences[k] \in Confidences(r.components[k])
    /\ Len(r.confidences) < Len(r.findings) =>
          IsOnTheWay(r.findings[Len(r.confidences) + 1].node, r.current, r.hops, r.visited)
    /\ r.hops <= Len(trace) + 1

LEMMA RankingFields ==
    ASSUME NEW r \in RankingRec
    PROVE  /\ r = [findings |-> r.findings, current |-> r.current, hops |-> r.hops,
                   visited |-> r.visited, components |-> r.components,
                   confidences |-> r.confidences]
           /\ r.findings \in FindingLists /\ r.findings \in Seq(Finding)
           /\ r.current \in SpanIds \cup {TraceId} /\ r.hops \in Nat
           /\ r.visited \subseteq SpanIds \cup {TraceId}
           /\ r.components \in Seq(ComponentRec) /\ r.confidences \in Seq(Score)
           /\ Len(r.findings) \in Nat /\ DOMAIN r.findings = 1..Len(r.findings)
           /\ Len(r.components) \in Nat /\ DOMAIN r.components = 1..Len(r.components)
           /\ Len(r.confidences) \in Nat /\ DOMAIN r.confidences = 1..Len(r.confidences)
<1>1. /\ r = [findings |-> r.findings, current |-> r.current, hops |-> r.hops,
              visited |-> r.visited, components |-> r.components,
              confidences |-> r.confidences]
      /\ r.findings \in FindingLists
      /\ r.current \in SpanIds \cup {TraceId} /\ r.hops \in Nat
      /\ r.visited \subseteq SpanIds \cup {TraceId}
      /\ r.components \in Seq(ComponentRec) /\ r.confidences \in Seq(Score)
  BY DEF RankingRec
<1>2. r.findings \in Seq(Finding)
  BY <1>1, FindingsAssumption
<1> QED
  BY <1>1, <1>2

LEMMA RankingStarts ==
    ASSUME IsTrace, NEW fs \in FindingLists
    PROVE  IsRanking([findings |-> fs, current |-> FinalNode, hops |-> 0, visited |-> {},
                      components |-> << >>, confidences |-> << >>])
<1> DEFINE r == [findings |-> fs, current |-> FinalNode, hops |-> 0, visited |-> {},
                 components |-> << >>, confidences |-> << >>]
<1>1. FinalNode \in SpanIds \cup {TraceId}
  BY FinalIsNode, NodesFacts
<1>2. << >> \in Seq(ComponentRec) /\ << >> \in Seq(Score)
  OBVIOUS
<1>3. /\ r.findings = fs /\ r.current = FinalNode /\ r.hops = 0 /\ r.visited = {}
      /\ r.components = << >> /\ r.confidences = << >> /\ r \in RankingRec
  BY <1>1, <1>2 DEF RankingRec
<1> HIDE DEF r
<1>4. Len(r.components) = 0 /\ Len(r.confidences) = 0 /\ DOMAIN r.components = {}
  BY <1>3
<1>5. Len(r.findings) \in Nat /\ Len(trace) \in Nat
  BY <1>3, RankingFields, TraceFacts
<1>6. IsOnTheWay(r.findings[Len(r.confidences) + 1].node, r.current, r.hops, r.visited)
  BY <1>3, WayBegins
<1>7. IsRanking(r)
  BY <1>3, <1>4, <1>5, <1>6 DEF IsRanking
<1> QED
  BY <1>7 DEF r

LEMMA ClosenessIsScore ==
    ASSUME NEW hops \in Nat
    PROVE  Closeness(hops) \in Score
BY DEF Closeness, Score

LEMMA HundredIsScore == 100 \in Score
BY DEF Score

\* A finding that is through.
LEMMA RankingConcludes ==
    ASSUME IsTrace, NEW r, IsRanking(r), NEW f, Len(r.confidences) < Len(r.findings),
           f = r.findings[Len(r.confidences) + 1],
           NEW proximity \in Score, proximity = ProximityOf(f.node),
           NEW c, c = Components(f, proximity), NEW x \in Confidences(c),
           NEW v, v = [findings |-> r.findings, current |-> FinalNode, hops |-> 0,
                       visited |-> {}, components |-> Append(r.components, c),
                       confidences |-> Append(r.confidences, x)]
    PROVE  IsRanking(v)
<1>1. r \in RankingRec
  BY DEF IsRanking
<1>2. PICK n \in Nat : n = Len(r.confidences) /\ n = Len(r.components) /\ n < Len(r.findings)
  BY <1>1, RankingFields DEF IsRanking
<1>3. /\ r.findings \in FindingLists /\ r.findings \in Seq(Finding)
      /\ r.components \in Seq(ComponentRec) /\ r.confidences \in Seq(Score)
      /\ Len(r.findings) \in Nat
      /\ DOMAIN r.components = 1..n /\ DOMAIN r.confidences = 1..n
  BY <1>1, <1>2, RankingFields
<1>4. f \in Finding
  <2>1. n + 1 \in 1..Len(r.findings)
    BY <1>2, <1>3
  <2> QED
    BY <1>2, <1>3, <2>1
<1>5. c \in ComponentRec /\ c.causal_proximity = proximity
  <2>1. f.strength \in Score /\ f.frequency \in Score \cup {None}
    BY <1>4 DEF Finding
  <2>2. PICK t \in Score \cup {None} : t = IF f.changed THEN 100 ELSE None
    <3>1. 100 \in Score \cup {None} /\ None \in Score \cup {None}
      BY HundredIsScore
    <3> QED
      BY <3>1
  <2>3. c = [evidence_strength |-> f.strength, causal_proximity |-> proximity,
             temporal_correlation |-> t, historical_frequency |-> f.frequency]
    BY <2>2 DEF Components
  <2> QED
    BY <2>1, <2>3 DEF ComponentRec
<1>6. x \in Score
  BY DEF Confidences
<1>7. PICK cs \in Seq(ComponentRec) : IsAppended(cs, r.components, c)
  BY <1>3, <1>5, AppendFacts
<1>8. PICK xs \in Seq(Score) : IsAppended(xs, r.confidences, x)
  BY <1>3, <1>6, AppendFacts
<1>9. /\ cs = Append(r.components, c) /\ Len(cs) = n + 1 /\ DOMAIN cs = 1..(n + 1)
      /\ (\A k \in 1..n : cs[k] = r.components[k]) /\ cs[n + 1] = c
  BY <1>2, <1>7 DEF IsAppended
<1>10. /\ xs = Append(r.confidences, x) /\ Len(xs) = n + 1 /\ DOMAIN xs = 1..(n + 1)
       /\ (\A k \in 1..n : xs[k] = r.confidences[k]) /\ xs[n + 1] = x
  BY <1>2, <1>8 DEF IsAppended
<1>11. FinalNode \in SpanIds \cup {TraceId}
  BY FinalIsNode, NodesFacts
<1>12. /\ v.findings = r.findings /\ v.current = FinalNode /\ v.hops = 0 /\ v.visited = {}
       /\ v.components = cs /\ v.confidences = xs /\ v \in RankingRec
  BY <1>3, <1>9, <1>10, <1>11 DEF RankingRec
<1>13. ASSUME NEW k \in DOMAIN v.components
       PROVE  /\ v.components[k].causal_proximity = ProximityOf(v.findings[k].node)
              /\ v.confidences[k] \in Confidences(v.components[k])
  <2>1. k \in 1..n \/ k = n + 1
    <3>1. k \in 1..(n + 1)
      BY Zenon, <1>9, <1>12
    <3> QED
      BY <1>2, <3>1
  <2>2. CASE k \in 1..n
    <3>1. /\ r.components[k].causal_proximity = ProximityOf(r.findings[k].node)
          /\ r.confidences[k] \in Confidences(r.components[k])
      BY <1>3, <2>2 DEF IsRanking
    <3> QED
      BY <1>9, <1>10, <1>12, <2>2, <3>1
  <2>3. CASE k = n + 1
    <3>1. f = v.findings[k] /\ v.components[k] = c /\ v.confidences[k] = x
      BY <1>2, <1>9, <1>10, <1>12, <2>3
    <3> QED
      BY <1>5, <3>1
  <2> QED
    BY <2>1, <2>2, <2>3
<1>14. IsOnTheWay(v.findings[Len(v.confidences) + 1].node, v.current, v.hops, v.visited)
  BY <1>12, WayBegins
<1>15. Len(v.confidences) <= Len(v.findings) /\ Len(v.components) = Len(v.confidences)
  <2>1. /\ Len(v.confidences) = n + 1 /\ Len(v.components) = n + 1
        /\ Len(v.findings) = Len(r.findings)
    BY Zenon, <1>9, <1>10, <1>12
  <2> QED
    BY <1>2, <1>3, <2>1
<1>16. v.hops <= Len(trace) + 1
  BY <1>12, TraceFacts
<1> QED
  BY <1>12, <1>13, <1>14, <1>15, <1>16 DEF IsRanking

\* A walk that goes on.
LEMMA RankingClimbs ==
    ASSUME IsTrace, NEW r, IsRanking(r), NEW f, Len(r.confidences) < Len(r.findings),
           f = r.findings[Len(r.confidences) + 1], r.current # f.node,
           r.current \notin r.visited, NEW up, Origins(r.current) = {up},
           NEW seen, seen = IF r.hops = 0 THEN r.visited ELSE r.visited \cup {r.current},
           NEW v, v = [findings |-> r.findings, current |-> up, hops |-> r.hops + 1,
                       visited |-> seen, components |-> r.components,
                       confidences |-> r.confidences]
    PROVE  IsRanking(v)
<1>1. r \in RankingRec
  BY DEF IsRanking
<1>2. PICK node, current, hops, visited :
        /\ node = f.node /\ current = r.current /\ hops = r.hops /\ visited = r.visited
  OBVIOUS
<1>3. IsOnTheWay(node, current, hops, visited)
  BY <1>2 DEF IsRanking
<1>4. seen = IF hops = 0 THEN visited ELSE visited \cup {current}
  BY <1>2
<1>5. PICK more : more = hops + 1
  OBVIOUS
<1>6. IsOnTheWay(node, up, more, seen)
  BY <1>2, <1>3, <1>4, <1>5, WayGoesOn
<1>7. IsOnTheWay(node, up, more, seen) /\ more <= Len(trace) + 1
  BY <1>6, WayIsShort
<1>8. /\ up \in SpanIds \cup {TraceId} /\ more \in Nat /\ seen \subseteq SpanIds \cup {TraceId}
  BY <1>7, NodesFacts DEF IsOnTheWay
<1>9. /\ v.findings = r.findings /\ v.current = up /\ v.hops = more /\ v.visited = seen
      /\ v.components = r.components /\ v.confidences = r.confidences /\ v \in RankingRec
  BY <1>1, <1>2, <1>5, <1>8, RankingFields DEF RankingRec
<1> QED
  BY <1>2, <1>7, <1>9 DEF IsRanking

LEMMA ProximityIsSteady ==
    ASSUME IsTrace, trace' = trace
    PROVE  \A node : ProximityOf(node)' = ProximityOf(node)
<1>1. PICK n \in Nat : n = Len(trace) + 1
  BY TraceFacts
<1>2. ASSUME NEW node
      PROVE  ProximityOf(node)' = ProximityOf(node)
  <2> DEFINE distances == {k \in 0..n : node \in Above(FinalNode, k)}
             after     == {k \in 0..n : node \in Above(FinalNode, k)'}
  <2>1. ProximityOf(node) = IF distances = {} THEN OffPathProximity ELSE Closeness(First(distances))
    BY <1>1 DEF ProximityOf
  <2>2. ProximityOf(node)' = IF after = {} THEN OffPathProximity ELSE Closeness(First(after))
    BY <1>1 DEF ProximityOf
  <2>3. \A k \in 0..n : Above(FinalNode, k)' = Above(FinalNode, k)
    <3>1. PICK z : z = FinalNode
      OBVIOUS
    <3>2. \A k \in Nat : Above(z, k)' = Above(z, k)
      BY OriginsAreSteady
    <3>3. FinalNode' = z
      BY <3>1, OriginsAreSteady
    <3> QED
      BY <3>1, <3>2, <3>3
  <2>4. distances = after
    BY <2>3
  <2> HIDE DEF distances, after
  <2> QED
    BY <2>1, <2>2, <2>4
<1> QED
  BY <1>2

LEMMA WayIsSteady ==
    ASSUME IsTrace, trace' = trace, NEW node, NEW current, NEW hops, NEW visited,
           IsOnTheWay(node, current, hops, visited)
    PROVE  IsOnTheWay(node, current, hops, visited)'
<1>1. \A k \in Nat : Above(FinalNode, k)' = Above(FinalNode, k)
  <2>1. PICK z : z = FinalNode
    OBVIOUS
  <2>2. \A k \in Nat : Above(z, k)' = Above(z, k)
    BY OriginsAreSteady
  <2>3. FinalNode' = z
    BY <2>1, OriginsAreSteady
  <2> QED
    BY <2>1, <2>2, <2>3
<1>2. Nodes' = Nodes
  BY OriginsAreSteady
<1> QED
  BY <1>1, <1>2 DEF IsOnTheWay

LEMMA RankingIsSteady ==
    ASSUME IsTrace, trace' = trace, NEW r, ranking' = r, IsRanking(r)
    PROVE  IsRanking(ranking)'
<1>1. ASSUME Len(r.confidences) < Len(r.findings)
      PROVE  IsOnTheWay(r.findings[Len(r.confidences) + 1].node, r.current, r.hops, r.visited)'
  <2>1. PICK node, current, hops, visited :
          /\ node = r.findings[Len(r.confidences) + 1].node
          /\ current = r.current /\ hops = r.hops /\ visited = r.visited
    OBVIOUS
  <2>2. IsOnTheWay(node, current, hops, visited)
    BY <1>1, <2>1 DEF IsRanking
  <2>3. IsOnTheWay(node, current, hops, visited)'
    BY <2>2, WayIsSteady
  <2> QED
    BY <2>1, <2>3
<1>2. \A node : ProximityOf(node)' = ProximityOf(node)
  BY ProximityIsSteady
<1>3. IsRanking(ranking)' <=>
        /\ r \in RankingRec
        /\ Len(r.components) = Len(r.confidences)
        /\ Len(r.confidences) <= Len(r.findings)
        /\ \A k \in DOMAIN r.components :
              /\ r.components[k].causal_proximity = ProximityOf(r.findings[k].node)'
              /\ r.confidences[k] \in Confidences(r.components[k])
        /\ Len(r.confidences) < Len(r.findings) =>
              IsOnTheWay(r.findings[Len(r.confidences) + 1].node, r.current, r.hops, r.visited)'
        /\ r.hops <= Len(trace) + 1
  BY DEF IsRanking, RankingRec
<1> QED
  BY <1>1, <1>2, <1>3 DEF IsRanking

-----------------------------------------------------------------------------
(* The invariant of rank_root_causes *)

RankingInv == GraphInv /\ (ranking # None => Built /\ IsRanking(ranking))

LEMMA RankingMoves ==
    ASSUME GraphInv, Built, UNCHANGED graphVars, NEW r, ranking' = r, IsRanking(r)
    PROVE  RankingInv'
<1>1. IsTrace
  BY TraceIsTrace DEF GraphInv
<1>2. GraphInv'
  BY GraphSteps
<1>3. trace' = trace /\ built' = built
  BY DEF graphVars
<1>4. IsRanking(ranking)'
  BY <1>1, <1>3, RankingIsSteady
<1>5. Built'
  BY <1>3 DEF Built
<1> QED
  BY <1>2, <1>4, <1>5 DEF RankingInv

\* The parents of a node in the graph are what it comes from, which is one node or none.
LEMMA ParentsFacts ==
    ASSUME IsTrace, Built, EdgesAreBuilt, NEW n \in Nodes
    PROVE  /\ Parents(n) = {} => Origins(n) = {}
           /\ Parents(n) # {} => Origins(n) = {edges[First(Parents(n))].source}
<1>1. n \in Ids /\ n \notin DocIds
  BY NodesFacts, IdsAssumption DEF Ids
<1>2. PICK up : up = Parents(n)
  OBVIOUS
<1>3. up = Incoming(n) /\ {edges[e].source : e \in up} = Origins(n)
  BY <1>1, <1>2, IncomingFacts
<1>4. ASSUME up # {}
      PROVE  Origins(n) = {edges[First(up)].source}
  <2>1. up \in SUBSET Nat
    BY <1>3 DEF Incoming, EdgesAreBuilt
  <2>2. PICK e \in up : e = First(up)
    BY <1>4, <2>1, FirstOf
  <2>3. edges[e].source \in Origins(n)
    BY <1>3
  <2>4. \A a, b \in Origins(n) : a = b
    BY <1>1, OriginsFacts
  <2> QED
    BY <2>2, <2>3, <2>4
<1> QED
  BY <1>2, <1>3, <1>4

\* What a ranking that is not through is at.
LEMMA RankingIsAt ==
    ASSUME RankingInv, Ranking
    PROVE  /\ GraphInv /\ IsTrace /\ Built /\ EdgesAreBuilt
           /\ IsRanking(ranking) /\ ranking \in RankingRec
           /\ Len(ranking.confidences) < Len(ranking.findings)
           /\ IsOnTheWay(Current.node, ranking.current, ranking.hops, ranking.visited)
           /\ ranking.current \in Nodes /\ ranking.hops \in Nat
BY TraceIsTrace DEF RankingInv, Ranking, GraphInv, IsRanking, Current, IsOnTheWay

LEMMA ConcludeSteps ==
    ASSUME RankingInv, Ranking, NEW p \in Score, p = ProximityOf(Current.node), Conclude(p)
    PROVE  RankingInv'
<1>1. /\ GraphInv /\ IsTrace /\ Built /\ IsRanking(ranking) /\ ranking \in RankingRec
      /\ Len(ranking.confidences) < Len(ranking.findings)
  BY RankingIsAt
<1>2. PICK r, f, c : r = ranking /\ f = Current /\ c = Components(Current, p)
  OBVIOUS
<1>3. PICK x \in Confidences(c) :
        ranking' = [r EXCEPT !.components = Append(r.components, c),
                             !.confidences = Append(r.confidences, x),
                             !.current = FinalNode, !.hops = 0, !.visited = {}]
  BY <1>2 DEF Conclude
<1>4. PICK v : v = ranking'
  OBVIOUS
<1>5. PICK cs, xs, z : cs = Append(r.components, c) /\ xs = Append(r.confidences, x) /\ z = FinalNode
  OBVIOUS
<1>6. v = [r EXCEPT !.components = cs, !.confidences = xs,
                    !.current = z, !.hops = 0, !.visited = {}]
  BY <1>3, <1>4, <1>5
<1>7. PICK a, b, d, e, g, h :
        r = [findings |-> a, current |-> b, hops |-> d, visited |-> e,
             components |-> g, confidences |-> h]
  BY <1>1, <1>2, RankingFields
<1>8. v = [findings |-> a, current |-> z, hops |-> 0, visited |-> {},
           components |-> cs, confidences |-> xs]
  BY <1>6, <1>7
<1>9. r.findings = a
  BY <1>7
<1>10. v = [findings |-> r.findings, current |-> FinalNode, hops |-> 0, visited |-> {},
            components |-> Append(r.components, c), confidences |-> Append(r.confidences, x)]
  BY <1>5, <1>8, <1>9
<1>11. f = r.findings[Len(r.confidences) + 1]
  BY <1>2 DEF Current
<1>12. IsRanking(v)
  BY <1>1, <1>2, <1>10, <1>11, RankingConcludes
<1>13. UNCHANGED graphVars
  BY DEF Conclude
<1> QED
  BY <1>1, <1>4, <1>12, <1>13, RankingMoves

LEMMA OnPathSteps ==
    ASSUME RankingInv, OnPath
    PROVE  RankingInv'
<1>1. Ranking /\ ranking.current = Current.node /\ Conclude(Closeness(ranking.hops))
  BY DEF OnPath
<1>2. /\ IsTrace /\ ranking.hops \in Nat
      /\ IsOnTheWay(Current.node, ranking.current, ranking.hops, ranking.visited)
  BY <1>1, RankingIsAt
<1>3. PICK node, current, hops, visited :
        /\ node = Current.node /\ current = ranking.current
        /\ hops = ranking.hops /\ visited = ranking.visited
  OBVIOUS
<1>4. IsOnTheWay(node, current, hops, visited) /\ current = node /\ hops \in Nat
  BY <1>1, <1>2, <1>3
<1>5. PICK p \in Score : p = Closeness(hops) /\ p = ProximityOf(node)
  BY <1>2, <1>4, WayFinds, ClosenessIsScore
<1>6. p = ProximityOf(Current.node) /\ Conclude(p)
  BY <1>1, <1>3, <1>5
<1> QED
  BY <1>1, <1>6, ConcludeSteps

LEMMA OffPathSteps ==
    ASSUME RankingInv, OffPath
    PROVE  RankingInv'
<1>1. /\ Ranking /\ ranking.current # Current.node
      /\ ranking.current \in ranking.visited \/ Parents(ranking.current) = {}
      /\ Conclude(OffPathProximity)
  BY DEF OffPath, Visited
<1>2. /\ IsTrace /\ Built /\ EdgesAreBuilt /\ ranking.current \in Nodes
      /\ IsOnTheWay(Current.node, ranking.current, ranking.hops, ranking.visited)
  BY <1>1, RankingIsAt
<1>3. PICK node, current, hops, visited :
        /\ node = Current.node /\ current = ranking.current
        /\ hops = ranking.hops /\ visited = ranking.visited
  OBVIOUS
<1>4. /\ IsOnTheWay(node, current, hops, visited) /\ current # node
      /\ current \in visited \/ Origins(current) = {}
  BY <1>1, <1>2, <1>3, ParentsFacts
<1>5. OffPathProximity \in Score
  BY DEF OffPathProximity, Score
<1>6. PICK p \in Score : p = OffPathProximity /\ p = ProximityOf(node)
  BY <1>2, <1>4, <1>5, WayEnds
<1>7. p = ProximityOf(Current.node) /\ Conclude(p)
  BY <1>1, <1>3, <1>6
<1> QED
  BY <1>1, <1>7, ConcludeSteps

LEMMA ClimbSteps ==
    ASSUME RankingInv, Climb
    PROVE  RankingInv'
<1>1. /\ Ranking /\ ranking.current # Current.node
      /\ ranking.current \notin ranking.visited /\ Parents(ranking.current) # {}
  BY DEF Climb, Visited
<1>2. /\ GraphInv /\ IsTrace /\ Built /\ EdgesAreBuilt /\ ranking.current \in Nodes
      /\ IsRanking(ranking) /\ ranking \in RankingRec
      /\ Len(ranking.confidences) < Len(ranking.findings)
  BY <1>1, RankingIsAt
<1>3. PICK r, f, up, seen, more :
        /\ r = ranking /\ f = Current /\ up = edges[First(Parents(ranking.current))].source
        /\ seen = (IF ranking.hops = 0 THEN ranking.visited
                   ELSE ranking.visited \cup {ranking.current})
        /\ more = ranking.hops + 1
  OBVIOUS
<1>4. PICK v : v = ranking'
  OBVIOUS
<1>5. v = [r EXCEPT !.current = up, !.hops = more, !.visited = seen]
  BY <1>3, <1>4 DEF Climb
<1>6. PICK a, b, d, e, g, h :
        r = [findings |-> a, current |-> b, hops |-> d, visited |-> e,
             components |-> g, confidences |-> h]
  BY <1>2, <1>3, RankingFields
<1>7. v = [findings |-> a, current |-> up, hops |-> more, visited |-> seen,
           components |-> g, confidences |-> h]
  BY <1>5, <1>6
<1>8. r.findings = a /\ r.components = g /\ r.confidences = h /\ r.hops = d
  BY <1>6
<1>9. v = [findings |-> r.findings, current |-> up, hops |-> r.hops + 1, visited |-> seen,
           components |-> r.components, confidences |-> r.confidences]
  BY <1>3, <1>7, <1>8
<1>10. Origins(r.current) = {up}
  BY <1>1, <1>2, <1>3, ParentsFacts
<1>11. f = r.findings[Len(r.confidences) + 1]
  BY <1>3 DEF Current
<1>12. seen = IF r.hops = 0 THEN r.visited ELSE r.visited \cup {r.current}
  BY <1>3
<1>13. IsRanking(v)
  BY <1>1, <1>2, <1>3, <1>9, <1>10, <1>11, <1>12, RankingClimbs
<1>14. UNCHANGED graphVars
  BY DEF Climb
<1> QED
  BY <1>2, <1>4, <1>13, <1>14, RankingMoves

LEMMA RankingStays == Spec => []RankingInv
<1>1. Init => RankingInv
  BY GraphStarts DEF Init, RankingInv
<1>2. ASSUME RankingInv, [Next]_vars
      PROVE  RankingInv'
  <2>1. CASE ranking' = None /\ (GraphNext \/ UNCHANGED graphVars)
    BY <1>2, <2>1, GraphSteps DEF RankingInv
  <2>2. CASE \E fs \in FindingLists : Rank(fs)
    <3>1. PICK fs \in FindingLists : Rank(fs)
      BY <2>2
    <3>2. PICK r : /\ r = [findings |-> fs, current |-> FinalNode, hops |-> 0, visited |-> {},
                           components |-> << >>, confidences |-> << >>]
                   /\ ranking' = r
      BY <3>1 DEF Rank
    <3>3. GraphInv /\ Built /\ UNCHANGED graphVars /\ IsTrace
      BY <1>2, <3>1, TraceIsTrace DEF Rank, RankingInv, GraphInv
    <3>4. IsRanking(r)
      BY <3>2, <3>3, RankingStarts
    <3> QED
      BY <3>2, <3>3, <3>4, RankingMoves
  <2>3. CASE UNCHANGED vars /\ ranking # None
    <3>1. UNCHANGED graphVars /\ ranking' = ranking
      BY <2>3 DEF vars
    <3>2. GraphInv /\ Built /\ IsRanking(ranking)
      BY <1>2, <2>3 DEF RankingInv
    <3> QED
      BY <3>1, <3>2, RankingMoves
  <2>4. \/ ranking' = None /\ (GraphNext \/ UNCHANGED graphVars)
        \/ \E fs \in FindingLists : Rank(fs)
        \/ UNCHANGED vars /\ ranking # None
        \/ OnPath \/ OffPath \/ Climb
    BY <1>2 DEF Next, vars, Sort
  <2> QED
    BY <1>2, <2>1, <2>2, <2>3, <2>4, OnPathSteps, OffPathSteps, ClimbSteps
<1> QED
  BY <1>1, <1>2, PTL DEF Spec

\* The proximity that a finding is given is that of the shortest way up from the final
\* node to the finding's node, and that of no way when there is none, for traces of any
\* length and parents in any circles (_causal_proximity, _hops_to_ancestor).
THEOREM ProximityExact == Spec => []ProximityIsExact
<1>1. RankingInv => ProximityIsExact
  BY DEF RankingInv, IsRanking, ProximityIsExact
<1> QED
  BY <1>1, RankingStays, PTL

-----------------------------------------------------------------------------
(* The sort *)

LEMMA PlacesAreFinite ==
    ASSUME NEW N \in Nat
    PROVE  IsFiniteSet(1..N) /\ Cardinality(1..N) = N
BY FS_Interval

\* Every place is taken by one confidence, those that go before one another in order.
LEMMA PlacesAreTaken ==
    ASSUME ranking.confidences \in Seq(Score), NEW N \in Nat, N = Len(ranking.confidences)
    PROVE  /\ \A p \in 1..N : \E i \in 1..N : Place(i) = p
           /\ \A i, j \in 1..N : Place(i) < Place(j) => Before(i, j)
<1>1. PICK c : c = ranking.confidences
  OBVIOUS
<1>2. /\ DOMAIN ranking.confidences = 1..N
      /\ \A i \in 1..N : c[i] \in Int
  <2>1. c \in Seq(Score) /\ Len(c) = N
    BY <1>1
  <2>2. DOMAIN c = 1..N /\ \A i \in 1..N : c[i] \in Score
    BY <2>1
  <2>3. \A x \in Score : x \in Int
    BY DEF Score
  <2> QED
    BY <1>1, <2>2, <2>3
<1>3. \A i, j : Before(i, j) <=> c[i] > c[j] \/ (c[i] = c[j] /\ i < j)
  BY <1>1 DEF Before
<1> DEFINE Ahead(i) == {j \in 1..N : Before(j, i)}
<1>4. ASSUME NEW i
      PROVE  Place(i) = 1 + Cardinality(Ahead(i))
  <2>1. PICK A : A = {j \in DOMAIN ranking.confidences : Before(j, i)}
    OBVIOUS
  <2>2. A = Ahead(i)
    BY <1>2, <2>1
  <2>3. Place(i) = 1 + Cardinality(A)
    BY <2>1, Zenon DEF Place
  <2> HIDE DEF Ahead
  <2> QED
    BY <2>2, <2>3
<1>5. IsFiniteSet(1..N) /\ Cardinality(1..N) = N
  BY PlacesAreFinite, Zenon
<1>6. ASSUME NEW i \in 1..N
      PROVE  /\ IsFiniteSet(Ahead(i)) /\ Cardinality(Ahead(i)) \in Nat
             /\ i \notin Ahead(i) /\ Ahead(i) \in SUBSET (1..N)
             /\ Cardinality(Ahead(i)) + 1 <= N
  <2>1. i \notin Ahead(i)
    BY <1>2, <1>3
  <2>2. PICK A \in SUBSET (1..N) : A = Ahead(i) /\ i \notin A
    BY <2>1
  <2> HIDE DEF Ahead
  <2>3. IsFiniteSet(A) /\ Cardinality(A) \in Nat
    BY <1>5, FS_Subset, FS_CardinalityType
  <2>4. Cardinality(A \cup {i}) = Cardinality(A) + 1
    BY <2>2, <2>3, FS_AddElement
  <2>5. A \cup {i} \in SUBSET (1..N)
    BY <2>2
  <2>6. Cardinality(A \cup {i}) <= N
    BY <1>5, <2>5, FS_Subset
  <2> QED
    BY <2>2, <2>3, <2>4, <2>6
<1>7. ASSUME NEW i \in 1..N, NEW j \in 1..N, Before(i, j)
      PROVE  Place(i) < Place(j)
  <2>1. Ahead(i) \cup {i} \subseteq Ahead(j)
    BY <1>2, <1>3, <1>7
  <2>2. PICK A, B : A = Ahead(i) /\ B = Ahead(j)
    OBVIOUS
  <2>3. /\ IsFiniteSet(A) /\ Cardinality(A) \in Nat /\ i \notin A
        /\ IsFiniteSet(B) /\ Cardinality(B) \in Nat /\ A \cup {i} \in SUBSET B
    BY <1>6, <2>1, <2>2
  <2>4. Cardinality(A \cup {i}) = Cardinality(A) + 1 /\ Cardinality(A \cup {i}) <= Cardinality(B)
    BY <2>3, FS_AddElement, FS_Subset
  <2>5. Place(i) = 1 + Cardinality(A) /\ Place(j) = 1 + Cardinality(B)
    BY <1>4, <2>2
  <2> QED
    BY <2>3, <2>4, <2>5
<1>8. \A i, j \in 1..N : i # j => Before(i, j) \/ Before(j, i)
  BY <1>2, <1>3
<1>9. \A i \in 1..N : Place(i) \in 1..N
  <2>1. ASSUME NEW i \in 1..N
        PROVE  Place(i) \in 1..N
    <3>1. PICK k \in Nat : k = Cardinality(Ahead(i)) /\ k + 1 <= N
      BY <1>6
    <3>2. Place(i) = 1 + k
      BY <1>4, <3>1
    <3> QED
      BY <3>1, <3>2
  <2> QED
    BY <2>1
<1> HIDE DEF Ahead
<1>10. PICK at : at = [i \in 1..N |-> Place(i)]
  OBVIOUS
<1>11. at \in Injection(1..N, 1..N)
  <2>1. at \in [1..N -> 1..N]
    BY <1>9, <1>10
  <2>2. \A i, j \in 1..N : at[i] = at[j] => i = j
    BY SMTT(40), <1>7, <1>8, <1>9, <1>10
  <2> QED
    BY <2>1, <2>2 DEF Injection, IsInjective
<1>12. at \in Surjection(1..N, 1..N)
  BY <1>5, <1>11, FS_Injection
<1>13. \A p \in 1..N : \E i \in 1..N : Place(i) = p
  BY <1>10, <1>12 DEF Surjection
<1>14. ASSUME NEW i \in 1..N, NEW j \in 1..N, Place(i) < Place(j)
       PROVE  Before(i, j)
  <2>1. PICK a \in 1..N, b \in 1..N : a = Place(i) /\ b = Place(j) /\ a < b
    BY <1>9, <1>14
  <2>2. i # j
    BY <2>1
  <2>3. ~ Before(j, i)
    <3>1. SUFFICES ASSUME Before(j, i)
                   PROVE  FALSE
      OBVIOUS
    <3>2. Place(j) < Place(i)
      BY <1>7, <3>1
    <3> QED
      BY <2>1, <3>2
  <2> QED
    BY <1>8, <2>2, <2>3
<1> QED
  BY <1>13, <1>14

Hypothesis == [finding: Nat, components: ComponentRec, confidence: Score,
               label: {"likely_cause", "contributing_factor"}]

\* What a ranking returns: its findings in the order of their confidences and, where
\* these are the same, in the order they were reported in.
AreRanked(hs) ==
    /\ hs \in Seq(Hypothesis)
    /\ \A p \in DOMAIN hs : hs[p].confidence \in Confidences(hs[p].components)
    /\ \A p, q \in DOMAIN hs : hs[p].finding = hs[q].finding => p = q
    /\ \A p, q \in DOMAIN hs : p < q =>
          \/ hs[p].confidence > hs[q].confidence
          \/ hs[p].confidence = hs[q].confidence /\ hs[p].finding < hs[q].finding

LEMMA NoneIsRanked == AreRanked(<< >>)
<1>1. << >> \in Seq(Hypothesis) /\ DOMAIN << >> = {}
  OBVIOUS
<1> QED
  BY <1>1 DEF AreRanked

LEMMA SortRanks ==
    ASSUME RankingInv, Sort
    PROVE  AreRanked(hypotheses')
<1>1. ranking # None /\ ~ Ranking /\ IsRanking(ranking) /\ ranking \in RankingRec
  BY DEF Sort, RankingInv, IsRanking
<1>2. PICK r : r = ranking
  OBVIOUS
<1>3. r \in RankingRec /\ IsRanking(r)
  BY <1>1, <1>2
<1>4. PICK N \in Nat : /\ N = Len(r.findings) /\ N = Len(r.confidences) /\ N = Len(r.components)
                       /\ DOMAIN r.findings = 1..N /\ DOMAIN r.confidences = 1..N
                       /\ DOMAIN r.components = 1..N
  <2>1. /\ Len(r.findings) \in Nat /\ DOMAIN r.findings = 1..Len(r.findings)
        /\ Len(r.components) \in Nat /\ DOMAIN r.components = 1..Len(r.components)
        /\ Len(r.confidences) \in Nat /\ DOMAIN r.confidences = 1..Len(r.confidences)
    BY <1>3, RankingFields
  <2>2. ~ (Len(r.confidences) < Len(r.findings))
    BY <1>1, <1>2 DEF Ranking
  <2>3. Len(r.components) = Len(r.confidences) /\ Len(r.confidences) <= Len(r.findings)
    BY <1>3 DEF IsRanking
  <2>4. Len(r.confidences) = Len(r.findings)
    BY <2>1, <2>2, <2>3
  <2> QED
    BY <2>1, <2>3, <2>4
<1>5. r.confidences \in Seq(Score) /\ r.components \in Seq(ComponentRec)
  BY <1>3, RankingFields
<1>6. /\ \A p \in 1..N : \E i \in 1..N : Place(i) = p
      /\ \A i, j \in 1..N : Place(i) < Place(j) => Before(i, j)
  BY <1>2, <1>4, <1>5, PlacesAreTaken
<1>7. PICK at : at = [p \in 1..N |-> CHOOSE j \in 1..N : Place(j) = p]
  OBVIOUS
<1>8. \A p \in 1..N : at[p] \in 1..N /\ Place(at[p]) = p
  <2>1. ASSUME NEW p \in 1..N
        PROVE  at[p] \in 1..N /\ Place(at[p]) = p
    <3>1. PICK i : i = CHOOSE j \in 1..N : Place(j) = p
      OBVIOUS
    <3>2. i \in 1..N /\ Place(i) = p
      BY <1>6, <3>1
    <3>3. at[p] = i
      BY <1>7, <3>1
    <3> QED
      BY <3>2, <3>3
  <2> QED
    BY <2>1
<1>9. hypotheses' = [p \in 1..N |->
         [finding    |-> at[p],
          components |-> r.components[at[p]],
          confidence |-> r.confidences[at[p]],
          label      |-> IF p = 1 THEN "likely_cause" ELSE "contributing_factor"]]
  BY <1>2, <1>4, <1>7 DEF Sort
<1>10. PICK hs : hs = hypotheses'
  OBVIOUS
<1>11. ASSUME NEW p \in 1..N
       PROVE  /\ hs[p] \in Hypothesis
              /\ hs[p].finding = at[p] /\ hs[p].components = r.components[at[p]]
              /\ hs[p].confidence = r.confidences[at[p]]
  <2>1. PICK l \in {"likely_cause", "contributing_factor"} :
          l = IF p = 1 THEN "likely_cause" ELSE "contributing_factor"
    OBVIOUS
  <2>2. hs[p] = [finding |-> at[p], components |-> r.components[at[p]],
                 confidence |-> r.confidences[at[p]], label |-> l]
    BY <1>9, <1>10, <2>1
  <2>3. at[p] \in 1..N /\ at[p] \in Nat
    BY <1>8
  <2>4. r.components[at[p]] \in ComponentRec /\ r.confidences[at[p]] \in Score
    BY <1>4, <1>5, <2>3
  <2> QED
    BY <2>2, <2>3, <2>4 DEF Hypothesis
<1>12. hs \in Seq(Hypothesis) /\ DOMAIN hs = 1..N
  <2>1. hs = [p \in 1..N |-> hs[p]]
    BY <1>9, <1>10
  <2>2. hs \in [1..N -> Hypothesis]
    BY <1>11, <2>1
  <2> QED
    BY <2>1, <2>2
<1>13. ASSUME NEW p \in DOMAIN hs
       PROVE  hs[p].confidence \in Confidences(hs[p].components)
  <2>1. at[p] \in DOMAIN r.components /\ p \in 1..N
    BY <1>4, <1>8, <1>12
  <2>2. r.confidences[at[p]] \in Confidences(r.components[at[p]])
    BY <1>3, <2>1 DEF IsRanking
  <2> QED
    BY <1>11, <2>1, <2>2
<1>14. ASSUME NEW p \in DOMAIN hs, NEW q \in DOMAIN hs, p < q
       PROVE  \/ hs[p].confidence > hs[q].confidence
              \/ hs[p].confidence = hs[q].confidence /\ hs[p].finding < hs[q].finding
  <2>1. p \in 1..N /\ q \in 1..N
    BY <1>12
  <2>2. PICK i \in 1..N, j \in 1..N : i = at[p] /\ j = at[q]
    BY <1>8, <2>1
  <2>3. Place(i) = p /\ Place(j) = q
    BY <1>8, <2>1, <2>2
  <2>4. Before(i, j)
    BY <1>6, <1>14, <2>3
  <2>5. r.confidences[i] > r.confidences[j] \/ (r.confidences[i] = r.confidences[j] /\ i < j)
    BY <1>2, <2>4 DEF Before
  <2> QED
    BY <1>11, <2>1, <2>2, <2>5
<1>15. ASSUME NEW p \in DOMAIN hs, NEW q \in DOMAIN hs, hs[p].finding = hs[q].finding
       PROVE  p = q
  <2>1. at[p] = at[q]
    BY <1>11, <1>12, <1>15
  <2> QED
    BY <1>8, <1>12, <2>1
<1>16. AreRanked(hs)
  BY <1>12, <1>13, <1>14, <1>15 DEF AreRanked
<1> QED
  BY <1>10, <1>16

LEMMA HypothesesStay == Spec => []AreRanked(hypotheses)
<1>1. Init => AreRanked(hypotheses)
  BY NoneIsRanked DEF Init
<1>2. ASSUME RankingInv, AreRanked(hypotheses), [Next]_vars
      PROVE  AreRanked(hypotheses)'
  <2>1. PICK hs, next : hs = hypotheses /\ next = hypotheses'
    OBVIOUS
  <2>2. next = hs \/ next = << >> \/ Sort
    BY <1>2, <2>1 DEF Next, vars, Rank, OnPath, OffPath, Climb, Conclude
  <2>3. AreRanked(next)
    BY <1>2, <2>1, <2>2, NoneIsRanked, SortRanks
  <2>4. AreRanked(hypotheses)' <=> AreRanked(next)
    BY <2>1 DEF AreRanked
  <2> QED
    BY <2>3, <2>4
<1> QED
  BY <1>1, <1>2, RankingStays, PTL DEF Spec

\* The bounds on a walk and on the hops make them end, and what a ranking holds and
\* returns has the form it should, for every graph and every list of findings.
THEOREM TypeCorrect == Spec => []TypeOK
<1>1. ASSUME RankingInv, AreRanked(hypotheses)
      PROVE  TypeOK
  <2>1. GraphTypeOK
    BY <1>1, GraphIsTyped DEF RankingInv
  <2>2. ASSUME ranking # None
        PROVE  /\ ranking \in RankingRec
               /\ Len(ranking.components) = Len(ranking.confidences)
               /\ Len(ranking.confidences) <= Len(ranking.findings)
               /\ ranking.hops <= Len(trace) + 2
    <3>1. PICK r : r = ranking /\ IsRanking(r)
      BY <1>1, <2>2 DEF RankingInv
    <3>2. r.hops \in Nat /\ r.hops <= Len(trace) + 1 /\ Len(trace) \in Nat
      BY <1>1, <3>1, RankingFields, TraceIsTrace, TraceFacts DEF IsRanking, RankingInv, GraphInv
    <3>3. r.hops <= Len(trace) + 2
      BY <3>2
    <3> QED
      BY <3>1, <3>3 DEF IsRanking
  <2>3. hypotheses \in Seq(Hypothesis)
    BY <1>1 DEF AreRanked
  <2> QED
    BY <2>1, <2>2, <2>3 DEF TypeOK, Hypothesis
<1> QED
  BY <1>1, RankingStays, HypothesesStay, PTL

-----------------------------------------------------------------------------
(* The weighted mean *)

\* The mean, with what each of the components that may be missing adds to it.
LEMMA SumsAre ==
    ASSUME NEW c \in ComponentRec
    PROVE  /\ c.evidence_strength \in Score /\ c.evidence_strength # None
           /\ c.causal_proximity \in Score /\ c.causal_proximity # None
           /\ c.temporal_correlation # None => c.temporal_correlation \in Score
           /\ c.historical_frequency # None => c.historical_frequency \in Score
           /\ DOMAIN c = {"evidence_strength", "causal_proximity",
                          "temporal_correlation", "historical_frequency"}
           /\ TotalWeight(c) = 6 + (IF c.temporal_correlation = None THEN 0 ELSE 2)
                                 + (IF c.historical_frequency = None THEN 0 ELSE 2)
           /\ WeightedSum(c) = 4 * c.evidence_strength + 2 * c.causal_proximity
                 + (IF c.temporal_correlation = None THEN 0 ELSE 2 * c.temporal_correlation)
                 + (IF c.historical_frequency = None THEN 0 ELSE 2 * c.historical_frequency)
<1>1. /\ c.evidence_strength \in Score /\ c.causal_proximity \in Score
      /\ c.temporal_correlation \in Score \cup {None}
      /\ c.historical_frequency \in Score \cup {None}
      /\ DOMAIN c = {"evidence_strength", "causal_proximity",
                     "temporal_correlation", "historical_frequency"}
  BY DEF ComponentRec
<1>2. c.evidence_strength # None /\ c.causal_proximity # None
  BY <1>1, FindingsAssumption
<1>3. TotalWeight(c) = 6 + (IF c.temporal_correlation = None THEN 0 ELSE 2)
                         + (IF c.historical_frequency = None THEN 0 ELSE 2)
  <2>1. /\ Weight(c, "evidence_strength") = 4 /\ Weight(c, "causal_proximity") = 2
        /\ Weight(c, "temporal_correlation") = IF c.temporal_correlation = None THEN 0 ELSE 2
        /\ Weight(c, "historical_frequency") = IF c.historical_frequency = None THEN 0 ELSE 2
    BY <1>2 DEF Weight, Weights
  <2> QED
    BY <2>1 DEF TotalWeight
<1>4. WeightedSum(c) = 4 * c.evidence_strength + 2 * c.causal_proximity
         + (IF c.temporal_correlation = None THEN 0 ELSE 2 * c.temporal_correlation)
         + (IF c.historical_frequency = None THEN 0 ELSE 2 * c.historical_frequency)
  <2>1. /\ Part(c, "evidence_strength") = 4 * c.evidence_strength
        /\ Part(c, "causal_proximity") = 2 * c.causal_proximity
        /\ Part(c, "temporal_correlation") =
              IF c.temporal_correlation = None THEN 0 ELSE 2 * c.temporal_correlation
        /\ Part(c, "historical_frequency") =
              IF c.historical_frequency = None THEN 0 ELSE 2 * c.historical_frequency
    BY <1>2 DEF Part, Weights
  <2> QED
    BY <2>1 DEF WeightedSum
<1> QED
  BY <1>1, <1>2, <1>3, <1>4

\* What a component that is missing counts for is nothing, whatever it is put at.
LEMMA MeanOfFour ==
    ASSUME NEW e \in Int, NEW p \in Int, NEW t \in Int, NEW h \in Int, NEW r \in Int,
           NEW a \in {0, 2}, NEW b \in {0, 2},
           NEW W, W = 6 + a + b, NEW S, S = 4 * e + 2 * p + a * t + b * h,
           -W <= 2 * (r * W - S), 2 * (r * W - S) <= W
    PROVE  /\ e <= r \/ p <= r \/ (a = 2 /\ t <= r) \/ (b = 2 /\ h <= r)
           /\ e >= r \/ p >= r \/ (a = 2 /\ t >= r) \/ (b = 2 /\ h >= r)
<1>1. CASE a = 0 /\ b = 0
  <2>1. W = 6 /\ S = 4 * e + 2 * p
    BY <1>1
  <2>2. -6 <= 2 * (r * 6 - (4 * e + 2 * p)) /\ 2 * (r * 6 - (4 * e + 2 * p)) <= 6
    BY <2>1
  <2> QED
    BY <2>2
<1>2. CASE a = 2 /\ b = 0
  <2>1. W = 8 /\ S = 4 * e + 2 * p + 2 * t
    BY <1>2
  <2>2. -8 <= 2 * (r * 8 - (4 * e + 2 * p + 2 * t)) /\ 2 * (r * 8 - (4 * e + 2 * p + 2 * t)) <= 8
    BY <2>1
  <2> QED
    BY <1>2, <2>2
<1>3. CASE a = 0 /\ b = 2
  <2>1. W = 8 /\ S = 4 * e + 2 * p + 2 * h
    BY <1>3
  <2>2. -8 <= 2 * (r * 8 - (4 * e + 2 * p + 2 * h)) /\ 2 * (r * 8 - (4 * e + 2 * p + 2 * h)) <= 8
    BY <2>1
  <2> QED
    BY <1>3, <2>2
<1>4. CASE a = 2 /\ b = 2
  <2>1. W = 10 /\ S = 4 * e + 2 * p + 2 * t + 2 * h
    BY <1>4
  <2>2. /\ -10 <= 2 * (r * 10 - (4 * e + 2 * p + 2 * t + 2 * h))
        /\ 2 * (r * 10 - (4 * e + 2 * p + 2 * t + 2 * h)) <= 10
    BY <2>1
  <2> QED
    BY <1>4, <2>2
<1> QED
  BY <1>1, <1>2, <1>3, <1>4

LEMMA MeansInOrder ==
    ASSUME NEW e \in Int, NEW p \in Int, NEW t \in Int, NEW h \in Int, NEW r \in Int,
           NEW f \in Int, NEW q \in Int, NEW u \in Int, NEW g \in Int, NEW s \in Int,
           NEW a \in {0, 2}, NEW b \in {0, 2},
           e >= f, p >= q, a = 2 => t >= u, b = 2 => h >= g,
           e # f \/ p # q \/ (a = 2 /\ t # u) \/ (b = 2 /\ h # g),
           NEW W, W = 6 + a + b,
           NEW S, S = 4 * e + 2 * p + a * t + b * h,
           NEW T, T = 4 * f + 2 * q + a * u + b * g,
           2 * (r * W - S) >= -W, 2 * (s * W - T) <= W
    PROVE  r >= s
<1>1. S \in Int /\ T \in Int /\ S > T
  <2>1. CASE a = 0 /\ b = 0
    BY <2>1
  <2>2. CASE a = 2 /\ b = 0
    BY <2>2
  <2>3. CASE a = 0 /\ b = 2
    BY <2>3
  <2>4. CASE a = 2 /\ b = 2
    BY <2>4
  <2> QED
    BY <2>1, <2>2, <2>3, <2>4
<1>2. W \in {6, 8, 10}
  OBVIOUS
<1>3. CASE W = 6
  <2>1. 2 * (r * 6 - S) >= -6 /\ 2 * (s * 6 - T) <= 6
    BY <1>3
  <2> QED
    BY <1>1, <2>1
<1>4. CASE W = 8
  <2>1. 2 * (r * 8 - S) >= -8 /\ 2 * (s * 8 - T) <= 8
    BY <1>4
  <2> QED
    BY <1>1, <2>1
<1>5. CASE W = 10
  <2>1. 2 * (r * 10 - S) >= -10 /\ 2 * (s * 10 - T) <= 10
    BY <1>5
  <2> QED
    BY <1>1, <2>1
<1> QED
  BY <1>2, <1>3, <1>4, <1>5
LEMMA MissingCountsNothing ==
    ASSUME NEW t, t # None => t \in 0..100
    PROVE  \E a \in {0, 2}, x \in Int :
             /\ a = 2 <=> t # None
             /\ t # None => x = t
             /\ a = (IF t = None THEN 0 ELSE 2)
             /\ a * x = (IF t = None THEN 0 ELSE 2 * t)
<1>1. CASE t = None
  <2>1. PICK a \in {0, 2}, x \in Int : a = 0 /\ x = 0
    OBVIOUS
  <2>2. a * x = 0 /\ a # 2
    BY <2>1
  <2> QED
    BY <1>1, <2>1, <2>2
<1>2. CASE t # None
  <2>1. PICK a \in {0, 2}, x \in Int : a = 2 /\ x = t
    BY <1>2
  <2>2. a * x = 2 * t
    BY <2>1
  <2> QED
    BY <1>2, <2>1, <2>2
<1> QED
  BY <1>1, <1>2

\* A mean is neither above nor below everything it is made of.
LEMMA MeanIsWithin ==
    ASSUME NEW c \in ComponentRec, NEW r \in Confidences(c)
    PROVE  /\ \E n \in Present(c) : c[n] <= r
           /\ \E n \in Present(c) : c[n] >= r
<1>1. PICK e, p, t, h :
        /\ e \in 0..100 /\ p \in 0..100
        /\ e = c.evidence_strength /\ p = c.causal_proximity
        /\ t = c.temporal_correlation /\ h = c.historical_frequency
        /\ t # None => t \in 0..100
        /\ h # None => h \in 0..100
  BY SumsAre DEF Score
<1>2. PICK W, S : W = TotalWeight(c) /\ S = WeightedSum(c)
  OBVIOUS
<1>3. /\ W = 6 + (IF t = None THEN 0 ELSE 2) + (IF h = None THEN 0 ELSE 2)
      /\ S = 4 * e + 2 * p + (IF t = None THEN 0 ELSE 2 * t) + (IF h = None THEN 0 ELSE 2 * h)
  BY <1>1, <1>2, SumsAre
<1>4. r \in 0..100 /\ -W <= 2 * (r * W - S) /\ 2 * (r * W - S) <= W
  BY <1>2 DEF Confidences, Score
<1>5. /\ "evidence_strength" \in Present(c) /\ "causal_proximity" \in Present(c)
      /\ t # None => "temporal_correlation" \in Present(c)
      /\ h # None => "historical_frequency" \in Present(c)
  BY <1>1, SumsAre DEF Present
<1>6. /\ e <= r \/ p <= r \/ (t # None /\ t <= r) \/ (h # None /\ h <= r)
      /\ e >= r \/ p >= r \/ (t # None /\ t >= r) \/ (h # None /\ h >= r)
  <2>1. PICK a \in {0, 2}, x \in Int :
          /\ a = 2 <=> t # None
          /\ t # None => x = t
          /\ a = (IF t = None THEN 0 ELSE 2)
          /\ a * x = (IF t = None THEN 0 ELSE 2 * t)
    BY <1>1, MissingCountsNothing
  <2>2. PICK b \in {0, 2}, y \in Int :
          /\ b = 2 <=> h # None
          /\ h # None => y = h
          /\ b = (IF h = None THEN 0 ELSE 2)
          /\ b * y = (IF h = None THEN 0 ELSE 2 * h)
    BY <1>1, MissingCountsNothing
  <2>3. W = 6 + a + b /\ S = 4 * e + 2 * p + a * x + b * y
    BY <1>3, <2>1, <2>2
  <2>4. e \in Int /\ p \in Int /\ r \in Int
    BY <1>1, <1>4
  <2>5. /\ e <= r \/ p <= r \/ (a = 2 /\ x <= r) \/ (b = 2 /\ y <= r)
        /\ e >= r \/ p >= r \/ (a = 2 /\ x >= r) \/ (b = 2 /\ y >= r)
    BY SMTT(30), <1>4, <2>3, <2>4, MeanOfFour
  <2> QED
    BY <2>1, <2>2, <2>5
<1> QED
  BY <1>1, <1>5, <1>6

\* The mean of what is ahead in the same components is not below.
LEMMA MeanIsMonotone ==
    ASSUME NEW c \in ComponentRec, NEW d \in ComponentRec,
           NEW r \in Confidences(c), NEW s \in Confidences(d), Dominates(c, d)
    PROVE  r >= s
<1>1. PICK e, p, t, h :
        /\ e \in 0..100 /\ p \in 0..100
        /\ e = c.evidence_strength /\ p = c.causal_proximity
        /\ t = c.temporal_correlation /\ h = c.historical_frequency
        /\ t # None => t \in 0..100
        /\ h # None => h \in 0..100
  BY SumsAre DEF Score
<1>2. PICK f, q, u, g :
        /\ f \in 0..100 /\ q \in 0..100
        /\ f = d.evidence_strength /\ q = d.causal_proximity
        /\ u = d.temporal_correlation /\ g = d.historical_frequency
        /\ u # None => u \in 0..100
        /\ g # None => g \in 0..100
  BY SumsAre DEF Score
<1>3. /\ DOMAIN c = {"evidence_strength", "causal_proximity",
                     "temporal_correlation", "historical_frequency"}
      /\ DOMAIN d = DOMAIN c /\ e # None /\ p # None /\ f # None /\ q # None
  BY <1>1, <1>2, SumsAre
<1>4. /\ "evidence_strength" \in Present(c) /\ "causal_proximity" \in Present(c)
      /\ "temporal_correlation" \in Present(c) <=> t # None
      /\ "historical_frequency" \in Present(c) <=> h # None
  BY <1>1, <1>3 DEF Present
<1>5. /\ "temporal_correlation" \in Present(d) <=> u # None
      /\ "historical_frequency" \in Present(d) <=> g # None
  BY <1>2, <1>3 DEF Present
<1>6. /\ t # None <=> u # None
      /\ h # None <=> g # None
  BY <1>4, <1>5 DEF Dominates
<1>7. /\ e >= f /\ p >= q
      /\ t # None => t >= u
      /\ h # None => h >= g
  BY <1>1, <1>2, <1>4 DEF Dominates
<1>8. e # f \/ p # q \/ t # u \/ h # g
  <2>1. SUFFICES ASSUME e = f, p = q, t = u, h = g
                 PROVE  c = d
    BY DEF Dominates
  <2>2. c = [evidence_strength |-> e, causal_proximity |-> p,
             temporal_correlation |-> t, historical_frequency |-> h]
    BY <1>1 DEF ComponentRec
  <2>3. d = [evidence_strength |-> f, causal_proximity |-> q,
             temporal_correlation |-> u, historical_frequency |-> g]
    BY <1>2 DEF ComponentRec
  <2> QED
    BY <2>1, <2>2, <2>3
<1>9. PICK W, S, V, T : /\ W = TotalWeight(c) /\ S = WeightedSum(c)
                        /\ V = TotalWeight(d) /\ T = WeightedSum(d)
  OBVIOUS
<1>10. /\ W = 6 + (IF t = None THEN 0 ELSE 2) + (IF h = None THEN 0 ELSE 2)
       /\ S = 4 * e + 2 * p + (IF t = None THEN 0 ELSE 2 * t) + (IF h = None THEN 0 ELSE 2 * h)
  BY <1>1, <1>9, SumsAre
<1>11. /\ V = 6 + (IF u = None THEN 0 ELSE 2) + (IF g = None THEN 0 ELSE 2)
       /\ T = 4 * f + 2 * q + (IF u = None THEN 0 ELSE 2 * u) + (IF g = None THEN 0 ELSE 2 * g)
  BY <1>2, <1>9, SumsAre
<1>12. r \in 0..100 /\ -W <= 2 * (r * W - S) /\ 2 * (r * W - S) <= W
  BY <1>9 DEF Confidences, Score
<1>13. s \in 0..100 /\ -V <= 2 * (s * V - T) /\ 2 * (s * V - T) <= V
  BY <1>9 DEF Confidences, Score
<1>14. PICK a \in {0, 2}, x \in Int :
         /\ a = 2 <=> t # None
         /\ t # None => x = t
         /\ a = (IF t = None THEN 0 ELSE 2)
         /\ a * x = (IF t = None THEN 0 ELSE 2 * t)
  BY <1>1, MissingCountsNothing
<1>15. PICK b \in {0, 2}, y \in Int :
         /\ b = 2 <=> h # None
         /\ h # None => y = h
         /\ b = (IF h = None THEN 0 ELSE 2)
         /\ b * y = (IF h = None THEN 0 ELSE 2 * h)
  BY <1>1, MissingCountsNothing
<1>16. PICK a2 \in {0, 2}, x2 \in Int :
         /\ a2 = 2 <=> u # None
         /\ u # None => x2 = u
         /\ a2 = (IF u = None THEN 0 ELSE 2)
         /\ a2 * x2 = (IF u = None THEN 0 ELSE 2 * u)
  BY <1>2, MissingCountsNothing
<1>17. PICK b2 \in {0, 2}, y2 \in Int :
         /\ b2 = 2 <=> g # None
         /\ g # None => y2 = g
         /\ b2 = (IF g = None THEN 0 ELSE 2)
         /\ b2 * y2 = (IF g = None THEN 0 ELSE 2 * g)
  BY <1>2, MissingCountsNothing
<1>18. a2 = a /\ b2 = b
  BY <1>6, <1>14, <1>15, <1>16, <1>17
<1>19. W = 6 + a + b /\ S = 4 * e + 2 * p + a * x + b * y
  BY <1>10, <1>14, <1>15
<1>20. V = W /\ T = 4 * f + 2 * q + a * x2 + b * y2
  BY <1>11, <1>16, <1>17, <1>18, <1>19
<1>21. /\ a = 2 => x >= x2
       /\ b = 2 => y >= y2
  BY <1>6, <1>7, <1>14, <1>15, <1>16, <1>17
<1>22. e # f \/ p # q \/ (a = 2 /\ x # x2) \/ (b = 2 /\ y # y2)
  BY <1>1, <1>2, <1>6, <1>8, <1>14, <1>15, <1>16, <1>17
<1>23. e \in Int /\ p \in Int /\ f \in Int /\ q \in Int /\ r \in Int /\ s \in Int
  BY <1>1, <1>2, <1>12, <1>13
<1>24. 2 * (r * W - S) >= -W /\ 2 * (s * W - T) <= W
  <2>1. PICK k \in Int, l \in Int : k = 2 * (r * W - S) /\ l = W
    BY <1>19, <1>23
  <2>2. k >= -l
    BY <1>12, <2>1
  <2> QED
    BY <1>13, <1>20, <2>1, <2>2
<1> QED
  BY <1>7, <1>19, <1>20, <1>21, <1>22, <1>23, <1>24, MeansInOrder

\* A ranking has each finding once, with a confidence that is not outside its
\* components, and what is ahead of another finding in all of them is not behind it
\* (rank_root_causes, "a weighted average over whichever components are present").
THEOREM RankingFair == Spec => []RankingIsFair
<1>1. ASSUME AreRanked(hypotheses)
      PROVE  RankingIsFair
  <2>1. PICK hs : hs = hypotheses /\ AreRanked(hs)
    BY <1>1
  <2>2. PICK n \in Nat : DOMAIN hs = 1..n
    <3>1. Len(hs) \in Nat /\ DOMAIN hs = 1..Len(hs)
      BY <2>1 DEF AreRanked
    <3> QED
      BY <3>1
  <2>3. ASSUME NEW p \in DOMAIN hs
        PROVE  /\ hs[p].finding \in Nat /\ hs[p].confidence \in Int
               /\ hs[p].components \in ComponentRec
               /\ hs[p].confidence \in Confidences(hs[p].components)
    <3>1. hs[p] \in Hypothesis
      BY <2>1 DEF AreRanked
    <3>2. \A x \in Score : x \in Int
      BY DEF Score
    <3> QED
      BY <2>1, <3>1, <3>2 DEF AreRanked, Hypothesis
  <2>4. ASSUME NEW p \in DOMAIN hs, NEW q \in DOMAIN hs, p < q
        PROVE  \/ hs[p].confidence > hs[q].confidence
               \/ hs[p].confidence = hs[q].confidence /\ hs[p].finding < hs[q].finding
    BY <2>1, <2>4 DEF AreRanked
  <2>5. ASSUME NEW p \in DOMAIN hs, NEW q \in DOMAIN hs, hs[p].finding = hs[q].finding
        PROVE  p = q
    BY <2>1, <2>5 DEF AreRanked
  <2>6. ASSUME NEW p \in DOMAIN hs
        PROVE  /\ \E m \in Present(hs[p].components) : hs[p].components[m] <= hs[p].confidence
               /\ \E m \in Present(hs[p].components) : hs[p].components[m] >= hs[p].confidence
    BY <2>3, MeanIsWithin
  <2>7. ASSUME NEW p \in DOMAIN hs, NEW q \in DOMAIN hs, p < q
        PROVE  /\ hs[p].confidence >= hs[q].confidence
               /\ Dominates(hs[q].components, hs[p].components) =>
                     hs[p].finding < hs[q].finding /\ hs[p].confidence = hs[q].confidence
    <3>1. \/ hs[p].confidence > hs[q].confidence
          \/ hs[p].confidence = hs[q].confidence /\ hs[p].finding < hs[q].finding
      BY <2>4, <2>7
    <3>2. Dominates(hs[q].components, hs[p].components) => hs[q].confidence >= hs[p].confidence
      BY <2>3, MeanIsMonotone
    <3>3. hs[p].confidence \in Int /\ hs[q].confidence \in Int
      BY <2>3
    <3> QED
      BY <3>1, <3>2, <3>3
  <2> QED
    BY <2>1, <2>5, <2>6, <2>7 DEF RankingIsFair
<1> QED
  BY <1>1, HypothesesStay, PTL
=============================================================================

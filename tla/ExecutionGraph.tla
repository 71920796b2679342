--------------------------- MODULE ExecutionGraph ---------------------------
(***************************************************************************)
(* graph/builder.py and the backward walk of graph/models.py.  build_graph *)
(* turns the spans of a stored trace into edges, one span after the other; *)
(* ancestors then walks the incoming edges.  Span ids are the primary key  *)
(* of the table the trace was read from; parent ids come from outside and  *)
(* may name no span of the trace, the span itself or one below it.         *)
(***************************************************************************)
EXTENDS Integers, Sequences, FiniteSets

CONSTANTS
    SpanIds, DocIds, TraceId,
    Times,       \* when spans end
    Traces,      \* the traces that are analysed, each the sequence of its spans
    None

Ids == SpanIds \cup DocIds \cup {TraceId}

SpanRec == [id: SpanIds, parent: SpanIds \cup {None},
            documents: Seq(DocIds), end: Times \cup {None}]

Edge == [source: SpanIds \cup {TraceId}, target: SpanIds \cup DocIds,
         relationship: {"PARENT", "RETRIEVES"}]

ASSUME TracesAssumption ==
    \A t \in Traces :
        /\ t \in Seq(SpanRec)
        /\ \A i, j \in DOMAIN t : t[i].id = t[j].id => i = j
ASSUME IdsAssumption ==
    /\ TraceId \notin SpanIds \cup DocIds /\ None \notin Ids \cup Times
    /\ SpanIds \cap DocIds = {}
    /\ IsFiniteSet(SpanIds) /\ IsFiniteSet(DocIds) /\ Times \subseteq Nat

VARIABLES
    trace,
    edges,     \* graph.edges
    built,     \* how many spans are in the graph
    walk       \* the walk of ancestors that is under way

graphVars == <<trace, edges, built, walk>>

GraphInit ==
    /\ trace \in Traces
    /\ edges = << >>
    /\ built = 0
    /\ walk  = None

-----------------------------------------------------------------------------
(* build_graph *)

InTrace(id) == \E i \in DOMAIN trace : trace[i].id = id

\* Mutant of ParentNode: only spans that are in the graph already count.
ParentBuilt(s) ==
    IF \E i \in 1..built : trace[i].id = s.parent THEN s.parent ELSE TraceId

ParentNode(s) == IF InTrace(s.parent) THEN s.parent ELSE TraceId

\* A document that a span retrieves twice gives two edges.
Extracted(s) ==
    [i \in 1..Len(s.documents) |->
        [source |-> s.id, target |-> s.documents[i], relationship |-> "RETRIEVES"]]

AddSpan ==
    /\ built < Len(trace)
    /\ LET s == trace[built + 1]
       IN  edges' = edges
             \o <<[source |-> ParentNode(s), target |-> s.id, relationship |-> "PARENT"]>>
             \o Extracted(s)
    /\ built' = built + 1
    /\ UNCHANGED <<trace, walk>>

Built == built = Len(trace)

Incoming(n) == {i \in DOMAIN edges : edges[i].target = n}

First(S) == CHOOSE i \in S : \A j \in S : i <= j

-----------------------------------------------------------------------------
(* ancestors *)

\* The nodes that are still to be looked at are taken from the end of the frontier.
Ancestors(n) ==
    /\ Built /\ walk = None
    /\ walk' = [node |-> n, seen |-> {}, result |-> << >>, frontier |-> <<n>>, left |-> {}]
    /\ UNCHANGED <<trace, edges, built>>

PopNode ==
    /\ walk # None /\ walk.left = {} /\ walk.frontier # << >>
    /\ LET top == Len(walk.frontier)
       IN  walk' = [walk EXCEPT !.left = Incoming(walk.frontier[top]),
                                !.frontier = SubSeq(@, 1, top - 1)]
    /\ UNCHANGED <<trace, edges, built>>

\* Mutant of Skipped: only the node that the walk began with is skipped.
SkippedStart(source) == source = walk.node

Skipped(source) == source \in walk.seen

FollowEdge ==
    /\ walk # None /\ walk.left # {}
    /\ LET i      == First(walk.left)
           source == edges[i].source
       IN  walk' = IF Skipped(source) THEN [walk EXCEPT !.left = @ \ {i}]
                   ELSE [walk EXCEPT !.left = @ \ {i},
                                     !.seen = @ \cup {source},
                                     !.result = Append(@, source),
                                     !.frontier = Append(@, source)]
    /\ UNCHANGED <<trace, edges, built>>

Listed == walk # None /\ walk.left = {} /\ walk.frontier = << >>

ReturnAncestors ==
    /\ Listed
    /\ walk' = None
    /\ UNCHANGED <<trace, edges, built>>

GraphNext ==
    \/ AddSpan
    \/ \E n \in Ids : Ancestors(n)
    \/ PopNode
    \/ FollowEdge
    \/ ReturnAncestors

-----------------------------------------------------------------------------
(* Properties *)

\* The bounds on the walk are those that make it end: no node is listed or put on the
\* frontier a second time (ExecutionGraph.ancestors).
Walk == [node: Ids, seen: SUBSET (SpanIds \cup {TraceId}),
         result: Seq(SpanIds \cup {TraceId}), frontier: Seq(Ids), left: SUBSET Nat]
GraphTypeOK ==
    /\ trace \in Traces
    /\ edges \in Seq(Edge)
    /\ built \in 0..Len(trace)
    /\ walk # None =>
         /\ walk \in Walk
         /\ walk.left \subseteq DOMAIN edges
         /\ Len(walk.result) <= Len(trace) + 1
         /\ Len(walk.frontier) <= Len(walk.result) + 1

\* What a trace says of its nodes, without a graph: the parent of a span, and the spans
\* that retrieved a document.
Origins(n) ==
    IF n \in DocIds
    THEN {trace[i].id : i \in {j \in DOMAIN trace :
            \E d \in DOMAIN trace[j].documents : trace[j].documents[d] = n}}
    ELSE {IF InTrace(trace[i].parent) THEN trace[i].parent ELSE TraceId :
            i \in {j \in DOMAIN trace : trace[j].id = n}}

Above(n, k) ==
    LET up[i \in 0..k] == IF i = 0 THEN {n} ELSE UNION {Origins(m) : m \in up[i - 1]}
    IN  up[k]

\* ancestors returns every node that the one asked for comes from, and each of them
\* once, whatever cycles the parent ids form ("Walk incoming edges transitively").
AncestorsAreExact ==
    Listed =>
        /\ {walk.result[i] : i \in DOMAIN walk.result} =
             UNION {Above(walk.node, k) : k \in 1..Len(trace) + 2}
        /\ \A i, j \in DOMAIN walk.result : walk.result[i] = walk.result[j] => i = j
=============================================================================

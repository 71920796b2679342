----------------------------- MODULE RootCause -----------------------------
(***************************************************************************)
(* rank_root_causes of rootcause/engine.py on an execution graph: for each *)
(* finding the walk up from the final node to the node of the finding, the *)
(* confidence from the components that are present, and the sort.  Scores  *)
(* are in hundredths, to which the code rounds them.                       *)
(***************************************************************************)
EXTENDS ExecutionGraph

CONSTANT FindingLists     \* what the rules and the comparison with a baseline report

Score == 0..100

\* changed: reported by compare_to_baseline; frequency: of the rule in the history.
Finding == [node: SpanIds \cup {TraceId}, strength: Score,
            changed: BOOLEAN, frequency: Score \cup {None}]

ASSUME FindingsAssumption ==
    FindingLists \subseteq Seq(Finding) /\ << >> \notin FindingLists /\ None \notin Score

VARIABLES ranking, hypotheses

vars == <<graphVars, ranking, hypotheses>>

Init ==
    /\ GraphInit
    /\ ranking    = None
    /\ hypotheses = << >>

-----------------------------------------------------------------------------
(* _final_node_id and _causal_proximity *)

\* The first of the spans that end last.
FinalNode ==
    LET completed == {i \in DOMAIN trace : trace[i].end # None}
        latest    == {i \in completed : \A j \in completed : trace[i].end >= trace[j].end}
    IN  IF completed = {} THEN TraceId ELSE trace[First(latest)].id

Parents(n) == {i \in Incoming(n) : edges[i].relationship = "PARENT"}

OffPathProximity == 30

\* round(1 / (1 + hops), 2): to the nearest, and 1/8, the one tie that is a float, to the
\* even hundredth.
Closeness(hops) == IF hops = 7 THEN 12 ELSE (200 + 1 + hops) \div (2 * (1 + hops))

-----------------------------------------------------------------------------
(* _combine_confidence *)

Components(f, proximity) ==
    [evidence_strength    |-> f.strength,
     causal_proximity     |-> proximity,
     temporal_correlation |-> IF f.changed THEN 100 ELSE None,
     historical_frequency |-> f.frequency]

\* In tenths.
Weights == [evidence_strength |-> 4, causal_proximity |-> 2,
            temporal_correlation |-> 2, historical_frequency |-> 2]

Weight(c, name) == IF c[name] = None THEN 0 ELSE Weights[name]
Part(c, name)   == IF c[name] = None THEN 0 ELSE Weights[name] * c[name]

\* Mutant of TotalWeight: no renormalisation over the components that are present.
FullWeight(c) == 10

TotalWeight(c) == Weight(c, "evidence_strength") + Weight(c, "causal_proximity")
                  + Weight(c, "temporal_correlation") + Weight(c, "historical_frequency")
WeightedSum(c) == Part(c, "evidence_strength") + Part(c, "causal_proximity")
                  + Part(c, "temporal_correlation") + Part(c, "historical_frequency")

\* The mean of the components, rounded; a half may be rounded either way, as floats do.
Confidences(c) ==
    {r \in Score : LET off == 2 * (r * TotalWeight(c) - WeightedSum(c))
                   IN  -TotalWeight(c) <= off /\ off <= TotalWeight(c)}

-----------------------------------------------------------------------------
(* rank_root_causes *)

\* The nodes of findings are those of the graph (affected_nodes).
Rank(fs) ==
    /\ Built /\ ranking = None /\ walk = None
    /\ \A i \in DOMAIN fs : InTrace(fs[i].node) \/ fs[i].node = TraceId
    /\ ranking' = [findings |-> fs, current |-> FinalNode, hops |-> 0, visited |-> {},
                   components |-> << >>, confidences |-> << >>]
    /\ hypotheses' = << >>
    /\ UNCHANGED graphVars

Ranking == ranking # None /\ Len(ranking.confidences) < Len(ranking.findings)
Current == ranking.findings[Len(ranking.confidences) + 1]

\* The finding gets its confidence; the walk for the next one begins again.
Conclude(proximity) ==
    LET c == Components(Current, proximity)
    IN  /\ \E r \in Confidences(c) :
             ranking' = [ranking EXCEPT
               !.components = Append(@, c), !.confidences = Append(@, r),
               !.current = FinalNode, !.hops = 0, !.visited = {}]
        /\ UNCHANGED <<graphVars, hypotheses>>

OnPath ==
    /\ Ranking
    /\ ranking.current = Current.node
    /\ Conclude(Closeness(ranking.hops))

\* Mutant of Visited: only the node that the walk began with is remembered.
BackAtStart == ranking.hops > 0 /\ ranking.current = FinalNode

Visited == ranking.current \in ranking.visited

OffPath ==
    /\ Ranking
    /\ ranking.current # Current.node
    /\ Visited \/ Parents(ranking.current) = {}
    /\ Conclude(OffPathProximity)

\* One round of the loop; the node that the walk began with is not marked.
Climb ==
    /\ Ranking
    /\ ranking.current # Current.node
    /\ ~Visited /\ Parents(ranking.current) # {}
    /\ ranking' = [ranking EXCEPT
         !.current = edges[First(Parents(ranking.current))].source,
         !.hops    = @ + 1,
         !.visited = IF ranking.hops = 0 THEN @ ELSE @ \cup {ranking.current}]
    /\ UNCHANGED <<graphVars, hypotheses>>

\* Descending and stable.
Before(i, j) ==
    LET c == ranking.confidences IN c[i] > c[j] \/ (c[i] = c[j] /\ i < j)

Place(i) == 1 + Cardinality({j \in DOMAIN ranking.confidences : Before(j, i)})

Sort ==
    /\ ranking # None /\ ~Ranking
    /\ hypotheses' = [p \in 1..Len(ranking.findings) |->
         LET i == CHOOSE j \in DOMAIN ranking.findings : Place(j) = p
         IN  [finding    |-> i,
              components |-> ranking.components[i],
              confidence |-> ranking.confidences[i],
              label      |-> IF p = 1 THEN "likely_cause" ELSE "contributing_factor"]]
    /\ ranking' = None
    /\ UNCHANGED graphVars

Next ==
    \/ GraphNext /\ ranking = None /\ UNCHANGED <<ranking, hypotheses>>
    \/ \E fs \in FindingLists : Rank(fs)
    \/ OnPath
    \/ OffPath
    \/ Climb
    \/ Sort

Spec == Init /\ [][Next]_vars

-----------------------------------------------------------------------------
(* Properties *)

ComponentRec == [evidence_strength: Score, causal_proximity: Score,
                 temporal_correlation: Score \cup {None}, historical_frequency: Score \cup {None}]

RankingRec == [findings: FindingLists, current: SpanIds \cup {TraceId}, hops: Nat,
               visited: SUBSET (SpanIds \cup {TraceId}),
               components: Seq(ComponentRec), confidences: Seq(Score)]

\* The bound on hops is what makes the walk end (_hops_to_ancestor).
TypeOK ==
    /\ GraphTypeOK
    /\ ranking # None =>
         /\ ranking \in RankingRec
         /\ Len(ranking.components) = Len(ranking.confidences)
         /\ Len(ranking.confidences) <= Len(ranking.findings)
         /\ ranking.hops <= Len(trace) + 2
    /\ hypotheses \in Seq([finding: Nat, components: ComponentRec, confidence: Score,
                           label: {"likely_cause", "contributing_factor"}])

\* The proximity of a finding counts the hops from the final node to the finding's node
\* as the parents of the trace have it, by the shortest way, and a node that is not an
\* ancestor of it is off the path, whatever cycles the parents form (_causal_proximity).
ProximityOf(node) ==
    LET distances == {k \in 0..Len(trace) + 1 : node \in Above(FinalNode, k)}
    IN  IF distances = {} THEN OffPathProximity ELSE Closeness(First(distances))
ProximityIsExact ==
    ranking # None => \A k \in DOMAIN ranking.components :
        ranking.components[k].causal_proximity = ProximityOf(ranking.findings[k].node)

Present(c) == {n \in DOMAIN c : c[n] # None}

\* c is above d in what both of them consist of.
Dominates(c, d) ==
    /\ Present(c) = Present(d) /\ c # d
    /\ \A n \in Present(c) : c[n] >= d[n]

\* A ranking has each finding once; no confidence is below or above all the components
\* that it is made of; and a finding that is ahead of another one in the same
\* components is not behind it (rank_root_causes, "a weighted average over whichever
\* components are present").
RankingIsFair ==
    /\ \A p, q \in DOMAIN hypotheses : hypotheses[p].finding = hypotheses[q].finding => p = q
    /\ \A p \in DOMAIN hypotheses :
         LET h == hypotheses[p]
         IN  /\ \E n \in Present(h.components) : h.components[n] <= h.confidence
             /\ \E n \in Present(h.components) : h.components[n] >= h.confidence
    /\ \A p, q \in DOMAIN hypotheses : p < q =>
         LET h == hypotheses[p]  g == hypotheses[q]
         IN  /\ h.confidence >= g.confidence
             /\ Dominates(g.components, h.components) =>
                  h.finding < g.finding /\ h.confidence = g.confidence
=============================================================================

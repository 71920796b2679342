---------------------------- MODULE MCRootCause ----------------------------
(* Three spans with any parents, in several orders of their ends, the first *)
(* two of which retrieve a document, one of them twice, and an empty trace; *)
(* findings of spans and of the trace, of rules with a history and without. *)
EXTENDS RootCause, TLC

CONSTANTS s1, s2, s3, gone, d1

MCSpan(id, parent, documents, end) ==
    [id |-> id, parent |-> parent, documents |-> documents, end |-> end]

MCTraces ==
    {<< >>} \cup
    {<<MCSpan(s1, p[1], <<d1, d1>>, e[1]), MCSpan(s2, p[2], <<d1>>, e[2]), MCSpan(s3, p[3], << >>, None)>> :
        p \in [1..3 -> {s1, s2, s3, gone, None}], e \in {<<1, 1>>, <<1, 2>>, <<None, None>>}}

MCFinding(node, strength, changed, frequency) ==
    [node |-> node, strength |-> strength, changed |-> changed, frequency |-> frequency]

MCFindingLists == {
    <<MCFinding(TraceId, 100, TRUE, None)>>,
    <<MCFinding(s2, 95, FALSE, 5), MCFinding(s3, 100, FALSE, 5), MCFinding(s1, 100, FALSE, None),
      MCFinding(TraceId, 100, TRUE, None)>>,
    <<MCFinding(s3, 83, FALSE, None), MCFinding(s3, 100, FALSE, None), MCFinding(s2, 100, FALSE, 50)>>}
=============================================================================

------------------------------ MODULE MCReplay ------------------------------
(* A failed tool call and a retrieval under it, each saved again with other *)
(* attributes, the tool call with a parent that is missing.                *)
EXTENDS Replay, TLC

CONSTANTS t1, gone, a, b

Of(name, parent, type, failed, documents, safety) ==
    [name |-> name, parent |-> parent, type |-> type, failed |-> failed,
     documents |-> documents, safety |-> safety]

Tool(parent, safety) == Of("tool", parent, "TOOL", TRUE, "absent", safety)
Retrieval(documents) == Of("docs", a, "RETRIEVAL", FALSE, documents, "undeclared")

MCCaptures == {
    [trace |-> t1, spans |-> a :> Tool(None, "undeclared") @@ b :> Retrieval("stale")],
    [trace |-> t1, spans |-> b :> Retrieval("mixed")],
    [trace |-> t1, spans |-> a :> Tool(gone, "READ_ONLY")]}

To(documents, safety) == [documents |-> documents, safety |-> safety]

MCAsked == {
    "tool" :> NoOverride @@ "docs" :> To("fresh", None),
    "tool" :> NoOverride @@ "docs" :> To("mixed", None),
    "tool" :> NoOverride @@ "docs" :> To(None, "WRITE"),
    "tool" :> To(None, "READ_ONLY") @@ "docs" :> To("duplicate", None),
    "tool" :> To("fresh", None) @@ "docs" :> NoOverride}

Fresh == Permutations(MintedTraces) \cup Permutations(MintedSpans)
=============================================================================

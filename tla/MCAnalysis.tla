----------------------------- MODULE MCAnalysis -----------------------------
(* Three executions of one workflow, the middle one saved again as a failure *)
(* with another model, and once with dates that the rules raise on, and one  *)
(* that is saved as another workflow's and as theirs, then with a model that *)
(* is not named by a string.  They call models of their own, one of them a   *)
(* tool.  Two test cases need a trace with several kinds of assertion and a  *)
(* trace that may be missing.                                                *)
EXTENDS Analysis

CONSTANTS t1, t2, t3, t4, flow, other, stale, retrieval, answer, lookup, yes, no, odd

MCCategory == stale :> retrieval

Llm(model, tokens, output) ==
    [name |-> answer, type |-> "LLM", model |-> model, prompt_version |-> None,
     retriever |-> None, input_tokens |-> tokens, output_tokens |-> None,
     output |-> output]

Tool == [Llm(None, None, <<no>>) EXCEPT !.name = lookup, !.type = "TOOL"]

Execution(t, start, end, ok, name, fires, spans) ==
    [trace |-> t, row |-> [start |-> start, end |-> end, ok |-> ok, name |-> name,
                           fires |-> fires, spans |-> spans]]

MCDocs == {
    Execution(t1, 1, 3, TRUE, flow, {}, <<Llm("small", 1, <<yes>>)>>),
    Execution(t2, 2, 5, TRUE, flow, {stale}, <<Llm("small", 2, <<yes, no>>)>>),
    Execution(t2, 4, 8, FALSE, flow, {stale}, <<Tool, Llm("large", 2, None)>>),
    Execution(t2, 2, 6, FALSE, flow, Raises, <<Llm("large", 2, None)>>),
    Execution(t3, 3, 7, FALSE, flow, {stale}, <<Llm("small", 1, <<no>>)>>),
    Execution(t3, 3, 7, TRUE, flow, {}, <<Tool, Llm("small", 1, <<yes>>)>>),
    Execution(t4, 2, None, TRUE, other, {stale}, << >>),
    Execution(t4, 2, None, TRUE, flow, {}, <<Llm(odd, None, None)>>)}

Case(t, assertions) == [trace |-> t, assertions |-> assertions]

MCCases == <<
    Case(t2, {[type |-> "STATUS_OK"], [type |-> "OUTPUT_CONTAINS", target |-> <<no>>],
              [type |-> "NO_TOOL_CALLED", target |-> lookup]}),
    Case(t3, {[type |-> "NO_FINDING", target |-> retrieval],
              [type |-> "SPAN_EXISTS", target |-> lookup]})>>
=============================================================================

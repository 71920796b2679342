----------------------------- MODULE Executions -----------------------------
(***************************************************************************)
(* A stored execution as analysis reads it (get_trace), with the signature *)
(* of baseline/signature.py and the assertions of evaluation/engine.py:    *)
(* what the code concludes from one trace alone.                           *)
(***************************************************************************)
EXTENDS Integers, SequencesExt

CONSTANTS
    Workflows,   \* names of traces
    Times,       \* start and end times
    Rules,       \* rule ids of the rule engine
    Category,    \* their categories
    Raises,      \* stands for the findings of a trace that a rule raises on
    Names,       \* names of spans
    Values,      \* values of the attributes model, prompt_version and retriever
    Texts,       \* those of them that are strings
    Words,       \* what outputs are made of
    None

SpanTypes == {"LLM", "RETRIEVAL", "TOOL", "MCP", "OTHER"}

Span == [name: Names, type: SpanTypes, model: Values \cup {None},
         prompt_version: Values \cup {None}, retriever: Values \cup {None},
         input_tokens: Nat \cup {None}, output_tokens: Nat \cup {None},
         output: Seq(Words) \cup {None}]

\* The spans are in the order of their starts.
Row == [start: Times, end: Times \cup {None}, ok: BOOLEAN, name: Workflows,
        fires: (SUBSET Rules) \cup {Raises}, spans: Seq(Span)]

-----------------------------------------------------------------------------
(* extract_signature *)

Calls(row) == SelectSeq(row.spans, LAMBDA s : s.type \in {"TOOL", "MCP"})

Given(row, type, field) ==
    SelectSeq(row.spans, LAMBDA s : s.type = type /\ s[field] # None)

\* The last span of a type that has an attribute gives its value (none is set to null).
LastGiven(row, type, field) ==
    LET given == Given(row, type, field)
    IN  IF given = << >> THEN None ELSE Last(given)[field]

Tokens(row, field) ==
    FoldLeft(LAMBDA sum, s : sum + s[field], 0, Given(row, "LLM", field))

TotalTokens(row) ==
    IF Given(row, "LLM", "input_tokens") \o Given(row, "LLM", "output_tokens") = << >>
    THEN None
    ELSE Tokens(row, "input_tokens") + Tokens(row, "output_tokens")

\* The fields of a signature, by how they are compared.
ChangeFields  == {"model", "prompt_version", "retriever"}
ListFields    == {"tools", "execution_path"}
MeasureFields == {"latency_ms", "total_tokens"}

Signature(row) ==
    [model          |-> LastGiven(row, "LLM", "model"),
     prompt_version |-> LastGiven(row, "LLM", "prompt_version"),
     retriever      |-> LastGiven(row, "RETRIEVAL", "retriever"),
     tools          |-> [i \in 1..Len(Calls(row)) |-> Calls(row)[i].name],
     execution_path |-> [i \in 1..Len(row.spans) |-> row.spans[i].type],
     latency_ms     |-> IF row.end = None THEN None ELSE row.end - row.start,
     total_tokens   |-> TotalTokens(row)]

\* The three attributes may hold anything; ExecutionSignature accepts strings and None.
HasSignature(row) == \A f \in ChangeFields : Signature(row)[f] \in Texts \cup {None}

-----------------------------------------------------------------------------
(* evaluate *)

Assertion ==
    [type: {"STATUS_OK"}]
    \cup [type: {"OUTPUT_CONTAINS"}, target: Seq(Words) \cup {None}]
    \cup [type: {"NO_FINDING"}, target: Rules \cup Range(Category) \cup {None}]
    \cup [type: {"SPAN_EXISTS", "NO_TOOL_CALLED"}, target: Names \cup {None}]

\* The outputs are joined with spaces, which is how words follow each other.
Haystack(row) ==
    FlattenSeq([i \in 1..Len(row.spans) |->
        IF row.spans[i].output = None THEN << >> ELSE row.spans[i].output])

Mentions(text, target) ==
    \E i \in 0..(Len(text) - Len(target)) :
        SubSeq(text, i + 1, i + Len(target)) = target

Check(a, row) ==
    CASE a.type = "STATUS_OK"       -> row.ok
      [] a.type = "OUTPUT_CONTAINS" -> a.target # None /\ Mentions(Haystack(row), a.target)
      [] a.type = "NO_FINDING"      -> \A r \in row.fires : a.target \notin {r, Category[r]}
      [] a.type = "SPAN_EXISTS"     -> \E s \in Range(row.spans) : s.name = a.target
      [] a.type = "NO_TOOL_CALLED"  -> \A s \in Range(Calls(row)) : s.name # a.target

Evaluate(row, case) == \A a \in case.assertions : Check(a, row)
=============================================================================

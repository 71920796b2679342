---------------------------- MODULE MCTraceStore ----------------------------
(* Two traces that share span ids, saved again and across each other. *)
EXTENDS TraceStore

CONSTANTS t1, t2, s1, s2, OK, ERROR

Span(s, t, start, content) == [span |-> s, trace |-> t, start |-> start, content |-> content]

MCDocs == {
    [trace |-> t1, start |-> 2, content |-> OK,
     spans |-> <<Span(s1, t1, 2, OK), Span(s2, t1, 2, OK)>>],
    \* the first trace again: another start, one span only, and that twice
    [trace |-> t1, start |-> 1, content |-> ERROR,
     spans |-> <<Span(s2, t1, 1, ERROR), Span(s2, t1, 2, OK)>>],
    \* another trace with a span id of the first, and a span that says it belongs to
    \* the first
    [trace |-> t2, start |-> 1, content |-> OK,
     spans |-> <<Span(s1, t2, 1, OK), Span(s2, t1, 2, ERROR)>>]}

MCFilters == {{OK}, {OK, ERROR}}
=============================================================================

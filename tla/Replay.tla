------------------------------- MODULE Replay -------------------------------
(***************************************************************************)
(* replay/engine.py, replay/safety.py and the handlers that call them: a   *)
(* replay clones a stored trace under fresh ids, overrides attributes of   *)
(* its spans, runs the rules on both and saves the clone, which can be     *)
(* replayed again.  An override of a span that is not READ_ONLY needs the  *)
(* caller's confirmation.  Handlers run in a thread pool, so the trace may *)
(* be saved again, by its exporter, between a replay's get and its save.   *)
(* Overrides are asked for by span name, as the command line and the web   *)
(* page do; get_trace and save_trace are one step each (TraceStore has     *)
(* their statements).                                                      *)
(***************************************************************************)
EXTENDS Integers, FiniteSets

CONSTANTS
    TraceIds, SpanIds,
    MintedTraces, MintedSpans,   \* the ids that uuid4 makes for replays
    Names,           \* span names
    Captures,        \* the documents that exporters save
    Asked,           \* the overrides that are asked for, by span name
    Handlers,
    None

\* The attribute "documents" of a span by what the rules see in it.  "mixed" is one that a
\* rule raises on: dates with and without a time zone, which cannot be compared, ids that
\* cannot be counted, as they are no hashable values, or repeated ids of several types,
\* which cannot be sorted.
Documents == {"absent", "fresh", "stale", "duplicate", "empty", "mixed"}
Safeties  == {"READ_ONLY", "WRITE", "DESTRUCTIVE", "UNKNOWN"}
\* The attribute "safety": one of the levels, in any case, or anything else.
Declared  == Safeties \cup {"undeclared"}
ReadOnlyTypes == {"RETRIEVAL", "EMBEDDING", "RERANKING", "LLM", "PROMPT"}
SpanTypes == ReadOnlyTypes \cup {"AGENT", "TOOL", "MCP", "API", "DATABASE", "VECTOR_DB",
                                 "MEMORY", "GUARDRAIL", "EVALUATION", "CUSTOM"}

Content == [name: Names, parent: SpanIds \cup {None}, type: SpanTypes,
            failed: BOOLEAN, documents: Documents, safety: Declared]
SpanRow == [trace: TraceIds, content: Content]
\* A trace as get_trace returns it: the contents of its spans by id.
IsRead(read) ==
    /\ DOMAIN read \subseteq SpanIds
    /\ read \in [DOMAIN read -> Content]

\* A dict of attributes to update, as far as the code looks at them.
Override   == [documents: Documents \cup {None}, safety: Declared \cup {None}]
NoOverride == [documents |-> None, safety |-> None]

ASSUME MintedAssumption == MintedTraces \subseteq TraceIds /\ MintedSpans \subseteq SpanIds
\* uuid4 makes no id that an exporter uses, for a span or as a parent.
ASSUME CapturesAssumption ==
    \A d \in Captures :
        /\ d.trace \in TraceIds \ MintedTraces
        /\ IsRead(d.spans)
        /\ DOMAIN d.spans \cap MintedSpans = {}
        /\ \A x \in DOMAIN d.spans : d.spans[x].parent \notin MintedSpans
ASSUME AskedAssumption == Asked \subseteq [Names -> Override]
ASSUME NoneAssumption ==
    /\ None \notin Documents \cup Declared
    /\ None \notin SpanRow \cup Content \cup SpanIds

VARIABLES
    stored,          \* the keys of the table of traces
    spans,           \* the table of spans
    request,         \* per handler: the replay it is in, with the trace it read
    answer,          \* per handler: what its last replay returned
    captured,        \* history: of a replay's span, the content its chain began with
    confirmed        \* history: the replays with an allow_unsafe in their chain

vars == <<stored, spans, request, answer, captured, confirmed>>

Init ==
    /\ stored    = {}
    /\ spans     = [s \in SpanIds |-> None]
    /\ request   = [h \in Handlers |-> None]
    /\ answer    = [h \in Handlers |-> None]
    /\ captured  = [s \in SpanIds |-> None]
    /\ confirmed = {}

-----------------------------------------------------------------------------
(* Safety levels and overrides *)

\* classify_span_safety
SpanSafety(c) ==
    IF c.safety # "undeclared" THEN c.safety
    ELSE IF c.type \in ReadOnlyTypes THEN "READ_ONLY" ELSE "UNKNOWN"

\* Mutant of Updated: each value goes under the other key.
UpdatedSwapped(c, o) ==
    [c EXCEPT !.documents = IF o.safety = None THEN @ ELSE o.safety,
              !.safety    = IF o.documents = None THEN @ ELSE o.documents]

Updated(c, o) ==
    [c EXCEPT !.documents = IF o.documents = None THEN @ ELSE o.documents,
              !.safety    = IF o.safety = None THEN @ ELSE o.safety]

\* Mutant of UnsafeSteps: the safety that the overridden span has.
UnsafeAfterwards(read, asked) ==
    {s \in DOMAIN read : LET o == asked[read[s].name]
                         IN  o # NoOverride /\ SpanSafety(Updated(read[s], o)) # "READ_ONLY"}

\* ReplayPlan.unsafe_steps
UnsafeSteps(read, asked) ==
    {s \in DOMAIN read : /\ asked[read[s].name] # NoOverride
                         /\ SpanSafety(read[s]) # "READ_ONLY"}

NeedsConfirmation(read, asked) == UnsafeSteps(read, asked) # {}

\* Mutant of CloneParent: the clone keeps the parent's old id.
OldParent(read, idMap, p) == p

CloneParent(read, idMap, p) == IF p \in DOMAIN read THEN idMap[p] ELSE p

\* Mutant of IdMaps: the spans keep their ids.
SameIds(read) == {[x \in DOMAIN read |-> x]}

\* Fresh ids for the spans of a trace.
IdMaps(read) ==
    {f \in [DOMAIN read -> {s \in MintedSpans : spans[s] = None}] :
        \A x, y \in DOMAIN read : f[x] = f[y] => x = y}

OriginalOf(read, idMap, s) == CHOOSE x \in DOMAIN read : idMap[x] = s

\* apply_overrides
Clone(read, asked, idMap) ==
    [s \in {idMap[x] : x \in DOMAIN read} |->
        LET c == read[OriginalOf(read, idMap, s)]
        IN  Updated([c EXCEPT !.parent = CloneParent(read, idMap, @)], asked[c.name])]

-----------------------------------------------------------------------------
(* The rules, by what they make of a trace *)

DocumentRules == {"empty_retrieval", "stale_retrieval_documents",
                  "duplicate_retrieved_documents"}
RuleIds       == DocumentRules \cup {"tool_failure", "dangling_parent_span"}

\* Of a retrieval, the rules see what documents it returned.
Retrieved(read, documents) ==
    \E s \in DOMAIN read : read[s].type = "RETRIEVAL" /\ read[s].documents = documents

EmptyRetrieval(read)              == Retrieved(read, "empty")
StaleRetrievalDocuments(read)     == Retrieved(read, "stale")
DuplicateRetrievedDocuments(read) == Retrieved(read, "duplicate")
ToolFailure(read) ==
    \E s \in DOMAIN read : read[s].type \in {"TOOL", "MCP"} /\ read[s].failed
DanglingParentSpan(read) ==
    \E s \in DOMAIN read : read[s].parent \notin DOMAIN read \cup {None}

\* run_rules, as the rule ids of its findings.
RulesFired(read) ==
    {r \in RuleIds :
        \/ r = "empty_retrieval" /\ EmptyRetrieval(read)
        \/ r = "stale_retrieval_documents" /\ StaleRetrievalDocuments(read)
        \/ r = "duplicate_retrieved_documents" /\ DuplicateRetrievedDocuments(read)
        \/ r = "tool_failure" /\ ToolFailure(read)
        \/ r = "dangling_parent_span" /\ DanglingParentSpan(read)}

\* The TypeErrors of the two rules that compare dates, and count and sort ids.
RulesRaise(read) == Retrieved(read, "mixed")

\* Mutant of RulesPass: the clone is saved before the rules see it.
RulesPassBefore(before, after) == ~ RulesRaise(before)

RulesPass(before, after) == ~ RulesRaise(before) /\ ~ RulesRaise(after)

-----------------------------------------------------------------------------

\* save_trace of a document without repeated span ids (TraceStore has the rest): the
\* owner of a span stays.
Save(t, read) ==
    /\ stored' = stored \cup {t}
    /\ spans'  = [s \in SpanIds |->
                    IF s \notin DOMAIN read THEN spans[s]
                    ELSE [trace   |-> IF spans[s] = None THEN t ELSE spans[s].trace,
                          content |-> read[s]]]

\* get_trace
SpansOf(t)   == {s \in SpanIds : spans[s] # None /\ spans[s].trace = t}
ReadTrace(t) == [s \in SpansOf(t) |-> spans[s].content]

\* An exporter saves a trace, for the first time or again.
Capture(d) ==
    /\ Save(d.trace, d.spans)
    /\ UNCHANGED <<request, answer, captured, confirmed>>

\* The handler has read the trace.
Fetch(h, t, asked, allowUnsafe) ==
    /\ request[h] = None
    /\ t \in stored
    /\ request' = [request EXCEPT ![h] = [trace |-> t, read |-> ReadTrace(t),
                                          asked |-> asked, allowUnsafe |-> allowUnsafe]]
    /\ answer' = [answer EXCEPT ![h] = None]
    /\ UNCHANGED <<stored, spans, captured, confirmed>>

Permitted(q) == q.allowUnsafe \/ ~ NeedsConfirmation(q.read, q.asked)

\* UnsafeReplayError, or the TypeError of a rule: nothing is saved.
Abandon(h) ==
    /\ request[h] # None
    /\ LET q == request[h]
           clone == Clone(q.read, q.asked, [x \in DOMAIN q.read |-> x])
       IN  ~ Permitted(q) \/ ~ RulesPass(q.read, clone)
    /\ request' = [request EXCEPT ![h] = None]
    /\ UNCHANGED <<stored, spans, answer, captured, confirmed>>

\* The clone is saved and the two sets of findings are compared.
SaveClone(h) ==
    /\ request[h] # None
    /\ Permitted(request[h])
    /\ \E t \in MintedTraces \ stored, idMap \in IdMaps(request[h].read) :
         LET q     == request[h]
             clone == Clone(q.read, q.asked, idMap)
         IN  /\ RulesPass(q.read, clone)
             /\ Save(t, clone)
             /\ answer' = [answer EXCEPT ![h] =
                  [resolved |-> RulesFired(q.read) \ RulesFired(clone),
                   new      |-> RulesFired(clone) \ RulesFired(q.read),
                   edited   |-> \E x \in DOMAIN q.read :
                                    /\ q.read[x].type = "RETRIEVAL"
                                    /\ q.asked[q.read[x].name].documents # None]]
             /\ captured' = [s \in SpanIds |->
                  IF s \notin DOMAIN clone THEN captured[s]
                  ELSE LET x == OriginalOf(q.read, idMap, s)
                       IN  IF captured[x] = None THEN q.read[x] ELSE captured[x]]
             /\ confirmed' = IF q.allowUnsafe \/ q.trace \in confirmed
                             THEN confirmed \cup {t} ELSE confirmed
    /\ request' = [request EXCEPT ![h] = None]

Next ==
    \/ \E d \in Captures : Capture(d)
    \/ \E h \in Handlers :
        \/ \E t \in TraceIds, asked \in Asked, allowUnsafe \in BOOLEAN :
               Fetch(h, t, asked, allowUnsafe)
        \/ Abandon(h)
        \/ SaveClone(h)

Spec == Init /\ [][Next]_vars

-----------------------------------------------------------------------------
(* Properties *)

IsRequest(q) ==
    /\ q = [trace |-> q.trace, read |-> q.read, asked |-> q.asked, allowUnsafe |-> q.allowUnsafe]
    /\ q.trace \in TraceIds
    /\ IsRead(q.read)
    /\ q.asked \in Asked
    /\ q.allowUnsafe \in BOOLEAN
Answer == [resolved: SUBSET RuleIds, new: SUBSET RuleIds, edited: BOOLEAN]

TypeOK ==
    /\ stored \subseteq TraceIds
    /\ spans \in [SpanIds -> SpanRow \cup {None}]
    /\ \A s \in SpanIds : spans[s] # None => spans[s].trace \in stored
    /\ DOMAIN request = Handlers
    /\ \A h \in Handlers : request[h] # None => IsRequest(request[h])
    /\ answer \in [Handlers -> Answer \cup {None}]
    /\ captured \in [SpanIds -> Content \cup {None}]
    /\ confirmed \subseteq TraceIds

\* However many replays of replays are made, without a confirmation none of them
\* shows a span that was captured as anything but READ_ONLY with other attributes
\* than it was captured with: no chain of permitted overrides makes a span safe
\* first and edits it then (run_replay, classify_span_safety).
UnconfirmedKeepsUnsafe ==
    \A s \in SpanIds : spans[s] # None /\ spans[s].trace \in MintedTraces \ confirmed =>
        /\ captured[s] # None
        /\ SpanSafety(captured[s]) # "READ_ONLY" =>
             /\ spans[s].content.documents = captured[s].documents
             /\ spans[s].content.safety = captured[s].safety

\* A replay that is stored can be analysed and replayed: the rules that raise on a
\* trace have raised before it was saved (run_replay).
ReplaysAreAnalysable == \A t \in MintedTraces \cap stored : ~ RulesRaise(ReadTrace(t))

\* A finding is reported as resolved or new only when documents were overridden,
\* and then only one about documents: a clone brings no finding of its own, not
\* even through its new ids (apply_overrides, run_replay).
OnlyOverridesResolve ==
    \A h \in Handlers : answer[h] # None =>
        answer[h].resolved \cup answer[h].new
            \subseteq (IF answer[h].edited THEN DocumentRules ELSE {})

\* Replays only add: a row that is there changes by an exporter's save alone, and
\* the rows of a replay never.
AddsOnly ==
    \A s \in SpanIds : spans[s] # None /\ spans'[s] # spans[s] =>
        s \notin MintedSpans /\ UNCHANGED request
ReplaysAddOnly == [][AddsOnly]_vars
=============================================================================

----------------------------- MODULE SdkTracing -----------------------------
(***************************************************************************)
(* sdk/client.py and sdk/exporter.py: how spans find their trace and their *)
(* parent through two ContextVars, and what reaches the exporter, while    *)
(* the host program runs several call stacks.                              *)
(*                                                                         *)
(* A strand is one Python call stack: a thread, an asyncio task or a       *)
(* generator.  It has a stack of open `with` blocks, which it leaves in    *)
(* LIFO order, and runs in a contextvars.Context: its own, named by the    *)
(* strand, or for a generator the context of whoever resumes it.  It runs  *)
(* on an OS thread; the SDK neither awaits nor yields, so that only a      *)
(* strand on another thread comes between two steps of a call of the SDK.  *)
(* A TraceContext makes a new Trace each time it is entered;               *)
(* `hound.trace()` and the decorator make a new TraceContext, which the    *)
(* host may keep.                                                          *)
(***************************************************************************)
EXTENDS Integers, Sequences

CONSTANTS
    Contexts,   \* TraceContext objects
    Traces, Spans, Strands,
    Root,       \* the strand that runs from the start
    Usage,      \* which of Usages the host program makes of the SDK
    MaxDepth,   \* bound on the open blocks of a strand
    MaxListed,  \* bound on the spans a trace has listed when a kept one is entered
    None

\* nested:    a trace is entered while a span of another trace is current
\* captured:  a span is opened or failed through a reference kept to its trace or
\*            to it, not through the current trace
\* detached:  a trace exits before the strands started under it are over
\* reuse:     a TraceContext is entered again after its exit
\* kept:      a SpanContext is entered some time after it was made, or again
\* endpoint:  some traces are exported by an AgentHound with an endpoint
\* thread, worker, task, generator: kinds of strand the host starts; a worker is a
\*            thread that runs in a copy of its creator's context (asyncio.to_thread)
\* migrate:   a generator is resumed in another context while it has a block open
Kinds  == {"thread", "worker", "task", "generator"}
Usages == Kinds \cup {"nested", "captured", "detached", "reuse", "kept", "endpoint",
                      "migrate"}

ASSUME UsageAssumption == Usage \subseteq Usages
ASSUME RootAssumption == Root \in Strands
ASSUME NamesAssumption == None \notin Contexts \cup Traces \cup Spans \cup Strands
ASSUME BoundAssumption == MaxDepth \in Nat /\ MaxListed \in Nat

Status == {"UNSET", "OK", "ERROR"}

TraceRec == [status: Status, spans: Seq(Spans)]
\* trace is the trace_id of a span, via the TraceContext that the SpanContext keeps.
SpanRec  == [trace: Traces, via: Contexts, parent: Spans \cup {None}, status: Status]
\* An open `with` block with the token __enter__ kept: the context that set the
\* variable and the value it had.
TraceBlock == [kind: {"trace"}, id: Contexts, ctx: Strands, old: Contexts \cup {None}]
SpanBlock  == [kind: {"span"}, id: Spans, ctx: Strands, old: Spans \cup {None}]
\* raising: the exception in flight, by origin: the host's own code, the
\* RuntimeError for a span outside a trace, or a ContextVar that cannot be reset.
Origin == {"no", "host", "misuse", "sdk"}
Out    == [trace: Traces, status: Status]
\* A document that was sent, with what it shows of the spans.
ShownSpan == [span: Spans, trace: Traces, parent: Spans \cup {None}, status: Status]
Document  == [status: Status, spans: SUBSET ShownSpan]
\* on: the thread, named by a strand that started it.  step: where the __exit__ of the
\* innermost block has got to: the host runs, the status is to be set to OK, or it is
\* done with the status.  failing: the span of a record_error that has yet to fail the
\* trace.  out: what the exporter was given.
Strand == [at: {"new", "live", "over"}, kind: Kinds, on: Strands,
           ctx: Strands, under: Contexts \cup {None}, base: Spans \cup {None},
           stack: Seq(TraceBlock \cup SpanBlock), raising: Origin,
           step: {"host", "settle", "leave"}, failing: Spans \cup {None},
           out: Out \cup {None}]

ASSUME NoneAssumption == None \notin TraceRec \cup SpanRec \cup Out \cup Document

VARIABLES
    made,       \* TraceContext.trace: the Trace of the last __enter__, or None
    trace,      \* each Trace made so far, or None
    span,       \* each Span made so far, or None
    curTrace,   \* _current_trace in each context
    curSpan,    \* _current_span in each context
    strand,     \* the call stacks
    posted,     \* documents on their way to a server
    stored      \* what each export wrote: the status row, then the spans

vars == <<made, trace, span, curTrace, curSpan, strand, posted, stored>>

NewStrand(at, kind, on, ctx, under, base) ==
    [at |-> at, kind |-> kind, on |-> on, ctx |-> ctx, under |-> under, base |-> base,
     stack |-> << >>, raising |-> "no", step |-> "host", failing |-> None, out |-> None]

Init ==
    /\ made     = [h \in Contexts |-> None]
    /\ trace    = [t \in Traces |-> None]
    /\ span     = [s \in Spans |-> None]
    /\ curTrace = [c \in Strands |-> None]
    /\ curSpan  = [c \in Strands |-> None]
    /\ strand   = [k \in Strands |->
                     NewStrand(IF k = Root THEN "live" ELSE "new", "thread", k, k, None, None)]
    /\ posted   = [t \in Traces |-> None]
    /\ stored   = [t \in Traces |-> None]

\* No call of the SDK is under way.
Idle(k) == strand[k].step = "host" /\ strand[k].failing = None /\ strand[k].out = None

Live(k)    == strand[k].at = "live" /\ Idle(k)
Running(k) == Live(k) /\ strand[k].raising = "no"
Depth(k)   == Len(strand[k].stack)
InBlock(k, kind) == strand[k].stack # << >> /\ Head(strand[k].stack).kind = kind

IsOpen(kind, id) == \E k \in Strands : \E i \in 1..Depth(k) :
    strand[k].stack[i].kind = kind /\ strand[k].stack[i].id = id

\* No other strand on the thread of k is within a call of the SDK.
HasThread(k) == \A j \in Strands \ {k} : strand[j].on = strand[k].on => Idle(j)

-----------------------------------------------------------------------------
(* The host program *)

\* A thread starts with an empty context, a worker and a task with a copy of their
\* creator's.  A generator runs in the context it is resumed from; the copy is one in
\* which the host may resume it (copy_context, Context.run).
Start(k, j, kind) ==
    /\ kind \in Usage
    /\ Running(k)
    /\ strand[j].at = "new"
    /\ LET c == strand[k].ctx
       IN  /\ strand' = [strand EXCEPT ![j] =
                 NewStrand("live", kind,
                           IF kind \in {"thread", "worker"} THEN j ELSE strand[k].on,
                           IF kind = "generator" THEN c ELSE j,
                           curTrace[c], IF kind = "thread" THEN None ELSE curSpan[c])]
           /\ curTrace' = IF kind = "thread" THEN curTrace
                                             ELSE [curTrace EXCEPT ![j] = curTrace[c]]
           /\ curSpan'  = IF kind = "thread" THEN curSpan
                                             ELSE [curSpan EXCEPT ![j] = curSpan[c]]
    /\ UNCHANGED <<made, trace, span, posted, stored>>

\* A generator is resumed in another context, of another strand, on its thread, or in
\* its copy.
Migrate(k, c) ==
    /\ Live(k)
    /\ strand[k].kind = "generator"
    /\ strand[k].stack = << >> \/ "migrate" \in Usage
    /\ c = k \/ (strand[c].at = "live" /\ strand[c].kind # "generator")
    /\ c # strand[k].ctx
    /\ strand' = [strand EXCEPT ![k].ctx = c, ![k].on = strand[c].on]
    /\ UNCHANGED <<made, trace, span, curTrace, curSpan, posted, stored>>

Raise(k) ==
    /\ Running(k)
    /\ strand[k].stack # << >>
    /\ strand' = [strand EXCEPT ![k].raising = "host"]
    /\ UNCHANGED <<made, trace, span, curTrace, curSpan, posted, stored>>

Catch(k) ==
    /\ Live(k)
    /\ strand[k].raising # "no"
    /\ strand' = [strand EXCEPT ![k].raising = "no"]
    /\ UNCHANGED <<made, trace, span, curTrace, curSpan, posted, stored>>

Finish(k) ==
    /\ Live(k)
    /\ strand[k].stack = << >>
    /\ strand' = [strand EXCEPT ![k].at = "over"]
    /\ UNCHANGED <<made, trace, span, curTrace, curSpan, posted, stored>>

-----------------------------------------------------------------------------
(* TraceContext and SpanContext *)

\* TraceContext.__enter__: the current span is left as it is.  Entering an object that
\* has a block open is left out.
EnterTrace(k, h, t) ==
    /\ Running(k)
    /\ Depth(k) < MaxDepth
    /\ made[h] = None \/ ("reuse" \in Usage /\ ~IsOpen("trace", h))
    /\ trace[t] = None
    /\ made' = [made EXCEPT ![h] = t]
    /\ LET c == strand[k].ctx
       IN  /\ "nested" \in Usage \/ curSpan[c] = None
           /\ curTrace' = [curTrace EXCEPT ![c] = h]
           /\ strand' = [strand EXCEPT ![k].stack =
                <<[kind |-> "trace", id |-> h, ctx |-> c, old |-> curTrace[c]]>> \o @]
    /\ trace' = [trace EXCEPT ![t] = [status |-> "UNSET", spans |-> << >>]]
    /\ UNCHANGED <<span, curSpan, posted, stored>>

\* Mutant of ParentIn: the trace stands in for a missing parent.
ParentOrTrace(c) == IF curSpan[c] = None THEN curTrace[c] ELSE curSpan[c]

\* The parent of a span made in a context: its current span, of whatever trace.
ParentIn(c) == curSpan[c]

\* TraceContext.span, of the current trace or of one that the host has kept.
MakeSpan(k, h, s) ==
    /\ Running(k)
    /\ span[s] = None
    /\ made[h] # None
    /\ LET c == strand[k].ctx
       IN  /\ h = curTrace[c] \/ "captured" \in Usage
           /\ span' = [span EXCEPT ![s] = [trace  |-> made[h], via |-> h,
                                           parent |-> ParentIn(c), status |-> "UNSET"]]

\* SpanContext.__enter__.
OpenSpan(k, s) ==
    /\ Running(k)
    /\ Depth(k) < MaxDepth
    /\ LET c == strand[k].ctx
       IN  /\ curSpan' = [curSpan EXCEPT ![c] = s]
           /\ strand' = [strand EXCEPT ![k].stack =
                <<[kind |-> "span", id |-> s, ctx |-> c, old |-> curSpan[c]]>> \o @]

\* `with trace.span(...)` or a function decorated with hound.span.
EnterSpan(k, h, s) ==
    /\ MakeSpan(k, h, s)
    /\ OpenSpan(k, s)
    /\ UNCHANGED <<made, trace, curTrace, posted, stored>>

\* The SpanContext is kept, ...
KeepSpan(k, h, s) ==
    /\ "kept" \in Usage
    /\ MakeSpan(k, h, s)
    /\ UNCHANGED <<made, trace, curTrace, curSpan, strand, posted, stored>>

\* ... and entered later, once or more often, but not while it is open.
EnterKept(k, s) ==
    /\ "kept" \in Usage
    /\ span[s] # None
    /\ ~IsOpen("span", s)
    /\ Len(trace[made[span[s].via]].spans) < MaxListed
    /\ OpenSpan(k, s)
    /\ UNCHANGED <<made, trace, span, curTrace, posted, stored>>

\* The decorator finds no current trace: RuntimeError.
SpanOutsideTrace(k) ==
    /\ Running(k)
    /\ curTrace[strand[k].ctx] = None
    /\ strand' = [strand EXCEPT ![k].raising = "misuse"]
    /\ UNCHANGED <<made, trace, span, curTrace, curSpan, posted, stored>>

\* record_error up to the trace: the span is failed.
FailSpan(k, s, step) ==
    /\ span' = [span EXCEPT ![s].status = "ERROR"]
    /\ strand' = [strand EXCEPT ![k].failing = s, ![k].step = step]

RecordError(k, s) ==
    /\ Running(k)
    /\ span[s] # None
    /\ \/ "captured" \in Usage
       \/ \E i \in 1..Depth(k) : strand[k].stack[i].kind = "span" /\ strand[k].stack[i].id = s
    /\ FailSpan(k, s, "host")
    /\ UNCHANGED <<made, trace, curTrace, curSpan, posted, stored>>

\* Mutant of Failed: record_error as it was before it set the trace's status.
NotFailed(status) == status

Failed(status) == "ERROR"

\* The rest of record_error: the Trace that the span's TraceContext has by now.
FailTrace(k) ==
    /\ strand[k].failing # None
    /\ trace' = [trace EXCEPT ![made[span[strand[k].failing].via]].status = Failed(@)]
    /\ strand' = [strand EXCEPT ![k].failing = None]
    /\ UNCHANGED <<made, span, curTrace, curSpan, posted, stored>>

\* Mutants of StepAfter: a clean exit always sets OK; it leaves the status alone.
AlwaysSettle(status) == "settle"
NeverSettle(status)  == "leave"

\* A clean __exit__ has read the status.
StepAfter(status) == IF status = "UNSET" THEN "settle" ELSE "leave"

\* SpanContext.__exit__ as far as record_error, or as the status it tests.
ExitSpan(k) ==
    /\ Live(k)
    /\ InBlock(k, "span")
    /\ LET s == Head(strand[k].stack).id
       IN  \/ /\ strand[k].raising # "no"
              /\ FailSpan(k, s, "leave")
           \/ /\ strand[k].raising = "no"
              /\ strand' = [strand EXCEPT ![k].step = StepAfter(span[s].status)]
              /\ span' = span
    /\ UNCHANGED <<made, trace, curTrace, curSpan, posted, stored>>

SettleSpan(k) ==
    /\ strand[k].step = "settle"
    /\ InBlock(k, "span")
    /\ span' = [span EXCEPT ![Head(strand[k].stack).id].status = "OK"]
    /\ strand' = [strand EXCEPT ![k].step = "leave"]
    /\ UNCHANGED <<made, trace, curTrace, curSpan, posted, stored>>

\* Mutant of ResetSpan: None is set, not the token's value.
ClearSpan(b) == [curSpan EXCEPT ![b.ctx] = None]

ResetSpan(b) == [curSpan EXCEPT ![b.ctx] = b.old]

\* The end of SpanContext.__exit__.  ContextVar.reset raises ValueError in a context
\* other than the token's, and then the span is not appended to its trace.
LeaveSpan(k) ==
    /\ strand[k].step = "leave" /\ strand[k].failing = None
    /\ InBlock(k, "span")
    /\ LET b == Head(strand[k].stack)
           resets == b.ctx = strand[k].ctx
       IN  /\ trace' = [trace EXCEPT ![made[span[b.id].via]].spans =
                 IF resets THEN Append(@, b.id) ELSE @]
           /\ curSpan' = IF resets THEN ResetSpan(b) ELSE curSpan
           /\ strand' = [strand EXCEPT
                 ![k].stack = Tail(@),
                 ![k].step = "host",
                 ![k].raising = IF resets THEN @ ELSE "sdk"]
    /\ UNCHANGED <<made, span, curTrace, posted, stored>>

\* TraceContext.__exit__ as far as the status.
ExitTrace(k) ==
    /\ Live(k)
    /\ InBlock(k, "trace")
    /\ LET h == Head(strand[k].stack).id
           failed == strand[k].raising # "no"
       IN  /\ \/ "detached" \in Usage
              \/ \A j \in Strands \ {k} : strand[j].under = h => strand[j].at = "over"
           /\ trace' = [trace EXCEPT ![made[h]].status = IF failed THEN "ERROR" ELSE @]
           /\ strand' = [strand EXCEPT ![k].step =
                 IF failed THEN "leave" ELSE StepAfter(trace[made[h]].status)]
    /\ UNCHANGED <<made, span, curTrace, curSpan, posted, stored>>

SettleTrace(k) ==
    /\ strand[k].step = "settle"
    /\ InBlock(k, "trace")
    /\ trace' = [trace EXCEPT ![made[Head(strand[k].stack).id]].status = "OK"]
    /\ strand' = [strand EXCEPT ![k].step = "leave"]
    /\ UNCHANGED <<made, span, curTrace, curSpan, posted, stored>>

\* The end of TraceContext.__exit__ and the beginning of the export, whose first
\* statement is the row with the status.
LeaveTrace(k) ==
    /\ strand[k].step = "leave"
    /\ InBlock(k, "trace")
    /\ LET b == Head(strand[k].stack)
           t == made[b.id]
           resets == b.ctx = strand[k].ctx
       IN  /\ curTrace' = IF resets THEN [curTrace EXCEPT ![b.ctx] = b.old] ELSE curTrace
           /\ strand' = [strand EXCEPT
                 ![k].stack = Tail(@),
                 ![k].step = "host",
                 ![k].raising = IF resets THEN @ ELSE "sdk",
                 ![k].out = IF resets THEN [trace |-> t, status |-> trace[t].status] ELSE None]
    /\ UNCHANGED <<made, trace, span, curSpan, posted, stored>>

\* What a document shows of a span.
Shown(s) == [span |-> s, trace |-> span[s].trace, parent |-> span[s].parent,
             status |-> span[s].status]

\* Mutants of Written: the last span, which is the outermost, is left out; the
\* spans that failed are.
AllButLast(list)    == {Shown(list[i]) : i \in 1..(Len(list) - 1)}
OnlyUnfailed(list)  == {Shown(list[i]) : i \in {j \in 1..Len(list) : span[list[j]].status # "ERROR"}}

Written(list) == {Shown(list[i]) : i \in 1..Len(list)}

\* save_trace writes each span under its own trace_id, ...
Merged(old, new) == new \cup {x \in old : \A y \in new : y.span # x.span}

Saved(t, d) == [u \in Traces |->
    LET new == {x \in d.spans : x.trace = u}
        old == IF stored[u] = None THEN {} ELSE stored[u].spans
    IN  IF u = t THEN [status |-> d.status, spans |-> Merged(old, new)]
        ELSE IF stored[u] = None THEN None
        ELSE [status |-> stored[u].status, spans |-> Merged(old, new)]]

\* ... which must have a row: the foreign key.
CanSave(t, d) == \A x \in d.spans : x.trace = t \/ stored[x.trace] # None

\* Mutant of AfterExport: a failed export is raised into the host.
RaiseExportError(raising, succeeds) == IF succeeds THEN raising ELSE "sdk"

\* The exporter catches and logs every exception.
AfterExport(raising, succeeds) == raising

\* LocalSQLiteExporter, the rest of the export: the spans in the list by now.  If it
\* fails, wherever it does, the document is lost.
Export(k, succeeds) ==
    /\ strand[k].out # None
    /\ LET t == strand[k].out.trace
           d == [status |-> strand[k].out.status, spans |-> Written(trace[t].spans)]
       IN  /\ succeeds => CanSave(t, d)
           /\ stored' = IF succeeds THEN Saved(t, d) ELSE stored
    /\ strand' = [strand EXCEPT ![k].out = None,
                               ![k].raising = AfterExport(@, succeeds)]
    /\ UNCHANGED <<made, trace, span, curTrace, curSpan, posted>>

\* HTTPExporter: the document as it is now is posted, once.  Whether the answer is a
\* success, an error or does not come in time makes no difference to the host, which
\* may be told of a failure although the document gets there.
Post(k, succeeds) ==
    /\ "endpoint" \in Usage
    /\ strand[k].out # None
    /\ LET t == strand[k].out.trace
       IN  posted' = [posted EXCEPT ![t] = [status |-> trace[t].status,
                                           spans  |-> Written(trace[t].spans)]]
    /\ strand' = [strand EXCEPT ![k].out = None,
                               ![k].raising = AfterExport(@, succeeds)]
    /\ UNCHANGED <<made, trace, span, curTrace, curSpan, stored>>

\* The server saves what was posted, sooner, later or never; it cannot save what has no
\* row for one of its spans.
Arrive(t) ==
    /\ posted[t] # None
    /\ stored' = IF CanSave(t, posted[t]) THEN Saved(t, posted[t]) ELSE stored
    /\ posted' = [posted EXCEPT ![t] = None]
    /\ UNCHANGED <<made, trace, span, curTrace, curSpan, strand>>

-----------------------------------------------------------------------------

Call(k) ==
    \/ \E h \in Contexts, t \in Traces : EnterTrace(k, h, t)
    \/ \E h \in Contexts, s \in Spans : EnterSpan(k, h, s) \/ KeepSpan(k, h, s)
    \/ \E s \in Spans : EnterKept(k, s) \/ RecordError(k, s)
    \/ SpanOutsideTrace(k)
    \/ FailTrace(k)
    \/ ExitSpan(k) \/ SettleSpan(k) \/ LeaveSpan(k)
    \/ ExitTrace(k) \/ SettleTrace(k) \/ LeaveTrace(k)
    \/ \E succeeds \in BOOLEAN : Export(k, succeeds) \/ Post(k, succeeds)

Host(k) ==
    \/ \E j \in Strands, kind \in Kinds : Start(k, j, kind)
    \/ \E c \in Strands : Migrate(k, c)
    \/ Raise(k) \/ Catch(k) \/ Finish(k)

StrandNext(k) == HasThread(k) /\ (Host(k) \/ Call(k))

Next == (\E k \in Strands : StrandNext(k)) \/ (\E t \in Traces : Arrive(t))

Spec == Init /\ [][Next]_vars

-----------------------------------------------------------------------------
(* Properties *)

\* The SDK's objects have the types the code gives them.
TypeOK ==
    /\ made \in [Contexts -> Traces \cup {None}]
    /\ trace \in [Traces -> TraceRec \cup {None}]
    /\ span \in [Spans -> SpanRec \cup {None}]
    /\ curTrace \in [Strands -> Contexts \cup {None}]
    /\ curSpan \in [Strands -> Spans \cup {None}]
    /\ strand \in [Strands -> Strand]
    /\ posted \in [Traces -> Document \cup {None}]
    /\ stored \in [Traces -> Document \cup {None}]

\* In a host on one thread, with a TraceContext for each trace, a failed span has failed
\* its trace once record_error is over, and no later exit takes the ERROR back, however
\* traces are nested and references kept.  Otherwise a second thread can lose it, if it
\* outlives the trace: its record_error may come between the test of the status in
\* TraceContext.__exit__ and the OK.
ErrorReachesTrace ==
    \A s \in Spans : span[s] # None /\ span[s].status = "ERROR" =>
        \/ trace[span[s].trace].status = "ERROR"
        \/ \E k \in Strands : strand[k].failing = s

\* For hosts that enter a SpanContext once, and a TraceContext once or only after all that
\* was opened in it is over, on any number of threads: a span is in the list of its own
\* trace only, at most once, and not before it has a status.  A SpanContext that is
\* entered again is listed again.
ListedOnce ==
    \A t \in Traces : trace[t] # None =>
        \A i, j \in 1..Len(trace[t].spans) :
            LET s == trace[t].spans[i]
            IN  /\ span[s] # None
                /\ span[s].trace = t
                /\ span[s].status # "UNSET"
                /\ s = trace[t].spans[j] => i = j

\* A stored trace tells the truth about failure: an ERROR span in it means it is
\* stored as ERROR, and nothing is stored without a status (the reason given in
\* SpanContext.record_error).
StatusIsHonest ==
    \A t \in Traces : stored[t] # None =>
        /\ stored[t].status # "UNSET"
        /\ \A x \in stored[t].spans :
              /\ x.status # "UNSET"
              /\ x.status = "ERROR" => stored[t].status = "ERROR"

\* No span of a stored trace is missing from it.
StoredIsComplete ==
    \A t \in Traces, s \in Spans :
        stored[t] # None /\ span[s] # None /\ span[s].trace = t =>
            \E x \in stored[t].spans : x.span = s

\* The parent of a stored span is stored with it: the tree has no loose branch.
ParentIsStored ==
    \A t \in Traces : stored[t] # None =>
        \A x \in stored[t].spans :
            x.parent # None => \E y \in stored[t].spans : y.span = x.parent

\* A context's current span is the innermost span open in it, or the one its task
\* was started under: whatever was raised and caught, no block leaves its span
\* behind.
ContextFollowsBlocks ==
    \A k \in Strands :
        LET stack == strand[k].stack
            open  == {i \in 1..Depth(k) : stack[i].kind = "span"}
        IN  strand[k].at = "live" =>
              IF open = {} THEN curSpan[k] = strand[k].base
              ELSE \E i \in open : curSpan[k] = stack[i].id /\ \A j \in open : i <= j

\* The SDK raises nothing into the host but the RuntimeError for a span outside a
\* trace: "instrumentation must never crash the host application" (exporter.py).
NeverCrashesHost == \A k \in Strands : strand[k].raising # "sdk"

\* In a host on one thread, with a TraceContext for each trace, an ERROR stays an ERROR,
\* a span keeps its parent, and a stored trace changes no more.
ErrorsStick ==
    [][/\ \A t \in Traces : trace[t] # None /\ trace[t].status = "ERROR" =>
             trace'[t].status = "ERROR"
       /\ \A s \in Spans : span[s] # None =>
             /\ span'[s].parent = span[s].parent
             /\ span[s].status = "ERROR" => span'[s].status = "ERROR"
       /\ \A t \in Traces : stored[t] # None => stored'[t] = stored[t]]_vars
=============================================================================

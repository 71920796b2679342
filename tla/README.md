# PyAgentHound in TLA+

PyAgentHound records traces of AI agents: a host program opens traces and spans
through the SDK, exporters store them in an SQLite file, and a server (or the command
line) analyses what is stored: rules, comparison with a baseline, ranking of root
causes, explanation by a language model, counterfactual replay. This directory holds
TLA+ modules of that program, translated from `src/pyagenthound/`, the TLC
configurations that check them on small instances, and TLAPS proofs of their main
properties for every instance. `PROJECT.json` maps each definition to the lines it
stands for.

    tlc -config TraceStore_calls.cfg MCTraceStore     # model-check one run
    tlapm TraceStoreProofs.tla                        # check the proofs of a module

## 1. The system

| Component | Source | State it keeps | Operations |
|---|---|---|---|
| SDK client | `sdk/client.py`, `sdk/models.py` | two ContextVars (`_current_trace`, `_current_span`), the `Trace` and `Span` objects of open blocks | `__enter__`, `__exit__`, `span`, `record_error`, decorators |
| Exporters | `sdk/exporter.py` | none | `export` to the local store, or one POST to a server |
| Trace store | `storage/` | the tables `traces` and `spans` | `save_trace`, `get_trace`, `list_traces` |
| OTLP ingest | `ingest/otlp.py`, `api/app.py` | none of its own | one request, JSON or protobuf: read it or refuse it, group the spans, save each group |
| HTTP API | `api/routes.py` | none of its own | `create_trace`, `analyze`, `root-cause`, `explain`, `replay` |
| Execution graph | `graph/` | a graph per request | `build_graph`, `ancestors` and filters |
| Rules | `rules/` | none | five rules on a trace and its graph |
| Historical baseline | `baseline/` | none | `extract_signature`, `find_baseline`, `compare_to_baseline`, `historical_rule_frequencies` |
| Root causes | `rootcause/` | none | `rank_root_causes` |
| Replay | `replay/` | none of its own | `run_replay`: clone, override, compare, save |
| Evaluation | `evaluation/`, `cli/commands/test.py` | none | five assertions on a trace; a run over a directory of test cases with an exit code |
| LLM explanation | `llm/` | none | prompt, parse, validate the citations |
| UI, CLI | `ui/`, `cli/` | none | the detail page and the commands put the above together in orders of their own |
| Integrations, tools | `integrations/`, `tools/graphify/` | none | stored traces as samples of another tool; a wrapper of an external command |

How they interact. The SDK calls its exporter from `TraceContext.__exit__`, on the
host's thread. The exporter opens its own connection to the SQLite file, or posts to
`create_trace`. The server runs its synchronous handlers in a thread pool and the OTLP
handler on the event loop; all of them, and any number of host processes, meet in the
SQLite file only. Analysis reads from the store and writes nothing; replay reads a
trace and later saves another one.

What is hard about it:

* **Context.** The parent of a span is whatever span is current in the Python context;
  threads start with an empty context, tasks with a copy, generators run in that of
  whoever resumes them, and exceptions leave blocks at every point. A status is tested
  and then set, and nothing keeps another thread from setting it in between.
* **Concurrency in the store.** Saves run statement by statement in a transaction with
  a timeout on the lock; `get_trace` is two statements with no transaction around them.
* **Upserts that leave columns out.** `start_time` and a span's `trace_id` are frozen by
  the first save; ids come from outside and may repeat.
* **Delivery.** An OTLP exporter repeats, reorders and loses batches; a request is saved
  group by group and may fail half way; one trace may arrive in several batches.
* **Checks on data that is read earlier.** A replay is judged by the attributes of the
  trace it read, which an earlier replay may have edited; analysis reads the baseline
  more than once in one request.

What makes each part correct:

* *SDK*: a stored trace is complete, its tree is closed, and it is ERROR if a span is,
  by whichever exporter and however late it got there; no exception of the SDK reaches
  the host.
* *Store*: a save appears whole or not at all; what was saved stays; the identity of a
  row never changes; a reader sees at least one whole save.
* *Ingest*: groups arrive whole and for good, and a batch is acknowledged only when all
  of it is there; redelivery changes nothing; everything is delivered in the end if the
  exporter persists.
* *Replay*: no chain of replays edits an unsafe span without confirmation; a replay
  touches no existing row; the comparison of findings is about the override only.
* *Analysis*: a baseline is another, earlier execution, and a success of the same workflow
  if nothing is saved meanwhile; what one answer says of the trace agrees, whatever is
  saved while it is computed, so a citation means what it says; a test run passes if and
  only if every case does; walks over a graph end and are exact whatever the parent ids
  are; a confidence is made of what is present.

## 2. Modules

| Module | Stands for | Checked by |
|---|---|---|
| `TraceRecords` | the two tables, the documents and the upserts; used by the next two and by `OtlpIngest` | through them |
| `AtomicTraceStore` | what `save_trace` promises: one step per document | as the property `SavesAreAtomic` |
| `TraceStore` | `storage/sqlite_store.py`, statement by statement | `TraceStore_calls` |
| `TraceStoreProofs` | theorems about `TraceStore` | TLAPS |
| `SdkTracing` | `sdk/client.py` and both exporters, with the host program around them | `SdkTracing_joined`, `_liberal`, `_nested`, `_migrate`, `_race` |
| `SdkTracingProofs` | theorems about `SdkTracing` for every host, for hosts on one thread, and for hosts that use each object once | TLAPS |
| `SdkNestingProofs` | and for hosts that join their threads and do not nest traces; extends the former | TLAPS |
| `BatchDelivery` | what the OTLP endpoint promises: groups delivered for good, batches acknowledged | as the property `IngestDelivers` |
| `OtlpIngest` | `ingest/otlp.py` and its handler, with the exporter and the network | `OtlpIngest_delivery`, `OtlpIngest_status` |
| `OtlpIngestProofs` | theorems about `OtlpIngest` | TLAPS |
| `Replay` | `replay/`, the rules, and the handlers around them | `Replay_chains` |
| `ReplayProofs` | theorems about `Replay` | TLAPS |
| `Executions` | a stored trace as analysis sees it: its signature (`baseline/signature.py`) and the assertions (`evaluation/`) | as part of the next |
| `Analysis` | `baseline/`, `llm/`, the analyze, root-cause and explain handlers, the detail page, the `analyze` and `test` commands | `Analysis_requests`, `Analysis_baseline` |
| `AnalysisProofs` | theorems about `Analysis` | TLAPS |
| `ExecutionGraph` | `graph/`: `build_graph` and `ancestors` | as part of the next |
| `RootCause` | `rootcause/` on a graph: proximity, confidence, order | `RootCause_ranking` |
| `RootCauseProofs` | theorems about `ExecutionGraph` and `RootCause` | TLAPS |
| `FiniteOrders` | lemmas the proofs share: induction over finite sets and naturals, least and greatest elements, the first *n* of an order | TLAPS |

The `MC...` modules hold the small documents, batches and captures of the runs and the
symmetry sets; they redefine nothing.

### TraceStore

`traces` and `spans` are the committed tables; `tx[w]` is what the transaction of writer
`w` sees. `call[w]` follows one `save_trace`: *waiting* for the RESERVED lock, *open*
between two statements, *saved* or *failed*. `UpsertTraceRow` takes the lock,
`UpsertSpanRow` upserts one span with the foreign key checked, `Commit`, `Rollback` (any
statement may raise), `Busy` (the five-second timeout) and `Crash` end it. A reader runs
`SelectTrace` and `SelectSpans` as separate steps, or `ListTraces` in one. A row is
reduced to its owner, its start and one *content* for the columns that an upsert treats
alike (overwritten each time).

`AtomicTraceStore` says what a caller may rely on, with no order of statements: the
content of a span is that of its last mention, owner and start those of the row already
there or of the first mention. `SavesAreAtomic` is the refinement, with the committed
tables as the abstract ones; `tx`, `call` and the lock have no counterpart.

### SdkTracing

A *strand* is one Python call stack (thread, task or generator) with its stack of open
`with` blocks; each block keeps the token of its `ContextVar.set`: the context and the
old value. A `TraceContext` object is named apart from the `Trace` it has made: `made`
is its `trace` attribute, which every `__enter__` replaces, and a span reaches its trace
through it, as `SpanContext` does.

A call of the SDK is as many steps as another thread can tell apart. `RecordError` fails
the span and `FailTrace` the trace. `ExitSpan` tests the status, `SettleSpan` sets it to
OK, `LeaveSpan` resets the variable and appends the span; `ExitTrace`, `SettleTrace` and
`LeaveTrace` do the same for a trace and begin the export, whose first statement is the
row with the status, and `Export` is the walk over the list of spans that follows. The
SDK neither awaits nor yields, so only a strand on *another thread* runs between two
steps of a call (`HasThread`): a *thread*, which starts with an empty context, or a
*worker*, a thread in a copy of its creator's context (`asyncio.to_thread`). `EnterSpan`
is `with trace.span(...)`; `KeepSpan` makes a `SpanContext` that `EnterKept` enters later,
once or more often. `Post` sends the document instead, and `Arrive` is the server that
saves what was posted, sooner, later or never, whatever the SDK was told. `Saved` writes
each span under its own `trace_id`, as `save_trace` does. `Start`, `Migrate`, `Raise`,
`Catch`, `Finish` are the host's.

What the host does with the SDK is the constant `Usage`, and what holds depends on it:

* that a stored trace is complete, closed and honest, that the current span is that of the
  innermost block, and that a span is listed once, for hosts that join their threads and
  tasks before the trace exits, do not nest traces and enter a `SpanContext` where they
  make it (`SdkTracing_joined`);
* that a failure reaches its trace and stays, for hosts on one thread that use a
  `TraceContext` once, whatever else they do: they nest traces, keep references, enter a
  `SpanContext` late or again, let tasks outlive their trace (`SdkTracing_liberal`);
* three runs show what breaks outside: a thread that is still at work when its trace
  exits (`SdkTracing_race`), a nested trace, a generator resumed in another context.

### OtlpIngest

`Post` and `Lose` are the exporter and the network; `Receive`, `Refuse`, `SaveGroup`,
`Respond`, `SaveFails` and `Crash` are the handler. The handler awaits only the body of the request
and runs on the event loop, so one request is converted and saved at a time;
`handling.left` holds the traces whose groups are still to be saved, and the next one is
that whose first span comes first in the body (`IsNext`), which is the order of the
dictionary in `otlp_json_to_traces`. `Group` and `TraceDoc` are what that function makes
of a trace: start, end and status come from the spans of the batch alone and from the
server's clock. A
body is JSON, protobuf, malformed or of another content type; `MessageToDict` writes the
ids of a protobuf body in base64, so one trace that comes by both protocols is stored as
two (`Base64` maps the one to the other). `acknowledged` is what the exporter knows.
`WholeTraceTimes` says that the start and end of a trace from one batch are those of its
spans, with the one exception the code makes: a trace is born with the server's clock as
its start and only an earlier span moves it, so that a trace whose spans all begin later
(a client's clock that is ahead) starts at its arrival.

Span ids are made up by exporters and are the key of the table of spans. What a property
needs of them is stated beside the model: spans of different traces have different ids
(`OneTraceEach`), no span is in two batches (`OneBatchEach`), none is twice in one
(`SentOnce`, which the batches of the runs satisfy and TLC checks that they do). A batch
that is sent again is the same batch.

`BatchDelivery` knows no requests: a group is delivered, or a batch all of whose groups
are delivered is acknowledged. `IngestDelivers` is the refinement; the mapping reads the
delivered groups off the tables (every span of the group is there, under its trace), so
that nothing the handler does after a failure, a crash or a repetition may take a group
back, deliver part of one that counts as whole, or acknowledge too early.

### Replay

`Capture` is an exporter's save; `Fetch` is a handler that has read its trace;
`SaveClone` and `Abandon` are the rest of `run_replay`, with the confirmation, the rules
on both traces and the save. Between `Fetch` and `SaveClone` the trace may be saved
again. Attributes are reduced to what is looked at: `documents`, by what the rules see in
them (a class for each of the three rules, one for documents that a rule raises on: dates
that cannot be compared, ids that cannot be counted or sorted), and `safety`. `captured`
and `confirmed` are history variables: what the span at the beginning of a chain of replays
was captured as, and which replays have a confirmation in their chain. Overrides are by span name, as the command line and the web
page ask for them; `get_trace` and `save_trace` are one step each here, which
`TraceStore` justifies.

### Executions and Analysis

`Executions` has what is concluded from one trace alone: `Signature` takes its fields
from the spans as `extract_signature` does (the last span of a type that has the
attribute gives the value, tokens add up where they are given), `HasSignature` is false
where a model, a prompt version or a retriever is no text (`Texts`), which
`ExecutionSignature` refuses and which ends the request that compares it, and `Evaluate`
is the assertions of a test case. Which rules fire on a trace is a field of its row, `fires` (or
*Raises*); `Replay` models the rules themselves.

`request[h]` in `Analysis` follows one request: `Fetch` reads the trace, `ListSuccesses`
and `GetBaseline` are `find_baseline` and the comparison, `ListHistory` and `CountOne` are
`historical_rule_frequencies`, one execution at a time, `Reply` and `NoReply` are the
model with the validation of its citations. Five kinds of request share these steps and
differ in what they do with their findings (`WithFindings`): *analyze*, *root-cause* and
*explain*, the detail *page*, and the *report* of the `analyze` command (with `--explain`
it is an *explain*). All but the first two go through the baseline twice, once for the
findings and once for the hypotheses. `StartTests` and `NextCase` are the `test` command.
Each step is one transaction of the store, and `Export` may save between any two. Findings
are functions from ids to evidence, because the id of a finding does not depend on the
baseline and the evidence does. `Compare` treats the fields of a signature as the code
does: a change where both are known, a list that differs, a measure more than 1.5 times
as large. `quiet` is a history variable: the handlers in whose request nothing was saved.

### ExecutionGraph and RootCause

`AddSpan` is one round of `build_graph`; edges are a sequence, and a document that is
retrieved twice gives two edges, as in the code. `Ancestors`, `PopNode` and `FollowEdge`
are the walk with its stack. `Climb`, `OnPath` and `OffPath` are the rounds and the exits
of `_hops_to_ancestor`, `Conclude` gives a finding its confidence in hundredths (a half is
rounded either way, because the code rounds a float; in `Closeness` the one exact half,
1/8, goes to the even hundredth), `Sort` orders the hypotheses. The
properties compare both walks with what the parents and documents of the *trace* say,
and not with the graph, so that they are about `build_graph` too.

Two things the code does that a reader may not expect are in the model without a property.
A rule that fired in none of the earlier executions has no historical frequency rather
than 0, so a finding loses confidence when the first of them has it too; and an ancestor
of the final span three or more hops up scores less (0.25) than a span off its path (0.3).

## 3. What is checked

| Run | States | Shows |
|---|---|---|
| `TraceStore_calls` | 86,272 | saves are atomic, keep identities, return, free the lock; foreign keys hold; `get_trace` and `list_traces` between commits hold whole saves |
| `SdkTracing_joined` | 771,254 | complete, closed and honest traces by either exporter, with a second thread at work in them, also of a `TraceContext` used again; spans are listed once; the context follows the blocks; no exception of the SDK |
| `SdkTracing_liberal` | 409,429 | on one thread a failed span fails its trace and an ERROR sticks, with nesting, kept references and `SpanContext`s, late tasks and generators |
| `SdkTracing_nested` | violation | a trace entered inside a span of another one stores spans whose parent is elsewhere |
| `SdkTracing_migrate` | violation | a generator resumed in another context makes `__exit__` raise into the host |
| `SdkTracing_race` | violation | a thread still at work when its trace exits leaves an ERROR span in a trace stored as OK |
| `OtlpIngest_delivery` | 6,120 | the handler implements `BatchDelivery`; whole groups only, rows with the status and the times of their spans, all delivered |
| `OtlpIngest_status` | violation | a trace in two batches loses its ERROR status |
| `Replay_chains` | 58,089 | chains of replays: unsafe spans, analysable clones, honest comparison, rows untouched |
| `Analysis_requests` | 138,975 | earlier baselines that are successes of the workflow, agreeing findings and evidence, a sound gate, every request ends |
| `Analysis_baseline` | violation | the latest earlier success is missed when enough later ones are stored |
| `RootCause_ranking` | 71,511 | exact walks over any parents, cycles included; confidences and their order |

The five violations are disagreements between the code and what its documentation or
its own comments say; they are described in `PROJECT.json` under `findings` with the
lines quoted.

**Bounds, and why they are enough.**

* `TraceStore`: two writers, two trace ids, two span ids and three documents: a trace, the
  same trace again with another start, fewer spans and one of them twice, and another
  trace with an id that the first owns and a span whose `trace_id` names the first.
  Contention, timeouts and rollbacks need two writers and no more, because the lock lets
  one in at a time; there is one reader, because readers do not see each other;
  `MaxLimit` 1 reaches the first page, the second and an empty one. The proofs are for
  any number of each.
* `SdkTracing`: two traces and two `TraceContext` objects, two strands, at most three open
  blocks per strand (`MaxDepth`). The joined run has three spans: a parent, a child and a
  sibling across two stacks, a second trace after the first, by the same object or
  another. The liberal run has one span, because what it checks relates a span to its
  trace; the span is opened, failed and left by two strands, under either trace, and
  listed up to twice (`MaxListed` bounds only how often a kept one is entered again).
  The second strand of the joined run is a worker, because the other kinds do nothing that
  it does not: a task is a worker that does not come between the steps of a call, and a
  thread that starts with an empty context is a worker that was started before any trace.
  Every pair of steps of two threads is reached with two strands. The violation runs are
  as small as their counterexamples.
* `OtlpIngest`: a batch with two traces and a span that has none; the second trace is
  continued in a second batch and, by protobuf, in a third; a fourth cannot be parsed.
  Spans start before and after the server's clock (`Now`) and may have no end: every
  branch of the minimum and maximum is taken, and half-done requests have a first and a
  second group.
* `Replay`: one captured trace with an unsafe and a READ_ONLY span, three captures of it,
  chains of two replays (bounded by the minted ids), five overrides chosen so that a first replay makes a
  span safe that a second one edits. One handler: two replays share only the supply of
  fresh ids, and captures interleave with the one; the proofs are for any number.
* `Analysis`: three traces of a workflow and one that is saved as another's and as theirs,
  saved again as failures, with another model, a model that is no text, a tool, more or
  fewer tokens, with dates a rule raises on: every field of a signature can change but the prompt version and the
  retriever, which are treated like the model. `Lookback` 2 stands for the 20 of the code:
  the page is short of, equal to and smaller than what is stored. Two test cases have all
  five assertions and both outcomes in either order. One handler, because requests write
  nothing and so cannot see each other.
* `RootCause`: three spans with every choice of a parent for each (another, itself, an id
  that is not in the trace, none): all cycles of length one to three with and without a
  tail; three orders of the ends; a document retrieved by two spans and twice by one.

**Fairness.** Safety is checked and proved without any. `TraceStore`: weak fairness on the
steps of a call that has begun, since the interpreter keeps scheduling its thread and
sqlite3 bounds its wait for the lock; nothing makes a caller begin, fail or crash.
`OtlpIngest`: weak fairness on posting and on the handler's next step, strong fairness on
receiving, saving a group and having the answer reach the exporter: the exporter retries
until it is answered, and no fault happens at every attempt. `AllDelivered` depends on it and is conditional on it.
`Analysis`: weak fairness on a request's next step: its thread is scheduled, and the waits
for the store and for the model have timeouts. Exporters may save for ever.
`SdkTracing` and `Replay` state no liveness: the host decides how it goes on. The walks of
`RootCause` need none: their type invariant bounds them.

**Deadlock** is checked except where the system may come to an end: a host program that is
over.

## 4. What is proved

Every invariant and every action property that a passing run checks is also a theorem,
and so are both refinements. A theorem holds for all values of the constants: any
number of writers, handlers, strands, traces, spans, batches, documents and test cases,
lists and blocks of any length and depth. It assumes no more than

* the `ASSUME`s of the modules: the types of documents, traces, batches and cases; `None`
  different from every value; trace ids, span ids and documents that a graph may count
  are finite sets; for `Replay` that `uuid4` makes no id an exporter uses, for a span or
  as a parent; for `ExecutionGraph` that the spans of a trace have different ids, which is
  the key of the table they come from, none of them the trace's or a document's. TLC
  evaluates all of them in the runs;
* the hypothesis a theorem names after `ASSUME`, where the property is not true of every
  host or exporter: how the host uses the SDK, or what exporters do about span ids. Each
  is one that a passing run satisfies, and the violation runs show what happens without
  the most important of them.

An invariant is seldom inductive. What had to be added, and why:

**TraceStore** (`TraceStoreProofs`). The inductive invariant is

    IInv == TypeOK /\ ForeignKeys /\ \A w \in Writers : TxFollows(w)

`ForeignKeys` is not inductive by itself: a commit replaces the tables by those of a
transaction, so one has to know what a transaction holds. `TxFollows(w)` says it: the
writer holds the lock, and its view is the committed tables with the trace row and the
first `done[w]` spans of its document merged in. From it follow `TypeCorrect`,
`ForeignKeysHold`, `TransactionsAreSerial`, `IdentityIsKept`, `ReturnedStays`, and
`SavesImplementAtomic`, where `Commit` is mapped to the one step of the atomic store and
everything else to a stutter: the merge of all the spans, one upsert after the other, is
the merge that the abstract store describes. `GetsAreWhole` and `ListsCountWholeSaves`
need a second invariant on top: every committed row has the content of a document all of
whose spans are in the table (`RowsAreSavedWhole`), and a reader between its two SELECTs
holds such a row. A list counts the spans of a row, so the rows must be finitely many
(`RowsAreFinite`) for "at least as many as the document has" to mean anything; a list that
was read stays true because spans are never removed and never change their trace.

**SdkTracing** (`SdkTracingProofs`, for every host; `SdkNestingProofs`, for those that join).

* `TypeCorrect` is proved with `Known`: what is referred to, by a block, a list or an
  export, has been made.
* `HostIsNotCrashed` (no *migrate* in `Usage`): every open block was entered in the
  context its strand runs in (`OwnContext`), so no `reset` raises.
* `SpansListedOnce` (no *kept*, no *reuse*; any threads): a span is listed when its one
  block is left, in one place, with a status (`Decided`, `ListsApart`), and the
  `SpanContext` still finds the trace it was made for (`OwnTraces`).
* `FailuresAndDocumentsStay` and `FailuresReachTraces` (`OneThread`: no *thread*, no
  *worker*; no *reuse*): while an exit is between its test and its OK, no other strand is
  within a call and what it tested is still UNSET (`OneCall`). A stored document is not
  replaced because a `Trace` is made by one `TraceContext`, has one block, and is exported
  once, after the block is left (`Exclusive`). Neither is true of every host: with
  a thread that outlives its trace the OK may overwrite an ERROR, which is
  `SdkTracing_race`.
* `CurrentSpanIsInnermost`, `StoredStatusIsHonest`, `StoredTracesAreComplete`,
  `StoredParentsAreThere`, `JoinedFailuresReachTraces` and `JoinedSpansListedOnce`
  (`Joined`: no nested or captured traces, nothing that outlives its trace, no kept
  `SpanContext`, no generators; threads, workers, tasks and reuse are allowed). `Nested`
  says how the blocks of a strand fit together: below the spans are the traces (`Chain`),
  a token holds what was current below its block, all spans of a strand are of the one
  trace that is current, and that trace is open in the strand or where it was started
  (`Within`). Hence the last block of a trace to be left is its own, and when it is, every
  span of it is listed. That holds of every step of an exit, not only of the first:
  while a trace exits, no other strand has a block of it (`ClosesAlone`), and a
  record_error under way is of a span the strand has open (`FailsOwn`); together they are
  `Underway`, and they are why joining the threads is enough to close the race. `Whole`
  carries it to the document: a span is open or listed (`Placed`), its parent is of the
  same trace (`Rooted`), a failed span has failed its trace, a document that was posted or
  stored has all of them (`Documented`), whenever it arrives.

**OtlpIngest** (`OtlpIngestProofs`). `TypeCorrect` with the handler's state (`Serving`).
`RowsAreSent`: a row has the content and the start of a group in some batch, and a span
those of spans that were sent with its id. From it follows `WholeTracesAreHonest`, given
`OneTraceEach`: where only one batch mentions a trace, row and spans come from the same
group. `StoredGroupsAreWhole` rests on `WholeGroups` (behind every row is a batch all of
whose spans for it are stored as it has them), given `SentOnce`, and so does
`WholeTracesHaveTheirTimes`: the earliest and the latest span of the group must be in the
table for the row's times to be theirs.
`IngestImplementsDelivery` is the refinement, given `OneBatchEach`: `Promised` says that
the groups a request has got to are delivered; a save delivers its group and takes no
other back, an answer acknowledges a batch with nothing left, and every other step is a
stutter.

**Replay** (`ReplayProofs`). `TypeCorrect`, then

    IInv == TypeOK /\ ReplayRowsMinted /\ ReplayRowsCaptured /\ NoReplayRaises
            /\ ReadsOfReplaysCurrent /\ UnconfirmedKeepsUnsafe

`UnconfirmedKeepsUnsafe` speaks of stored replays, while a step makes a new one from what
a handler read some time ago. The strengthening closes that gap: what a handler has read
of a *replay* is still what is stored, because exporters do not write to minted ids and
replays do not write to rows that are there (`ReadsOfReplaysCurrent`,
`ReplayRowsMinted`), and the type of a span, on which its default safety rests, is that
it was captured with (`ReplayRowsCaptured`). The induction on the length of a chain is
then the induction on steps: were a span that was captured as unsafe still unsafe in the
replay that was read, it has the attributes it was captured with, hence the same safety,
hence an override of it is not permitted. `Analysable` and `AddOnly` come from the same
invariant. `FindingsFollowOverrides` compares the rules on a trace and on its clone, whose
spans and parents have new ids: a parent that was missing must be missing in the clone
too, so the fresh ids must be those of no parent (`MintedParentsStored`).

**Analysis** (`AnalysisProofs`). Of each request, `IInv` says

* what it knows by itself (`Coherent`): the rules found what they find in the trace that was
  read, in the findings and in those that are ranked, and what it was compared with began
  earlier;
* that the executions counted and left are one page, and no rule is counted more often than
  there were executions (`Bounded`), which keeps a frequency within 0 and 1;
* what it knows of the store (`OnStore`): a candidate began before the trace that was read
  and *still does*, because a save does not touch the start of a stored trace. This is
  what the first half of `BaselinesArePrior` rests on: the candidate is chosen in one
  transaction and read in a later one;
* and of a request during which nothing was saved, that its conclusions are those the
  store as it is gives (`Undisturbed`, `KnowsCases`), from which `QuietPassesAgree`,
  `GateIsItsCases` and the second half of `BaselinesArePrior`, that the baseline is a
  success of the same workflow, follow. `RulesFindTheSame` needs `Coherent` only and holds whatever is
  saved meanwhile.

**ExecutionGraph and RootCause** (`RootCauseProofs`).

* `GraphInv`: the edges are those of the spans seen so far (`EdgesAreBuilt`), and a walk has
  seen nothing that is not above its node, lists what it has seen once each, and has
  looked up from all of it but the frontier and the edges left (`IsWalk`). A walk that is
  over is therefore closed under parents and documents, so it has everything:
  `AncestorsExact`.
* `IsOnTheWay`: after so many hops, the climb for a finding is at the one node that is so
  many hops above the final node, and its node is on none of the levels before. What was
  visited are distinct nodes of the graph, as many as the hops, so a climb is no longer
  than the trace and a cycle ends it. When it ends off the path no level at all has the
  node: `ProximityExact`.
* `IsRanking` has these for each finding that is through, with a confidence its components
  allow; `TypeCorrect` bounds both walks.
* `RankingFair`: sorting puts each finding in one place. The number of findings that
  come before one is an injection of 1..N into 1..N, so it is onto, and the returned list
  is in order (`AreRanked`). A weighted mean of what is present lies between the least and
  the greatest, and a hypothesis that dominates another in every component, with the same
  ones present, is not ranked below it, for every choice of the rounding.

Induction over finite sets and natural numbers is done by a smallest counterexample
(`FiniteOrders`: `SmallestSubset`, `LeastNatural`), since the theorems of the library that
take a predicate cannot be instantiated; the recursive function inside `Above` is shown to
exist and to have its equation in the same way.

**Left to TLC.** Liveness, because the prover handles neither fairness nor `ENABLED`:
`SavesReturn` and `LockIsFreed` (`TraceStore`), `AllDelivered` (`OtlpIngest`), `RequestsEnd`
(`Analysis`). And the five violations, which are counterexamples.

## 5. Not modelled

* **Text**: attribute values, messages, JSON, ISO timestamps, HTML. `list_traces` orders
  timestamps as text, which is their order in time only if they have one offset. The
  OTLP attributes that give a span its type, input and output are read and stored, and
  nothing the properties say depends on them.
* **A `TraceContext` or `SpanContext` entered while it is open.** The second `__enter__`
  overwrites the one token the object keeps, and which `reset` then raises depends on the
  order of the exits. The host is taken to leave the block first; using the object again
  later is modelled. `__exit__` is called by `with` alone, never by hand or out of order.
* **The construction of an exporter and of a store.** The directory and the tables are
  there before the first export; `mkdir` and `CREATE TABLE IF NOT EXISTS` can raise into
  the host, outside the `try` of `export`.
* **The times of an OTLP trace that came in several batches.** They are those of one of
  them, which the model follows and no property speaks of.
* **Replays among the analysed executions.** A replay that is saved is an execution like
  any other and may become a baseline. In `Analysis` it is one of the documents that are
  saved; the chain of replays is in `Replay`. The product of the two is too large to
  check.
* **Queries of the graph** by type, relationship, window and neighbours: filters without
  state.
* **Annotations of spans** (`set_attribute`, events, input, output): they touch no status,
  parent or list.
* **The prompt, and the parsing of what a model answers**: `NoReply` is every answer that
  is refused before its citations are looked at.
* **Semantic conventions** are a table of attribute names, the **Inspect AI integration**
  copies fields of a trace into a sample, the **Graphify adapter** a wrapper of an external command,
  `serve`, `init` and `inspect` start, create or print.

## 6. Plan

In this order; the most important behaviour came first.

1. *Done*: store, SDK with both exporters, ingest by both protocols, replay, analysis with
   its commands and page, evaluation, graph and ranking; the refinements `SavesAreAtomic`
   and `IngestDelivers`; proofs of every safety and action property of the passing runs.
2. **Signature**: that `Compare` of two equal signatures finds nothing and that
   `Evaluate` of no assertions passes, as lemmas about `Executions`; that a confidence stays
   between 0 and 100.
3. **Progress without fairness**: that the bounded walks of `RootCause` and the counts of a
   request go down with every step, as action properties that can be proved. With weak
   fairness they give `RequestsEnd`, which the prover cannot conclude.
4. **Weaker hypotheses**: `StoredTracesAreComplete` for hosts that hold on to traces but
   leave every span first, in place of `Joined`; `FailuresReachTraces` for threads that are
   joined while traces are nested.

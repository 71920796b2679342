------------------------------ MODULE Analysis ------------------------------
(***************************************************************************)
(* What reads the store to judge an execution: the analyze, root-cause and *)
(* explain handlers of api/routes.py, the detail page of ui/routes.py, and *)
(* the analyze and test commands, with baseline/engine.py,                 *)
(* rootcause/engine.py and llm/explain.py.  An analysis reads its trace,   *)
(* then the newest successes, one of them as a baseline, then the newest   *)
(* executions one by one, and most do the first part twice; a test run     *)
(* reads the traces of its cases.  Every read is a transaction of its own, *)
(* so exporters may save between any two.  Nothing is written.             *)
(***************************************************************************)
EXTENDS Executions, FiniteSets

CONSTANTS
    TraceIds,     \* the ids of traces
    Docs,         \* the documents that exporters save
    Cases,        \* the test cases of the directory, in the order of their files
    Lookback,     \* how many traces are listed
    Handlers      \* the requests and commands that may run at a time

\* The finding about a field of the signature is named by the field.
BaselineRules == ChangeFields \cup ListFields \cup MeasureFields

\* A test case names a trace and holds assertions, possibly none.
TestCase == [trace: TraceIds, assertions: SUBSET Assertion]

ASSUME TimesAssumption == Times \subseteq Nat
ASSUME DocsAssumption == \A d \in Docs : d.trace \in TraceIds /\ d.row \in Row
ASSUME CasesAssumption == Cases \in Seq(TestCase)
ASSUME LookbackAssumption == Lookback \in Nat \ {0}
ASSUME RulesAssumption == Rules \cap BaselineRules = {} /\ IsFiniteSet(TraceIds)
ASSUME NoneAssumption == None \notin TraceIds \cup Row

VARIABLES
    traces,    \* the stored traces as get_trace returns them
    request,   \* per handler: the analysis or the test run it is in
    quiet      \* history: the handlers in whose request nothing was saved

vars == <<traces, request, quiet>>

Init ==
    /\ traces  = [t \in TraceIds |-> None]
    /\ request = [h \in Handlers |-> None]
    /\ quiet   = {}

-----------------------------------------------------------------------------
(* Lists and baselines *)

Stored == {t \in TraceIds : traces[t] # None}

Newest(S) == CHOOSE t \in S : \A u \in S : traces[t].start >= traces[u].start

\* Mutant of Page: no LIMIT.
WholeList(S) == S

\* LIMIT: the newest rows.  The same query on the same tables picks the same ones of
\* those that start together.
Page(S) ==
    CHOOSE P \in SUBSET S :
        /\ Cardinality(P) = IF Cardinality(S) < Lookback THEN Cardinality(S) ELSE Lookback
        /\ \A p \in P, q \in S \ P : traces[p].start >= traces[q].start

Successes(name) == {t \in Stored : traces[t].ok /\ traces[t].name = name}

\* find_baseline
Prior(q, S) == {t \in S : t # q.trace /\ traces[t].start < q.read.start}

\* The candidates of historical_rule_frequencies.
History(q) == Page({t \in Stored : traces[t].name = q.read.name}) \ {q.trace}

Differs(a, b)   == a # None /\ b # None /\ a # b
\* _REGRESSION_FACTOR is 1.5.
Regressed(a, b) == a # None /\ b # None /\ b > 0 /\ 2 * a > 3 * b

\* Findings are a function from their ids to their evidence.  A finding_id is a hash of
\* the rule and of nodes of the trace, so it does not depend on the baseline.
Ids(findings) == DOMAIN findings
NoFindings == << >>

\* _change_finding and _regression_finding: what was, in which execution, and what is.
ChangeFinding(f, current, previous, baseline) ==
    [previous |-> previous[f], current |-> current[f], baseline |-> baseline]

\* compare_to_baseline
Compare(current, previous, baseline) ==
    [f \in {f \in ChangeFields : Differs(current[f], previous[f])}
           \cup {f \in ListFields : current[f] # previous[f]}
           \cup {f \in MeasureFields : Regressed(current[f], previous[f])}
       |-> ChangeFinding(f, current, previous, baseline)]

\* The findings of the rules and those about the baseline, as one list.
Together(found, changed) ==
    [f \in Ids(found) \cup Ids(changed) |-> IF f \in Ids(found) THEN found[f] ELSE changed[f]]

-----------------------------------------------------------------------------

\* save_trace: the start of a trace is that of its first save; its spans are all
\* named again.  Mutant of Save: the start is overwritten as well.
SaveMoves(d) == traces' = [traces EXCEPT ![d.trace] = d.row]

Save(d) ==
    traces' = [traces EXCEPT ![d.trace] =
        IF @ = None THEN d.row ELSE [d.row EXCEPT !.start = traces[d.trace].start]]

Export(d) ==
    /\ Save(d)
    /\ quiet' = {}
    /\ UNCHANGED request

\* The trace is read and the rules run on it; when one raises, the request is over.
Fetch(h, t, kind) ==
    /\ request[h] = None
    /\ t \in Stored
    /\ traces[t].fires # Raises
    /\ request' = [request EXCEPT ![h] =
         [kind      |-> kind,
          trace     |-> t,
          read      |-> traces[t],
          at        |-> "list",
          ranking   |-> kind = "root-cause",
          candidate |-> None,      \* the baseline that was picked from the list
          baseline  |-> None,      \* the baseline as it was read
          findings  |-> NoFindings,        \* what analyze returns and the model is given
          ranked    |-> NoFindings,        \* the findings that hypotheses are made of
          left      |-> {},        \* executions still to be looked at
          seen      |-> 0,
          counts    |-> [r \in Rules |-> 0],
          cited     |-> {}]]
    /\ quiet' = quiet \cup {h}
    /\ UNCHANGED traces

At(h, step) == request[h] # None /\ request[h].at = step

\* Mutant of RuleFindings: the rules run on the trace as it is stored now.
RuleFindingsNow(q) ==
    IF traces[q.trace].fires = Raises THEN NoFindings
    ELSE [r \in traces[q.trace].fires |-> None]

\* run_rules; what the evidence of a rule is is left out.
RuleFindings(q) == [r \in q.read.fires |-> None]

\* Mutant of Rank: only the findings of the rules are ranked.
RankRules(q) == [q EXCEPT !.at = "history", !.ranking = TRUE, !.ranked = RuleFindings(q)]

\* rank_root_causes starts over: the findings are computed once more.
Rank(q) == [q EXCEPT !.at = "list", !.ranking = TRUE]

Done(q) == [q EXCEPT !.at = "answer"]

\* What each of them does with its findings.  Those of the root-cause handler are its
\* hypotheses alone; the page shows the hypotheses even of no findings; the command asks
\* the model with --explain, which makes it an "explain".
AnalyzeTrace(q)   == Done(q)
ExplainTrace(q)   == IF q.findings = NoFindings THEN Done(q) ELSE Rank(q)
AnalyzeCommand(q) == IF q.findings = NoFindings THEN Done(q) ELSE Rank(q)
RequestDetail(q)  == Rank(q)

\* Mutant of WithFindings: the request forgets that it has got this far.
AskAgain(q, changed) == [q EXCEPT !.findings = Together(RuleFindings(q), changed), !.at = "list"]

\* The request once the findings about the baseline are known.
WithFindings(q, changed) ==
    LET all  == Together(RuleFindings(q), changed)
        told == [q EXCEPT !.findings = all]
    IN  IF q.ranking THEN [q EXCEPT !.ranked = all, !.at = "history"]
        ELSE CASE q.kind = "analyze" -> AnalyzeTrace(told)
               [] q.kind = "explain" -> ExplainTrace(told)
               [] q.kind = "report"  -> AnalyzeCommand(told)
               [] q.kind = "page"    -> RequestDetail(told)

\* find_baseline up to the choice of a candidate.
ListSuccesses(h) ==
    /\ At(h, "list")
    /\ LET q     == request[h]
           prior == Prior(q, Page(Successes(q.read.name)))
       IN  request' = [request EXCEPT ![h] =
             IF prior = {}
             THEN WithFindings([q EXCEPT !.candidate = None, !.baseline = None], NoFindings)
             ELSE [q EXCEPT !.candidate = Newest(prior), !.at = "baseline"]]
    /\ UNCHANGED <<traces, quiet>>

\* get_trace of the candidate and compare_to_baseline; the request is over when one of
\* the two has no signature.
GetBaseline(h) ==
    /\ At(h, "baseline")
    /\ LET q   == request[h]
           row == traces[q.candidate]
       IN  request' = [request EXCEPT ![h] =
             IF HasSignature(q.read) /\ HasSignature(row)
             THEN WithFindings([q EXCEPT !.baseline = row],
                               Compare(Signature(q.read), Signature(row), q.candidate))
             ELSE None]
    /\ UNCHANGED <<traces, quiet>>

\* Where a ranking goes when the history is known.
Ranked(q) == [q EXCEPT !.at = IF q.left # {} THEN "count"
                              ELSE IF q.kind = "explain" THEN "model" ELSE "answer"]

ListHistory(h) ==
    /\ At(h, "history")
    /\ LET q == request[h]
       IN  request' = [request EXCEPT ![h] = Ranked([q EXCEPT !.left = History(q)])]
    /\ UNCHANGED <<traces, quiet>>

\* One round of historical_rule_frequencies; a rule that raises ends the request.
CountOne(h) ==
    /\ At(h, "count")
    /\ LET q   == request[h]
           t   == Newest(q.left)
           row == traces[t]
       IN  request' = [request EXCEPT ![h] =
             IF row.fires = Raises THEN None
             ELSE Ranked([q EXCEPT
                    !.left   = @ \ {t},
                    !.seen   = @ + 1,
                    !.counts = [r \in Rules |-> IF r \in row.fires THEN @[r] + 1 ELSE @[r]]])]
    /\ UNCHANGED <<traces, quiet>>

ValidIds(q) == Ids(q.findings)

\* The ids that the model is shown; an id that it invents is refused like one of them
\* that is not valid.
Shown(q) == Ids(q.findings) \cup Ids(q.ranked)

\* The model answers with citations; one that is not valid is an error.
Reply(h) ==
    /\ At(h, "model")
    /\ \E cited \in SUBSET Shown(request[h]) :
         request' = [request EXCEPT ![h] =
           IF cited \subseteq ValidIds(request[h])
           THEN [request[h] EXCEPT !.cited = cited, !.at = "answer"]
           ELSE None]
    /\ UNCHANGED <<traces, quiet>>

\* The model is not available or what it answers is not of the form asked for.
NoReply(h) ==
    /\ At(h, "model")
    /\ request' = [request EXCEPT ![h] = None]
    /\ UNCHANGED <<traces, quiet>>

-----------------------------------------------------------------------------
(* The test command *)

StartTests(h) ==
    /\ request[h] = None
    /\ request' = [request EXCEPT ![h] =
         [kind |-> "test", done |-> 0, passed |-> TRUE,
          at   |-> IF Cases = << >> THEN "answer" ELSE "case"]]
    /\ quiet' = quiet \cup {h}
    /\ UNCHANGED traces

\* Mutant of AllPassed: the last case decides.
LastPassed(before, now) == now

AllPassed(before, now) == before /\ now

\* One case: a trace that is not there fails it, a rule that raises ends the run.
NextCase(h) ==
    /\ At(h, "case")
    /\ LET q    == request[h]
           case == Cases[q.done + 1]
           row  == traces[case.trace]
       IN  request' = [request EXCEPT ![h] =
             IF row # None /\ row.fires = Raises THEN None
             ELSE [q EXCEPT
                    !.done   = @ + 1,
                    !.passed = AllPassed(@, row # None /\ Evaluate(row, case)),
                    !.at     = IF q.done + 1 = Len(Cases) THEN "answer" ELSE "case"]]
    /\ UNCHANGED <<traces, quiet>>

-----------------------------------------------------------------------------

Respond(h) ==
    /\ At(h, "answer")
    /\ request' = [request EXCEPT ![h] = None]
    /\ UNCHANGED <<traces, quiet>>

Continue(h) ==
    \/ ListSuccesses(h)
    \/ GetBaseline(h)
    \/ ListHistory(h)
    \/ CountOne(h)
    \/ Reply(h)
    \/ NoReply(h)
    \/ NextCase(h)
    \/ Respond(h)

Kinds == {"analyze", "root-cause", "explain", "report", "page"}

Next ==
    \/ \E d \in Docs : Export(d)
    \/ \E h \in Handlers :
         \/ \E t \in TraceIds, kind \in Kinds : Fetch(h, t, kind)
         \/ StartTests(h)
         \/ Continue(h)

Spec == Init /\ [][Next]_vars

\* The thread of a request is scheduled, and sqlite3 and the HTTP client bound the
\* waits for the tables and for the model.
FairSpec == Spec /\ \A h \in Handlers : WF_vars(Continue(h))

-----------------------------------------------------------------------------
(* Properties *)

FindingIds == Rules \cup BaselineRules

AreFindings(found) ==
    /\ Ids(found) \subseteq FindingIds
    /\ \A f \in Ids(found) \ Rules : found[f].baseline \in TraceIds

IsAnalysis(q) ==
    /\ q.trace \in TraceIds /\ q.read \in Row
    /\ q.at \in {"list", "baseline", "history", "count", "model", "answer"}
    /\ q.ranking \in BOOLEAN
    /\ q.candidate \in TraceIds \cup {None} /\ q.baseline \in Row \cup {None}
    /\ AreFindings(q.findings) /\ AreFindings(q.ranked)
    /\ q.left \subseteq TraceIds /\ q.seen \in 0..Lookback
    /\ q.counts \in [Rules -> 0..Lookback]
    /\ q.cited \subseteq FindingIds

TestRun == [kind: {"test"}, done: 0..Len(Cases), passed: BOOLEAN, at: {"case", "answer"}]

TypeOK ==
    /\ traces \in [TraceIds -> Row \cup {None}]
    /\ \A h \in Handlers :
          \/ request[h] = None
          \/ request[h].kind \in Kinds /\ IsAnalysis(request[h])
          \/ request[h] \in TestRun
    /\ quiet \subseteq Handlers

\* The handlers in an analysis.
Analysing == {h \in Handlers : request[h] # None /\ request[h].kind \in Kinds}

InRequest(P(_)) == \A h \in Analysing : P(request[h])

\* A trace is compared with another one that began before it, although it is the
\* summary that was compared and the trace was read later (find_baseline).
ComparedWithPrior(q) ==
    q.baseline # None => q.candidate # q.trace /\ q.baseline.start < q.read.start

\* Unless something is saved during the request, that one succeeded and is of the same
\* workflow; a save between the list and the read may have made it a failure or another
\* workflow's.
ComparedWithSuccess(q) ==
    q.baseline # None => q.baseline.ok /\ q.baseline.name = q.read.name

BaselineIsPrior ==
    /\ InRequest(ComparedWithPrior)
    /\ \A h \in quiet \cap Analysing : ComparedWithSuccess(request[h])

\* What the rules found is the same in the findings and in the hypotheses of one
\* request, whatever is saved while it runs, and so is what an explanation cites of
\* it: "finding_id stays a stable reference" (Finding, explain_trace).
RuleFindingsMatch(q) ==
    q.ranking /\ q.at \in {"model", "answer"} /\ q.kind # "root-cause" =>
        /\ Ids(q.findings) \cap Rules = Ids(q.ranked) \cap Rules
        /\ q.cited \cap Rules \subseteq Ids(q.ranked)
RulesAgree == InRequest(RuleFindingsMatch)

\* When nothing is saved during a request, its findings and hypotheses are the same down
\* to the evidence, so that every id in the model's input may be cited for what both say
\* (explain_trace, request_detail).
QuietRequestsAgree ==
    \A h \in quiet \cap Analysing :
        LET q == request[h]
        IN  q.ranking /\ q.at \in {"model", "answer"} /\ q.kind # "root-cause" =>
                q.findings = q.ranked

\* A test run over which nothing is saved is a gate: it ends with success if and only
\* if the trace of every case is stored and all assertions of the case hold of it
\* (test_command: "Exits non-zero if any test case fails, for CI gating").
GateIsSound ==
    \A h \in quiet : request[h] # None /\ request[h].kind = "test" /\ request[h].at = "answer" =>
        LET Holds(case) == traces[case.trace] # None /\ Evaluate(traces[case.trace], case)
        IN  request[h].passed <=> \A case \in Range(Cases) : Holds(case)

\* Every analysis and every test run comes to an end while exporters go on saving.
RequestsEnd == \A h \in Handlers : (request[h] # None) ~> (request[h] = None)

\* "Most recent prior successful execution of the same named workflow, or None"
\* (find_baseline).
LatestPrior(q) ==
    LET prior == Prior(q, Successes(q.read.name))
    IN  q.candidate = IF prior = {} THEN None ELSE Newest(prior)
BaselineIsLatest ==
    \A h \in quiet \cap Analysing : request[h].at \in {"history", "answer"} =>
        LatestPrior(request[h])
=============================================================================

--------------------------- MODULE AnalysisProofs ---------------------------
(***************************************************************************)
(* Theorems of Analysis for every set of traces, documents, rules, test    *)
(* cases and handlers, and every length of the lists.                      *)
(***************************************************************************)
EXTENDS Analysis, FiniteOrders

-----------------------------------------------------------------------------
(* Lists and baselines *)

StoreOK == traces \in [TraceIds -> Row \cup {None}]

LEMMA StoredRows ==
    ASSUME StoreOK
    PROVE  /\ Stored \subseteq TraceIds
           /\ \A t \in Stored : traces[t] \in Row /\ traces[t].start \in Int
<1>1. ASSUME NEW r \in Row
      PROVE  r.start \in Int
  <2>1. r.start \in Times
    BY DEF Row
  <2>2. \A x \in Times : x \in Int
    BY TimesAssumption
  <2> QED
    BY <2>1, <2>2
<1> QED
  BY <1>1 DEF StoreOK, Stored

\* The newest of a list is in the list.
LEMMA NewestIsOne ==
    ASSUME StoreOK, NEW S \in SUBSET Stored, S # {}
    PROVE  Newest(S) \in S
<1> DEFINE key == [t \in S |-> traces[t].start]
<1>1. IsFiniteSet(S)
  BY StoredRows, FS_Subset, RulesAssumption
<1>2. \A t \in S : key[t] \in Int
  BY StoredRows
<1>3. \E t \in S : \A u \in S : key[t] >= key[u]
  <2> HIDE DEF key
  <2> QED
    BY <1>1, <1>2, GreatestKey
<1>4. \E t \in S : \A u \in S : traces[t].start >= traces[u].start
  BY <1>3
<1> QED
  BY <1>4 DEF Newest

\* A page is a part of the list, and its limit is kept.
LEMMA PageIsPart ==
    ASSUME StoreOK, NEW S \in SUBSET Stored
    PROVE  /\ Page(S) \in SUBSET S
           /\ IsFiniteSet(Page(S))
           /\ Cardinality(Page(S)) <= Lookback
<1> DEFINE key == [t \in S |-> traces[t].start]
           limit == IF Cardinality(S) < Lookback THEN Cardinality(S) ELSE Lookback
<1>1. IsFiniteSet(S)
  BY StoredRows, FS_Subset, RulesAssumption
<1>2. \A t \in S : key[t] \in Int
  BY StoredRows
<1>3. limit \in Nat /\ limit <= Cardinality(S) /\ limit <= Lookback
  BY <1>1, FS_CardinalityType, LookbackAssumption
<1>4. \E P \in SUBSET S :
         Cardinality(P) = limit /\ \A p \in P, q \in S \ P : key[p] >= key[q]
  <2> HIDE DEF key, limit
  <2> QED
    BY <1>1, <1>2, <1>3, TopPart
<1>5. \E P \in SUBSET S :
         /\ Cardinality(P) = limit
         /\ \A p \in P, q \in S \ P : traces[p].start >= traces[q].start
  BY <1>4
<1>6. Page(S) \in SUBSET S /\ Cardinality(Page(S)) = limit
  BY <1>5 DEF Page
<1> QED
  BY <1>1, <1>3, <1>6, FS_Subset

-----------------------------------------------------------------------------
(* The inductive invariant *)

Fields == {"kind", "trace", "read", "at", "ranking", "candidate", "baseline",
           "findings", "ranked", "left", "seen", "counts", "cited"}

IsOne(q) == DOMAIN q = Fields /\ q.kind \in Kinds /\ IsAnalysis(q)

\* What an analysis knows by itself: the rules found what they find in the trace it
\* has read, once the findings, and once the ranked findings, are there.
Coherent(q) ==
    /\ q.read.fires \subseteq Rules
    /\ ComparedWithPrior(q)
    /\ q.kind = "root-cause" \/ q.at \in {"history", "count", "model"} => q.ranking
    /\ q.kind # "root-cause" /\ q.ranking => Ids(q.findings) \cap Rules = q.read.fires
    /\ q.ranking /\ q.at \notin {"list", "baseline"} => Ids(q.ranked) \cap Rules = q.read.fires
    /\ q.cited \subseteq Ids(q.findings)
    /\ q.at \in {"list", "baseline", "history"} => q.left = {} /\ q.seen = 0 /\ q.cited = {}

\* The executions that have been looked at and those that are left are no more than
\* one page, and no rule is counted more often than executions were looked at.
Bounded(q) ==
    /\ IsFiniteSet(q.left)
    /\ Cardinality(q.left) + q.seen <= Lookback
    /\ \A r \in Rules : q.counts[r] <= q.seen

\* What it knows of the store: a candidate began before the trace was read, and still
\* does, since a save does not touch the start of a stored trace.
OnStore(q) ==
    /\ q.at = "baseline" =>
         /\ q.candidate \in Stored /\ q.candidate # q.trace
         /\ traces[q.candidate].start < q.read.start
    /\ q.at = "count" => q.left # {}
    /\ q.left \subseteq Stored

\* What find_baseline and compare_to_baseline would conclude from the store as it is.
Candidates(q) == Prior(q, Page(Successes(q.read.name)))

Changed(q) ==
    IF Candidates(q) = {} THEN NoFindings
    ELSE Compare(Signature(q.read), Signature(traces[Newest(Candidates(q))]),
                 Newest(Candidates(q)))

Judged(q) == Together(RuleFindings(q), Changed(q))

\* An analysis during which nothing was saved has concluded just that, each time.
Undisturbed(q) ==
    /\ q.read = traces[q.trace]
    /\ ComparedWithSuccess(q)
    /\ q.at = "baseline" => Candidates(q) # {} /\ q.candidate = Newest(Candidates(q))
    /\ q.kind # "root-cause" /\ q.ranking => q.findings = Judged(q)
    /\ q.ranking /\ q.at \notin {"list", "baseline"} => q.ranked = Judged(q)

\* A test run has done some of the cases, or all of them.
IsTesting(q) ==
    /\ q \in TestRun
    /\ q.at = "case" => q.done < Len(Cases)
    /\ q.at = "answer" => q.done = Len(Cases)

Holds(case) == traces[case.trace] # None /\ Evaluate(traces[case.trace], case)

\* ... and, if nothing was saved meanwhile, knows what holds of them now.
KnowsCases(q) == q.passed <=> \A i \in 1..q.done : Holds(Cases[i])

Sound(q) ==
    \/ q = None
    \/ IsOne(q) /\ Coherent(q) /\ Bounded(q) /\ OnStore(q)
    \/ IsTesting(q)

Calm(q) ==
    \/ q = None
    \/ q.kind \in Kinds /\ Undisturbed(q)
    \/ q.kind = "test" /\ KnowsCases(q)

IInv ==
    /\ StoreOK
    /\ DOMAIN request = Handlers
    /\ quiet \subseteq Handlers
    /\ \A h \in Handlers : Sound(request[h])
    /\ \A h \in quiet : Calm(request[h])

-----------------------------------------------------------------------------
(* Findings *)

LEMMA NothingFound == AreFindings(NoFindings) /\ Ids(NoFindings) = {}
BY DEF AreFindings, NoFindings, Ids

\* A comparison finds nothing that is a rule's, and names the baseline.
LEMMA ComparedFindings ==
    ASSUME NEW current, NEW previous, NEW t \in TraceIds
    PROVE  LET found == Compare(current, previous, t)
           IN  Ids(found) \subseteq BaselineRules
               /\ \A f \in Ids(found) : found[f].baseline \in TraceIds
BY DEF Compare, ChangeFinding, Ids, BaselineRules, ChangeFields, ListFields, MeasureFields

\* What the rules found is neither lost nor joined by what the comparison found.
LEMMA JoinedFindings ==
    ASSUME NEW q, q.read.fires \subseteq Rules,
           NEW changed, Ids(changed) \subseteq BaselineRules,
           \A f \in Ids(changed) : changed[f].baseline \in TraceIds
    PROVE  /\ AreFindings(Together(RuleFindings(q), changed))
           /\ Ids(Together(RuleFindings(q), changed)) \cap Rules = q.read.fires
<1> DEFINE all == Together(RuleFindings(q), changed)
<1>1. /\ Ids(all) = q.read.fires \cup Ids(changed)
      /\ \A f \in Ids(changed) \ q.read.fires : all[f] = changed[f]
  BY DEF Ids, RuleFindings, Together
<1>2. Ids(changed) \cap Rules = {}
  BY RulesAssumption
<1> HIDE DEF all
<1>3. AreFindings(all)
  BY <1>1, <1>2 DEF AreFindings, FindingIds
<1>4. Ids(all) \cap Rules = q.read.fires
  BY <1>1, <1>2
<1> QED
  BY <1>3, <1>4 DEF all

\* What find_baseline and compare_to_baseline conclude depends on the trace as it was
\* read and on the store.
LEMMA SameTrace ==
    ASSUME NEW q, NEW r, r.trace = q.trace, r.read = q.read
    PROVE  /\ RuleFindings(r) = RuleFindings(q)
           /\ Candidates(r) = Candidates(q)
           /\ Judged(r) = Judged(q)
<1>1. RuleFindings(r) = RuleFindings(q)
  BY DEF RuleFindings
<1>2. Candidates(r) = Candidates(q)
  BY DEF Candidates, Prior
<1> QED
  BY <1>1, <1>2 DEF Judged, Changed

LEMMA SameStore ==
    ASSUME traces' = traces, NEW q
    PROVE  /\ Sound(q)' <=> Sound(q)
           /\ Calm(q)' <=> Calm(q)
<1>1. Stored' = Stored
  BY DEF Stored
<1>2. Candidates(q)' = Candidates(q)
  BY DEF Candidates, Prior, Page, Successes, Stored
<1>3. Judged(q)' = Judged(q)
  BY <1>2 DEF Judged, Changed, Newest
<1>4. KnowsCases(q)' = KnowsCases(q)
  BY DEF KnowsCases, Holds
<1>5. Undisturbed(q)' = Undisturbed(q)
  BY <1>2, <1>3 DEF Undisturbed, Newest
<1>6. OnStore(q)' = OnStore(q)
  BY <1>1 DEF OnStore
<1> QED
  BY <1>4, <1>5, <1>6 DEF Sound, Calm, IsOne, IsTesting, Coherent, Bounded

-----------------------------------------------------------------------------
(* What a request does with its findings *)

\* An analysis that has its findings ranks them, answers, or starts over to rank them.
LEMMA WithFindingsForms ==
    ASSUME NEW q, q.kind \in Kinds, q.kind = "root-cause" => q.ranking, q.ranking \in BOOLEAN,
           NEW changed
    PROVE  LET all == Together(RuleFindings(q), changed)
               r   == WithFindings(q, changed)
           IN  \/ q.ranking /\ r = [q EXCEPT !.ranked = all, !.at = "history"]
               \/ ~ q.ranking /\ r = [q EXCEPT !.findings = all, !.at = "answer"]
               \/ ~ q.ranking /\ r = [q EXCEPT !.findings = all, !.at = "list", !.ranking = TRUE]
<1> DEFINE all == Together(RuleFindings(q), changed)
           told == [q EXCEPT !.findings = all]
<1>1. told.kind = q.kind
  OBVIOUS
<1>2. Done(told) = [q EXCEPT !.findings = all, !.at = "answer"]
  BY DEF Done
<1>3. Rank(told) = [q EXCEPT !.findings = all, !.at = "list", !.ranking = TRUE]
  BY DEF Rank
<1>4. CASE q.ranking
  BY <1>4 DEF WithFindings
<1>5. CASE ~ q.ranking
  <2>1. WithFindings(q, changed) \in {Done(told), Rank(told)}
    BY <1>5 DEF WithFindings, Kinds, AnalyzeTrace, ExplainTrace, AnalyzeCommand, RequestDetail
  <2> QED
    BY <1>2, <1>3, <1>5, <2>1
<1> QED
  BY <1>4, <1>5

\* All of them keep an analysis sound, ...
LEMMA WithFindingsSound ==
    ASSUME NEW q, IsOne(q), Coherent(q), Bounded(q), q.at \in {"list", "baseline"},
           ComparedWithPrior(q),
           NEW changed, Ids(changed) \subseteq BaselineRules,
           \A f \in Ids(changed) : changed[f].baseline \in TraceIds
    PROVE  Sound(WithFindings(q, changed))
<1> DEFINE all == Together(RuleFindings(q), changed)
           r   == WithFindings(q, changed)
<1>1. AreFindings(all) /\ Ids(all) \cap Rules = q.read.fires
  BY JoinedFindings DEF Coherent
<1>2. DOMAIN q = Fields /\ q.kind \in Kinds /\ IsAnalysis(q)
  BY DEF IsOne
<1>3. \/ q.ranking /\ r = [q EXCEPT !.ranked = all, !.at = "history"]
      \/ ~ q.ranking /\ r = [q EXCEPT !.findings = all, !.at = "answer"]
      \/ ~ q.ranking /\ r = [q EXCEPT !.findings = all, !.at = "list", !.ranking = TRUE]
  BY <1>2, WithFindingsForms DEF Coherent, IsAnalysis
<1> HIDE DEF all, r
<1>4. /\ DOMAIN r = Fields
      /\ \A f \in Fields \ {"at", "ranking", "findings", "ranked"} : r[f] = q[f]
  BY <1>2, <1>3 DEF Fields
<1>5. r.at \in {"list", "history", "answer"}
  BY <1>2, <1>3 DEF Fields
<1>6. /\ r.ranking = (q.ranking \/ r.at = "list")
      /\ r.at = "history" <=> q.ranking
      /\ r.ranked = IF q.ranking THEN all ELSE q.ranked
      /\ r.findings = IF q.ranking THEN q.findings ELSE all
  BY <1>2, <1>3 DEF Fields, IsAnalysis
<1>7. IsOne(r)
  BY <1>1, <1>2, <1>4, <1>5, <1>6 DEF IsOne, IsAnalysis, Fields
<1>8. Coherent(r)
  BY <1>1, <1>2, <1>4, <1>5, <1>6 DEF Coherent, ComparedWithPrior, Fields, IsAnalysis
<1>9. Bounded(r) /\ OnStore(r)
  BY <1>4, <1>5 DEF Bounded, OnStore, Fields, Coherent
<1> QED
  BY <1>7, <1>8, <1>9 DEF Sound, r

\* ... and one that concludes what the store says undisturbed.
LEMMA WithFindingsCalm ==
    ASSUME NEW q, IsOne(q), Coherent(q), q.at \in {"list", "baseline"}, Undisturbed(q),
           NEW b, b # None => b.ok /\ b.name = q.read.name, NEW c
    PROVE  LET e == [q EXCEPT !.candidate = c, !.baseline = b]
           IN  Calm(WithFindings(e, Changed(q)))
<1> DEFINE e == [q EXCEPT !.candidate = c, !.baseline = b]
           all == Together(RuleFindings(e), Changed(q))
           r   == WithFindings(e, Changed(q))
<1>1. DOMAIN q = Fields /\ q.kind \in Kinds /\ IsAnalysis(q)
  BY DEF IsOne
<1>2. /\ DOMAIN e = Fields
      /\ \A f \in Fields \ {"candidate", "baseline"} : e[f] = q[f]
      /\ e.baseline = b
  BY <1>1 DEF Fields
<1> HIDE DEF e
<1>3. \/ e.ranking /\ r = [e EXCEPT !.ranked = all, !.at = "history"]
      \/ ~ e.ranking /\ r = [e EXCEPT !.findings = all, !.at = "answer"]
      \/ ~ e.ranking /\ r = [e EXCEPT !.findings = all, !.at = "list", !.ranking = TRUE]
  <2>1. e.kind \in Kinds /\ e.ranking \in BOOLEAN /\ (e.kind = "root-cause" => e.ranking)
    BY <1>1, <1>2 DEF Coherent, IsAnalysis, Fields
  <2> QED
    BY <2>1, WithFindingsForms
<1> HIDE DEF r, all
<1>4. /\ r.trace = q.trace /\ r.read = q.read /\ r.kind = q.kind /\ r.baseline = b
      /\ r.at \in {"list", "history", "answer"}
  BY ZenonT(40), <1>2, <1>3 DEF Fields
<1>5. /\ r.ranked = IF q.ranking THEN all ELSE q.ranked
      /\ r.findings = IF q.ranking THEN q.findings ELSE all
      /\ r.ranking = (q.ranking \/ r.at = "list")
  BY <1>1, <1>2, <1>3 DEF Fields, IsAnalysis
<1>6. all = Judged(q) /\ Judged(r) = Judged(q)
  <2>1. e.trace = q.trace /\ e.read = q.read
    BY <1>2 DEF Fields
  <2> QED
    BY <1>4, <2>1, SameTrace DEF Judged, all
<1>7. r.ranking /\ r.at \notin {"list", "baseline"} => q.ranking
  BY <1>4, <1>5
<1>8. Undisturbed(r)
  BY <1>4, <1>5, <1>6, <1>7 DEF Undisturbed, ComparedWithSuccess
<1> QED
  BY <1>1, <1>4, <1>8 DEF Calm, r, e

-----------------------------------------------------------------------------
(* The steps *)

\* A step of one handler keeps the invariant when what it makes of its request is sound,
\* and calm if nothing was saved meanwhile.
LEMMA OneRequest ==
    ASSUME IInv, NEW h \in Handlers, NEW r, Sound(r),
           traces' = traces, request' = [request EXCEPT ![h] = r],
           quiet' \in {quiet, quiet \cup {h}}, h \in quiet' => Calm(r)
    PROVE  IInv'
<1>1. /\ DOMAIN request' = Handlers
      /\ request'[h] = r
      /\ \A g \in Handlers : g # h => request'[g] = request[g]
  BY DEF IInv
<1>2. StoreOK' /\ quiet' \subseteq Handlers
  BY DEF IInv, StoreOK
<1>3. ASSUME NEW g \in Handlers
      PROVE  Sound(request[g])'
  <2>1. Sound(request'[g])
    BY <1>1 DEF IInv
  <2>2. \A q : Sound(q)' <=> Sound(q)
    BY SameStore
  <2> QED
    BY <2>1, <2>2
<1>4. ASSUME NEW g \in quiet'
      PROVE  Calm(request[g])'
  <2>1. Calm(request'[g])
    BY <1>1, <1>2 DEF IInv
  <2>2. \A q : Calm(q)' <=> Calm(q)
    BY SameStore
  <2> QED
    BY <2>1, <2>2
<1> QED
  BY <1>1, <1>2, <1>3, <1>4 DEF IInv

Steps == {"list", "baseline", "history", "count", "model"}

LEMMA AtStep ==
    ASSUME IInv, NEW h \in Handlers, NEW step \in Steps, At(h, step)
    PROVE  LET q == request[h]
           IN  /\ IsOne(q) /\ Coherent(q) /\ Bounded(q) /\ OnStore(q) /\ q.at = step
               /\ h \in quiet => Undisturbed(q)
<1>1. request[h] # None /\ request[h].at = step
  BY DEF At
<1>2. Sound(request[h]) /\ (h \in quiet => Calm(request[h]))
  BY DEF IInv
<1>3. ~ IsTesting(request[h])
  BY <1>1 DEF IsTesting, TestRun, Steps
<1>4. IsOne(request[h]) => request[h].kind # "test"
  BY DEF IsOne, Kinds
<1> QED
  BY <1>1, <1>2, <1>3, <1>4 DEF Sound, Calm

\* The successes before a trace are stored, and the newest is one of them.
LEMMA CandidatesArePrior ==
    ASSUME StoreOK, NEW q
    PROVE  /\ Candidates(q) \in SUBSET Stored
           /\ \A t \in Candidates(q) : /\ traces[t].ok /\ traces[t].name = q.read.name
                                       /\ t # q.trace /\ traces[t].start < q.read.start
           /\ Candidates(q) # {} => Newest(Candidates(q)) \in Candidates(q)
<1>1. Successes(q.read.name) \in SUBSET Stored
  BY DEF Successes
<1>2. Page(Successes(q.read.name)) \in SUBSET Successes(q.read.name)
  BY <1>1, PageIsPart
<1>3. /\ Candidates(q) \in SUBSET Stored
      /\ \A t \in Candidates(q) : /\ traces[t].ok /\ traces[t].name = q.read.name
                                  /\ t # q.trace /\ traces[t].start < q.read.start
  BY <1>1, <1>2 DEF Candidates, Prior, Successes
<1> QED
  BY <1>3, NewestIsOne

\* A new baseline leaves an analysis as sound as it was.
LEMMA BaselineSet ==
    ASSUME NEW q, IsOne(q), Coherent(q), Bounded(q), q.at \in {"list", "baseline"},
           NEW c \in TraceIds \cup {None}, NEW b \in Row \cup {None},
           b # None => c # q.trace /\ b.start < q.read.start
    PROVE  LET e == [q EXCEPT !.candidate = c, !.baseline = b]
           IN  /\ IsOne(e) /\ Coherent(e) /\ Bounded(e) /\ ComparedWithPrior(e)
               /\ e.at = q.at
<1> DEFINE e == [q EXCEPT !.candidate = c, !.baseline = b]
<1>1. /\ DOMAIN e = Fields
      /\ \A f \in Fields \ {"candidate", "baseline"} : e[f] = q[f]
      /\ e.candidate = c /\ e.baseline = b
  BY DEF IsOne, Fields
<1> HIDE DEF e
<1>2. IsOne(e)
  BY <1>1 DEF IsOne, IsAnalysis, Fields
<1>3. ComparedWithPrior(e)
  BY <1>1 DEF ComparedWithPrior, Fields
<1>4. Coherent(e) /\ Bounded(e) /\ e.at = q.at
  BY <1>1, <1>3 DEF Coherent, Bounded, Fields
<1> QED
  BY <1>2, <1>3, <1>4 DEF e

LEMMA ListSuccessesStep ==
    ASSUME IInv, NEW h \in Handlers, ListSuccesses(h)
    PROVE  IInv'
<1> DEFINE q == request[h]
           prior == Prior(q, Page(Successes(q.read.name)))
           e == [q EXCEPT !.candidate = None, !.baseline = None]
           picked == [q EXCEPT !.candidate = Newest(prior), !.at = "baseline"]
           r == IF prior = {} THEN WithFindings(e, NoFindings) ELSE picked
<1>1. /\ IsOne(q) /\ Coherent(q) /\ Bounded(q) /\ OnStore(q) /\ q.at = "list"
      /\ h \in quiet => Undisturbed(q)
  BY AtStep DEF ListSuccesses, Steps
<1>2. /\ request' = [request EXCEPT ![h] = r]
      /\ traces' = traces /\ quiet' = quiet
  BY DEF ListSuccesses
<1>3. prior = Candidates(q) /\ StoreOK
  BY DEF Candidates, IInv
<1> HIDE DEF q, prior
<1>4. CASE prior = {}
  <2>1. IsOne(e) /\ Coherent(e) /\ Bounded(e) /\ ComparedWithPrior(e) /\ e.at = q.at
    BY <1>1, BaselineSet
  <2>2. Sound(r)
    <3> HIDE DEF e
    <3>1. Sound(WithFindings(e, NoFindings))
      BY <1>1, <2>1, NothingFound, WithFindingsSound
    <3> QED
      BY <1>4, <3>1
  <2>3. h \in quiet => Calm(r)
    <3>1. Changed(q) = NoFindings
      BY <1>3, <1>4 DEF Changed
    <3> QED
      BY <1>1, <1>4, <3>1, WithFindingsCalm
  <2> HIDE DEF r
  <2> QED
    BY <1>2, <2>2, <2>3, OneRequest
<1>5. CASE prior # {}
  <2>1. /\ Newest(prior) \in Stored /\ Newest(prior) # q.trace
        /\ traces[Newest(prior)].start < q.read.start
    BY <1>3, <1>5, CandidatesArePrior
  <2>2. /\ DOMAIN picked = Fields
        /\ \A f \in Fields \ {"candidate", "at"} : picked[f] = q[f]
        /\ picked.candidate = Newest(prior) /\ picked.at = "baseline"
    BY <1>1 DEF IsOne, Fields
  <2>3. r = picked
    BY <1>5
  <2> HIDE DEF picked, r
  <2>4. IsOne(picked)
    BY <1>1, <2>1, <2>2, StoredRows, <1>3 DEF IsOne, IsAnalysis, Fields
  <2>5. Coherent(picked) /\ Bounded(picked) /\ OnStore(picked)
    BY <1>1, <2>1, <2>2 DEF Coherent, ComparedWithPrior, Bounded, OnStore, Fields
  <2>6. h \in quiet => Calm(picked)
    <3>1. SUFFICES ASSUME h \in quiet
                   PROVE  Calm(picked)
      OBVIOUS
    <3>2. picked.trace = q.trace /\ picked.read = q.read /\ picked.kind = q.kind
      BY <2>2 DEF Fields
    <3>3. Candidates(picked) = Candidates(q) /\ Judged(picked) = Judged(q)
      BY <3>2, SameTrace
    <3>4. Undisturbed(picked)
      BY <1>1, <1>3, <1>5, <2>2, <3>1, <3>2, <3>3
      DEF Undisturbed, ComparedWithSuccess, Fields
    <3> QED
      BY <1>1, <3>2, <3>4 DEF Calm, IsOne
  <2> QED
    BY <1>2, <2>3, <2>4, <2>5, <2>6, OneRequest DEF Sound
<1> QED
  BY <1>4, <1>5

LEMMA GetBaselineStep ==
    ASSUME IInv, NEW h \in Handlers, GetBaseline(h)
    PROVE  IInv'
<1> DEFINE q == request[h]
           row == traces[q.candidate]
           changed == Compare(Signature(q.read), Signature(row), q.candidate)
           e == [q EXCEPT !.candidate = q.candidate, !.baseline = row]
           r == IF HasSignature(q.read) /\ HasSignature(row) THEN WithFindings(e, changed)
                ELSE None
<1>1. /\ IsOne(q) /\ Coherent(q) /\ Bounded(q) /\ OnStore(q) /\ q.at = "baseline"
      /\ h \in quiet => Undisturbed(q)
  BY AtStep DEF GetBaseline, Steps
<1>2. /\ request' = [request EXCEPT ![h] = r]
      /\ traces' = traces /\ quiet' = quiet
  <2>1. [q EXCEPT !.baseline = row] = e
    BY <1>1 DEF IsOne, Fields
  <2> QED
    BY <2>1 DEF GetBaseline
<1> HIDE DEF q
<1>3. /\ q.candidate \in TraceIds /\ row \in Row
      /\ q.candidate # q.trace /\ row.start < q.read.start
  BY <1>1, StoredRows DEF OnStore, IInv
<1> HIDE DEF row
<1>4. IsOne(e) /\ Coherent(e) /\ Bounded(e) /\ ComparedWithPrior(e) /\ e.at = q.at
  BY <1>1, <1>3, BaselineSet
<1>5. Sound(r)
  <2>1. /\ Ids(changed) \subseteq BaselineRules
        /\ \A f \in Ids(changed) : changed[f].baseline \in TraceIds
    BY <1>3, ComparedFindings
  <2> HIDE DEF e, changed
  <2>2. Sound(WithFindings(e, changed)) /\ Sound(None)
    BY <1>1, <1>4, <2>1, WithFindingsSound DEF Sound
  <2> QED
    BY <2>2
<1>6. ASSUME h \in quiet
      PROVE  Calm(r)
  <2>1. Candidates(q) # {} /\ q.candidate = Newest(Candidates(q))
    BY <1>1, <1>6 DEF Undisturbed
  <2>2. changed = Changed(q)
    BY <2>1 DEF Changed, row
  <2>3. row.ok /\ row.name = q.read.name
    BY <2>1, CandidatesArePrior DEF row, IInv
  <2> HIDE DEF changed
  <2>4. Calm(WithFindings(e, changed)) /\ Calm(None)
    BY <1>1, <1>6, <2>2, <2>3, WithFindingsCalm DEF Calm
  <2> QED
    BY <2>4
<1> HIDE DEF r
<1> QED
  BY <1>2, <1>5, <1>6, OneRequest

\* A ranking that goes on with what is left of the list, having counted some of it.
LEMMA RankedSound ==
    ASSUME IInv, NEW h \in Handlers, NEW q,
           IsOne(q), Coherent(q), h \in quiet => Undisturbed(q),
           q.at \in {"history", "count"},
           NEW left \in SUBSET Stored, NEW seen \in Nat, NEW counts \in [Rules -> Nat],
           IsFiniteSet(left), Cardinality(left) + seen <= Lookback,
           \A r \in Rules : counts[r] <= seen
    PROVE  LET r == Ranked([q EXCEPT !.left = left, !.seen = seen, !.counts = counts])
           IN  Sound(r) /\ (h \in quiet => Calm(r))
<1> DEFINE r == Ranked([q EXCEPT !.left = left, !.seen = seen, !.counts = counts])
<1>1. /\ DOMAIN r = Fields
      /\ \A f \in Fields \ {"left", "seen", "counts", "at"} : r[f] = q[f]
      /\ r.left = left /\ r.seen = seen /\ r.counts = counts
      /\ r.at = IF left # {} THEN "count" ELSE IF q.kind = "explain" THEN "model" ELSE "answer"
  BY DEF IsOne, Fields, Ranked
<1> HIDE DEF r
<1>2. seen \in 0..Lookback /\ counts \in [Rules -> 0..Lookback]
  <2>1. Cardinality(left) \in Nat /\ Lookback \in Nat
    BY FS_CardinalityType, LookbackAssumption
  <2>2. seen <= Lookback
    BY <2>1
  <2>3. \A x \in Rules : counts[x] \in 0..Lookback
    BY <2>1, <2>2
  <2> QED
    BY <2>1, <2>2, <2>3
<1>3. left \subseteq TraceIds
  BY StoredRows DEF IInv
<1>4. r.at \in {"count", "model", "answer"}
  BY <1>1
<1>5. IsOne(r)
  BY <1>1, <1>2, <1>3, <1>4 DEF IsOne, IsAnalysis, Fields
<1>6. Coherent(r)
  BY <1>1, <1>4 DEF Coherent, ComparedWithPrior, Fields
<1>7. Bounded(r) /\ OnStore(r)
  BY <1>1, <1>4 DEF Bounded, OnStore
<1>8. h \in quiet => Calm(r)
  <2>1. r.trace = q.trace /\ r.read = q.read /\ r.kind = q.kind
    BY <1>1 DEF Fields
  <2>2. Judged(r) = Judged(q)
    BY <2>1, SameTrace
  <2>3. q.ranking
    BY DEF Coherent
  <2>4. h \in quiet => Undisturbed(r)
    BY <1>1, <1>4, <2>1, <2>2, <2>3 DEF Undisturbed, ComparedWithSuccess, Fields
  <2> QED
    BY <2>1, <2>4 DEF Calm, IsOne
<1> QED
  BY <1>5, <1>6, <1>7, <1>8 DEF Sound, r

LEMMA ListHistoryStep ==
    ASSUME IInv, NEW h \in Handlers, ListHistory(h)
    PROVE  IInv'
<1> DEFINE q == request[h]
           r == Ranked([q EXCEPT !.left = History(q), !.seen = q.seen, !.counts = q.counts])
<1>1. /\ IsOne(q) /\ Coherent(q) /\ Bounded(q) /\ OnStore(q) /\ q.at = "history"
      /\ h \in quiet => Undisturbed(q)
  BY AtStep DEF ListHistory, Steps
<1>2. /\ request' = [request EXCEPT ![h] = r]
      /\ traces' = traces /\ quiet' = quiet
  <2>1. [q EXCEPT !.left = History(q)]
          = [q EXCEPT !.left = History(q), !.seen = q.seen, !.counts = q.counts]
    BY <1>1 DEF IsOne, Fields
  <2> QED
    BY <2>1 DEF ListHistory
<1>3. /\ History(q) \in SUBSET Stored /\ IsFiniteSet(History(q))
      /\ Cardinality(History(q)) <= Lookback
  <2> DEFINE S == {t \in Stored : traces[t].name = q.read.name}
  <2>1. /\ Page(S) \in SUBSET S /\ IsFiniteSet(Page(S))
        /\ Cardinality(Page(S)) <= Lookback
    BY PageIsPart DEF IInv
  <2>2. IsFiniteSet(Page(S) \ {q.trace})
        /\ Cardinality(Page(S) \ {q.trace}) <= Cardinality(Page(S))
    BY <2>1, FS_Subset
  <2>3. Cardinality(Page(S)) \in Nat /\ Cardinality(Page(S) \ {q.trace}) \in Nat
    BY <2>1, <2>2, FS_CardinalityType
  <2>4. Cardinality(Page(S) \ {q.trace}) <= Lookback
    BY <2>1, <2>2, <2>3, LookbackAssumption
  <2> QED
    BY <2>1, <2>2, <2>4 DEF History
<1>4. q.seen = 0 /\ q.seen \in Nat /\ q.counts \in [Rules -> Nat] /\ \A x \in Rules : q.counts[x] <= q.seen
  BY <1>1 DEF IsOne, IsAnalysis, Coherent, Bounded
<1>5. Cardinality(History(q)) + q.seen <= Lookback
  BY <1>3, <1>4, FS_CardinalityType
<1> HIDE DEF q
<1>6. Sound(r) /\ (h \in quiet => Calm(r))
  <2>1. /\ IsOne(q) /\ Coherent(q) /\ (h \in quiet => Undisturbed(q))
        /\ q.at \in {"history", "count"}
    BY <1>1
  <2> QED
    BY <1>3, <1>4, <1>5, <2>1, RankedSound
<1> HIDE DEF r
<1> QED
  BY <1>2, <1>6, OneRequest

LEMMA CountOneStep ==
    ASSUME IInv, NEW h \in Handlers, CountOne(h)
    PROVE  IInv'
<1> DEFINE q == request[h]
           t == Newest(q.left)
           row == traces[t]
           counts == [x \in Rules |-> IF x \in row.fires THEN q.counts[x] + 1 ELSE q.counts[x]]
           r == Ranked([q EXCEPT !.left = q.left \ {t}, !.seen = q.seen + 1, !.counts = counts])
           s == IF row.fires = Raises THEN None ELSE r
<1>1. /\ IsOne(q) /\ Coherent(q) /\ Bounded(q) /\ OnStore(q) /\ q.at = "count"
      /\ h \in quiet => Undisturbed(q)
  BY AtStep DEF CountOne, Steps
<1>2. /\ request' = [request EXCEPT ![h] = s]
      /\ traces' = traces /\ quiet' = quiet
  BY DEF CountOne
<1>3. /\ q.left \in SUBSET Stored /\ q.left # {} /\ IsFiniteSet(q.left)
      /\ Cardinality(q.left) + q.seen <= Lookback
      /\ q.seen \in Nat /\ q.counts \in [Rules -> Nat]
      /\ \A x \in Rules : q.counts[x] <= q.seen
  BY <1>1 DEF OnStore, Bounded, IsOne, IsAnalysis
<1> HIDE DEF q
<1>4. t \in q.left
  BY <1>3, NewestIsOne DEF IInv
<1>5. /\ q.left \ {t} \in SUBSET Stored /\ IsFiniteSet(q.left \ {t})
      /\ Cardinality(q.left \ {t}) = Cardinality(q.left) - 1
      /\ Cardinality(q.left) \in Nat
  BY <1>3, <1>4, FS_RemoveElement, FS_CardinalityType
<1>6. /\ q.seen + 1 \in Nat /\ Cardinality(q.left \ {t}) + (q.seen + 1) <= Lookback
  BY <1>3, <1>5, LookbackAssumption
<1>7. counts \in [Rules -> Nat] /\ \A x \in Rules : counts[x] <= q.seen + 1
  BY <1>3
<1> HIDE DEF counts, t
<1>8. Sound(r) /\ (h \in quiet => Calm(r))
  BY <1>1, <1>5, <1>6, <1>7, RankedSound
<1> HIDE DEF r
<1>9. Sound(s) /\ (h \in quiet => Calm(s))
  BY <1>8 DEF Sound, Calm
<1> HIDE DEF s
<1> QED
  BY <1>2, <1>9, OneRequest

LEMMA ReplyStep ==
    ASSUME IInv, NEW h \in Handlers, Reply(h)
    PROVE  IInv'
<1> DEFINE q == request[h]
<1>1. /\ IsOne(q) /\ Coherent(q) /\ Bounded(q) /\ OnStore(q) /\ q.at = "model"
      /\ h \in quiet => Undisturbed(q)
  BY AtStep DEF Reply, Steps
<1>2. PICK cited \in SUBSET Shown(q) :
         request' = [request EXCEPT ![h] =
           IF cited \subseteq ValidIds(q) THEN [q EXCEPT !.cited = cited, !.at = "answer"]
           ELSE None]
  BY DEF Reply
<1> DEFINE answer == [q EXCEPT !.cited = cited, !.at = "answer"]
           r == IF cited \subseteq ValidIds(q) THEN answer ELSE None
<1>3. traces' = traces /\ quiet' = quiet
  BY DEF Reply
<1>4. CASE cited \subseteq ValidIds(q)
  <2>1. /\ DOMAIN answer = Fields
        /\ \A f \in Fields \ {"cited", "at"} : answer[f] = q[f]
        /\ answer.cited = cited /\ answer.at = "answer"
    BY <1>1 DEF IsOne, Fields
  <2> HIDE DEF q, answer
  <2>2. cited \subseteq FindingIds /\ cited \subseteq Ids(q.findings)
    BY <1>1, <1>4 DEF ValidIds, IsOne, IsAnalysis, AreFindings
  <2>3. IsOne(answer)
    BY <1>1, <2>1, <2>2 DEF IsOne, IsAnalysis, Fields
  <2>4. Coherent(answer) /\ Bounded(answer) /\ OnStore(answer)
    BY <1>1, <2>1, <2>2 DEF Coherent, ComparedWithPrior, Bounded, OnStore, Fields
  <2>5. h \in quiet => Calm(answer)
    <3>1. answer.trace = q.trace /\ answer.read = q.read /\ answer.kind = q.kind
      BY <2>1 DEF Fields
    <3>2. Judged(answer) = Judged(q)
      BY <3>1, SameTrace
    <3>3. h \in quiet => Undisturbed(answer)
      BY <1>1, <2>1, <3>1, <3>2 DEF Undisturbed, ComparedWithSuccess, Fields
    <3> QED
      BY <1>1, <3>1, <3>3 DEF Calm, IsOne
  <2>6. request' = [request EXCEPT ![h] = answer]
    BY <1>2, <1>4 DEF answer
  <2> QED
    BY <1>3, <2>3, <2>4, <2>5, <2>6, OneRequest DEF Sound
<1>5. CASE ~ (cited \subseteq ValidIds(q))
  BY <1>2, <1>3, <1>5, OneRequest DEF Sound, Calm
<1> QED
  BY <1>4, <1>5

\* A request that is over leaves nothing behind.
LEMMA OverStep ==
    ASSUME IInv, NEW h \in Handlers, NoReply(h) \/ Respond(h)
    PROVE  IInv'
<1>1. /\ request' = [request EXCEPT ![h] = None]
      /\ traces' = traces /\ quiet' = quiet
  BY DEF NoReply, Respond
<1> QED
  BY <1>1, OneRequest DEF Sound, Calm

LEMMA FetchStep ==
    ASSUME IInv, NEW h \in Handlers, NEW t \in TraceIds, NEW kind \in Kinds, Fetch(h, t, kind)
    PROVE  IInv'
<1> DEFINE r == [kind |-> kind, trace |-> t, read |-> traces[t], at |-> "list",
                 ranking |-> kind = "root-cause", candidate |-> None, baseline |-> None,
                 findings |-> NoFindings, ranked |-> NoFindings, left |-> {}, seen |-> 0,
                 counts |-> [x \in Rules |-> 0], cited |-> {}]
<1>1. /\ request' = [request EXCEPT ![h] = r]
      /\ traces' = traces /\ quiet' = quiet \cup {h}
      /\ t \in Stored /\ traces[t].fires # Raises
  BY DEF Fetch
<1>2. traces[t] \in Row
  BY <1>1, StoredRows DEF IInv
<1>3. traces[t].fires \subseteq Rules
  <2>1. traces[t].fires \in (SUBSET Rules) \cup {Raises}
    BY <1>2 DEF Row
  <2> QED
    BY <1>1, <2>1
<1>4. IsFiniteSet({}) /\ Cardinality({}) = 0
  BY FS_EmptySet
<1>5. IsOne(r)
  BY <1>2, NothingFound, LookbackAssumption DEF IsOne, IsAnalysis, Fields
<1>6. Coherent(r)
  BY <1>3 DEF Coherent, ComparedWithPrior
<1>7. Bounded(r) /\ OnStore(r)
  BY <1>4, LookbackAssumption DEF Bounded, OnStore
<1>8. Calm(r)
  BY DEF Calm, Undisturbed, ComparedWithSuccess
<1> HIDE DEF r
<1> QED
  BY <1>1, <1>5, <1>6, <1>7, <1>8, OneRequest DEF Sound

LEMMA CasesFacts == Len(Cases) \in Nat /\ (Cases = << >> <=> Len(Cases) = 0)
                    /\ DOMAIN Cases = 1..Len(Cases)
BY CasesAssumption

LEMMA StartTestsStep ==
    ASSUME IInv, NEW h \in Handlers, StartTests(h)
    PROVE  IInv'
<1> DEFINE r == [kind |-> "test", done |-> 0, passed |-> TRUE,
                 at |-> IF Cases = << >> THEN "answer" ELSE "case"]
<1>1. /\ request' = [request EXCEPT ![h] = r]
      /\ traces' = traces /\ quiet' = quiet \cup {h}
  BY DEF StartTests
<1>2. IsTesting(r)
  BY CasesFacts DEF IsTesting, TestRun
<1>3. Calm(r)
  BY DEF Calm, KnowsCases
<1> HIDE DEF r
<1> QED
  BY <1>1, <1>2, <1>3, OneRequest DEF Sound

LEMMA NextCaseStep ==
    ASSUME IInv, NEW h \in Handlers, NextCase(h)
    PROVE  IInv'
<1> DEFINE q == request[h]
           case == Cases[q.done + 1]
           row == traces[case.trace]
           holds == row # None /\ Evaluate(row, case)
           tested == [q EXCEPT !.done = q.done + 1, !.passed = AllPassed(q.passed, holds),
                               !.at = IF q.done + 1 = Len(Cases) THEN "answer" ELSE "case"]
           r == IF row # None /\ row.fires = Raises THEN None ELSE tested
<1>1. /\ request' = [request EXCEPT ![h] = r]
      /\ traces' = traces /\ quiet' = quiet
      /\ q # None /\ q.at = "case"
  BY DEF NextCase, At
<1>2. Sound(q) /\ (h \in quiet => Calm(q))
  BY DEF IInv
<1>3. IsTesting(q)
  BY <1>1, <1>2 DEF Sound, IsOne, IsAnalysis
<1>4. q.kind = "test"
  BY <1>3 DEF IsTesting, TestRun
<1>5. h \in quiet => KnowsCases(q)
  BY <1>1, <1>2, <1>4 DEF Calm, Kinds
<1> HIDE DEF q
<1>6. /\ tested.kind = "test" /\ tested.done = q.done + 1
      /\ tested.passed = (q.passed /\ holds)
      /\ tested.at = IF q.done + 1 = Len(Cases) THEN "answer" ELSE "case"
  BY <1>3 DEF IsTesting, TestRun, AllPassed
<1>7. q.done \in Nat /\ q.done < Len(Cases)
  BY <1>1, <1>3 DEF IsTesting, TestRun
<1>8. IsTesting(tested)
  <2>1. tested \in TestRun
    <3>1. AllPassed(q.passed, holds) \in BOOLEAN
      BY DEF AllPassed
    <3>2. q.done + 1 \in 0..Len(Cases)
      BY <1>7, CasesFacts
    <3> HIDE DEF holds
    <3> QED
      BY <1>3, <3>1, <3>2 DEF IsTesting, TestRun
  <2> HIDE DEF tested
  <2> QED
    BY <1>6, <1>7, <2>1, CasesFacts DEF IsTesting
<1>9. ASSUME h \in quiet
      PROVE  Calm(tested)
  <2>1. q.passed <=> \A i \in 1..q.done : Holds(Cases[i])
    BY <1>5, <1>9 DEF KnowsCases
  <2>2. holds <=> Holds(Cases[q.done + 1])
    BY DEF Holds
  <2>3. 1..(q.done + 1) = (1..q.done) \cup {q.done + 1}
    BY <1>7
  <2> HIDE DEF tested, holds
  <2>4. (\A i \in 1..(q.done + 1) : Holds(Cases[i]))
          <=> (\A i \in 1..q.done : Holds(Cases[i])) /\ Holds(Cases[q.done + 1])
    BY <2>3
  <2> QED
    BY <1>6, <2>1, <2>2, <2>4 DEF Calm, KnowsCases
<1> HIDE DEF tested
<1>10. Sound(r) /\ (h \in quiet => Calm(r))
  BY <1>8, <1>9 DEF Sound, Calm
<1> HIDE DEF r
<1> QED
  BY <1>1, <1>10, OneRequest

\* A save leaves the starts of the stored traces as they are, and disturbs every request.
LEMMA ExportStep ==
    ASSUME IInv, NEW d \in Docs, Export(d)
    PROVE  IInv'
<1>1. traces' = [traces EXCEPT ![d.trace] =
           IF @ = None THEN d.row ELSE [d.row EXCEPT !.start = traces[d.trace].start]]
  BY DEF Export, Save
<1>2. request' = request /\ quiet' = {}
  BY DEF Export
<1>3. d.trace \in TraceIds /\ d.row \in Row /\ traces \in [TraceIds -> Row \cup {None}]
  BY DocsAssumption DEF IInv, StoreOK
<1>4. ASSUME traces[d.trace] # None
      PROVE  [d.row EXCEPT !.start = traces[d.trace].start] \in Row
  BY <1>3, <1>4 DEF Row
<1>5. /\ StoreOK'
      /\ \A t \in TraceIds : t # d.trace => traces'[t] = traces[t]
      /\ traces'[d.trace] \in Row
  BY <1>1, <1>3, <1>4 DEF StoreOK
<1>6. ASSUME NEW t \in Stored
      PROVE  t \in Stored' /\ traces'[t].start = traces[t].start
  <2>1. CASE t = d.trace
    <3>1. traces'[t] = [d.row EXCEPT !.start = traces[t].start] /\ t \in TraceIds
      BY <1>1, <1>3, <2>1 DEF Stored
    <3>2. traces'[t].start = traces[t].start
      BY <1>3, <3>1 DEF Row
    <3> QED
      BY <1>5, <2>1, <3>1, <3>2, NoneAssumption DEF Stored
  <2>2. CASE t # d.trace
    BY <1>5, <2>2 DEF Stored
  <2> QED
    BY <2>1, <2>2
<1>7. ASSUME NEW q, OnStore(q)
      PROVE  OnStore(q)'
  BY <1>6, <1>7 DEF OnStore
<1>8. ASSUME NEW h \in Handlers
      PROVE  Sound(request[h])'
  <2>1. Sound(request[h])
    BY DEF IInv
  <2>2. OnStore(request[h]) => OnStore(request[h])'
    BY <1>2, <1>7 DEF OnStore
  <2> QED
    BY <1>2, <2>1, <2>2 DEF Sound, IsOne, IsTesting, Coherent, Bounded
<1> QED
  BY <1>2, <1>5, <1>8 DEF IInv

-----------------------------------------------------------------------------
(* Theorems *)

\* The invariant holds of every execution: each step of a handler leaves its request
\* sound, and an exporter's save disturbs what is calm but nothing that is sound.
THEOREM InvariantHolds == Spec => []IInv
<1>1. Init => IInv
  BY DEF Init, IInv, StoreOK, Sound
<1>2. IInv /\ [Next]_vars => IInv'
  <2> SUFFICES ASSUME IInv, [Next]_vars
               PROVE  IInv'
    OBVIOUS
  <2>1. ASSUME NEW d \in Docs, Export(d)
        PROVE  IInv'
    BY <2>1, ExportStep
  <2>2. ASSUME NEW h \in Handlers, NEW t \in TraceIds, NEW kind \in Kinds, Fetch(h, t, kind)
        PROVE  IInv'
    BY <2>2, FetchStep
  <2>3. ASSUME NEW h \in Handlers, StartTests(h)
        PROVE  IInv'
    BY <2>3, StartTestsStep
  <2>4. ASSUME NEW h \in Handlers, Continue(h)
        PROVE  IInv'
    BY <2>4, ListSuccessesStep, GetBaselineStep, ListHistoryStep, CountOneStep, ReplyStep,
       OverStep, NextCaseStep DEF Continue
  <2>5. CASE UNCHANGED vars
    <3>1. traces' = traces /\ request' = request /\ quiet' = quiet
      BY <2>5 DEF vars
    <3>2. \A q : (Sound(q)' <=> Sound(q)) /\ (Calm(q)' <=> Calm(q))
      BY <3>1, SameStore
    <3>3. /\ \A h \in Handlers : Sound(request[h])'
          /\ \A h \in quiet : Calm(request[h])'
      BY <3>1, <3>2 DEF IInv
    <3> QED
      BY <3>1, <3>3 DEF IInv, StoreOK
  <2> QED
    BY <2>1, <2>2, <2>3, <2>4, <2>5 DEF Next
<1> QED
  BY <1>1, <1>2, PTL DEF Spec

\* Every request is an analysis or a test run, whatever the store answers it: the
\* baseline that it names is a trace, and it looks at no more executions than one page.
THEOREM TypeCorrect == Spec => []TypeOK
<1>1. IInv => TypeOK
  <2> SUFFICES ASSUME IInv
               PROVE  TypeOK
    OBVIOUS
  <2>1. \A h \in Handlers :
           \/ request[h] = None
           \/ request[h].kind \in Kinds /\ IsAnalysis(request[h])
           \/ request[h] \in TestRun
    BY DEF IInv, Sound, IsOne, IsTesting
  <2> QED
    BY <2>1 DEF TypeOK, IInv, StoreOK
<1> QED
  BY <1>1, InvariantHolds, PTL

LEMMA AnalysingIsOne ==
    ASSUME IInv, NEW h \in Analysing
    PROVE  IsOne(request[h]) /\ Coherent(request[h])
<1>1. h \in Handlers /\ request[h] # None /\ request[h].kind \in Kinds
  BY DEF Analysing
<1>2. ~ IsTesting(request[h])
  BY <1>1 DEF IsTesting, TestRun, Kinds
<1> QED
  BY <1>1, <1>2 DEF IInv, Sound

LEMMA QuietIsUndisturbed ==
    ASSUME IInv, NEW h \in quiet \cap Analysing
    PROVE  Undisturbed(request[h])
<1>1. h \in Handlers /\ request[h] # None /\ request[h].kind \in Kinds
  BY DEF Analysing
<1>2. request[h].kind # "test"
  BY <1>1 DEF Kinds
<1> QED
  BY <1>1, <1>2 DEF IInv, Calm

\* An analysis compares its trace with another one that began before it, whatever is
\* saved between the reads of find_baseline, and with a success of the same workflow
\* unless something is saved while it runs.
THEOREM BaselinesArePrior == Spec => []BaselineIsPrior
<1>1. ASSUME IInv
      PROVE  BaselineIsPrior
  <2>1. InRequest(ComparedWithPrior)
    BY <1>1, AnalysingIsOne DEF InRequest, Coherent
  <2>2. \A h \in quiet \cap Analysing : ComparedWithSuccess(request[h])
    BY <1>1, QuietIsUndisturbed DEF Undisturbed
  <2> QED
    BY <2>1, <2>2 DEF BaselineIsPrior
<1> QED
  BY <1>1, InvariantHolds, PTL

\* The two passes of a request find the same of the rules, and an explanation cites
\* nothing of them that is not in the hypotheses, whatever is saved in between.
THEOREM RulesFindTheSame == Spec => []RulesAgree
<1>1. ASSUME IInv
      PROVE  RulesAgree
  <2>1. ASSUME NEW h \in Analysing
        PROVE  RuleFindingsMatch(request[h])
    <3> DEFINE q == request[h]
    <3>1. Coherent(q)
      BY <1>1, <2>1, AnalysingIsOne
    <3> HIDE DEF q
    <3>2. RuleFindingsMatch(q)
      BY <3>1 DEF RuleFindingsMatch, Coherent
    <3> QED
      BY <3>2 DEF q
  <2> QED
    BY <2>1 DEF RulesAgree, InRequest
<1> QED
  BY <1>1, InvariantHolds, PTL

\* The two passes of a request over which nothing is saved conclude the same down to the
\* evidence.
THEOREM QuietPassesAgree == Spec => []QuietRequestsAgree
<1>1. IInv => QuietRequestsAgree
  BY QuietIsUndisturbed DEF QuietRequestsAgree, Undisturbed
<1> QED
  BY <1>1, InvariantHolds, PTL

\* A test run over which nothing is saved succeeds if and only if every case does.
THEOREM GateIsItsCases == Spec => []GateIsSound
<1>1. ASSUME IInv, NEW h \in quiet, request[h] # None, request[h].kind = "test",
             request[h].at = "answer"
      PROVE  request[h].passed <=> \A case \in Range(Cases) : Holds(case)
  <2>1. h \in Handlers
    BY <1>1 DEF IInv
  <2>2. IsTesting(request[h]) /\ KnowsCases(request[h])
    <3>1. request[h].kind \notin Kinds
      BY <1>1 DEF Kinds
    <3> QED
      BY <1>1, <2>1, <3>1 DEF IInv, Sound, Calm, IsOne
  <2>3. request[h].done = Len(Cases)
    BY <1>1, <2>2 DEF IsTesting
  <2>4. Range(Cases) = {Cases[i] : i \in 1..Len(Cases)}
    BY CasesFacts DEF Range
  <2> QED
    BY <2>2, <2>3, <2>4 DEF KnowsCases
<1>2. IInv => GateIsSound
  BY <1>1 DEF GateIsSound, Holds
<1> QED
  BY <1>2, InvariantHolds, PTL
=============================================================================

-------------------------- MODULE SdkTracingProofs --------------------------
(***************************************************************************)
(* Theorems of SdkTracing for every set of contexts, traces, spans and     *)
(* strands, and blocks of any depth.                                       *)
(***************************************************************************)
EXTENDS SdkTracing, FiniteOrders

-----------------------------------------------------------------------------
(* Stacks *)

Block == TraceBlock \cup SpanBlock

\* A block is entered at the head of the stack, ...
LEMMA Pushed ==
    ASSUME NEW st \in Seq(Block), NEW b \in Block
    PROVE  LET new == <<b>> \o st
           IN  /\ new \in Seq(Block) /\ Len(new) = Len(st) + 1 /\ new[1] = b
               /\ \A i \in 1..Len(new) : i # 1 => i - 1 \in 1..Len(st) /\ new[i] = st[i - 1]
               /\ \A i \in 1..Len(st) : new[i + 1] = st[i]
OBVIOUS

\* ... and left from there.
LEMMA Popped ==
    ASSUME NEW st \in Seq(Block), st # << >>
    PROVE  /\ Tail(st) \in Seq(Block) /\ Len(Tail(st)) = Len(st) - 1
           /\ Len(st) \in Nat \ {0} /\ Head(st) = st[1] /\ st[1] \in Block
           /\ \A i \in 1..Len(Tail(st)) : i + 1 \in 1..Len(st) /\ Tail(st)[i] = st[i + 1]
OBVIOUS

LEMMA Appended ==
    ASSUME NEW list \in Seq(Spans), NEW s \in Spans
    PROVE  LET new == Append(list, s)
           IN  /\ new \in Seq(Spans) /\ Len(new) = Len(list) + 1
               /\ new[Len(new)] = s
               /\ \A i \in 1..Len(new) : i # Len(new) => i \in 1..Len(list) /\ new[i] = list[i]
               /\ \A i \in 1..Len(list) : new[i] = list[i]
OBVIOUS

LEMMA PerhapsAppended ==
    ASSUME NEW list \in Seq(Spans), NEW s \in Spans, NEW new,
           new = list \/ new = Append(list, s)
    PROVE  \A i \in 1..Len(new) : new[i] = s \/ (i \in 1..Len(list) /\ new[i] = list[i])
<1>1. CASE new = list
  BY <1>1
<1>2. CASE new = Append(list, s)
  <2>1. /\ new[Len(new)] = s
        /\ \A i \in 1..Len(new) : i # Len(new) => i \in 1..Len(list) /\ new[i] = list[i]
    BY <1>2, Appended
  <2> QED
    BY <2>1
<1> QED
  BY <1>1, <1>2


-----------------------------------------------------------------------------
(* Types *)

\* What is referred to has been made.
Known ==
    /\ \A h \in Contexts : made[h] # None => trace[made[h]] # None
    /\ \A s \in Spans : span[s] # None => made[span[s].via] # None /\ trace[span[s].trace] # None
    /\ \A k \in Strands : \A i \in 1..Depth(k) :
          LET b == strand[k].stack[i]
          IN  IF b.kind = "trace" THEN made[b.id] # None ELSE span[b.id] # None
    /\ \A t \in Traces : trace[t] # None =>
          \A i \in 1..Len(trace[t].spans) : span[trace[t].spans[i]] # None
    /\ \A k \in Strands : strand[k].out # None => trace[strand[k].out.trace] # None
    /\ \A k \in Strands : strand[k].failing # None => span[strand[k].failing] # None

TInv == TypeOK /\ Known

\* What a step may change of a strand other than its stack.
LEMMA StrandTypes ==
    ASSUME TypeOK, NEW k \in Strands
    PROVE  /\ strand[k] \in Strand
           /\ strand[k].stack \in Seq(Block) /\ Depth(k) \in Nat
           /\ \A i \in 1..Depth(k) : strand[k].stack[i] \in Block
           /\ strand[k].ctx \in Strands /\ strand[k].failing \in Spans \cup {None}
BY DEF TypeOK, Strand, Block, Depth

LEMMA BlockTypes ==
    /\ \A b \in Block : /\ b.kind \in {"trace", "span"} /\ b.ctx \in Strands
                        /\ b.kind = "trace" <=> b \in TraceBlock
                        /\ b.kind = "trace" => b.id \in Contexts /\ b.old \in Contexts \cup {None}
                        /\ b.kind = "span" => b.id \in Spans /\ b.old \in Spans \cup {None}
BY DEF Block, TraceBlock, SpanBlock

\* The block that a strand is in.
LEMMA HeadTypes ==
    ASSUME TInv, NEW k \in Strands, NEW kind, InBlock(k, kind)
    PROVE  LET b == strand[k].stack[1]
           IN  /\ strand[k].stack # << >> /\ Head(strand[k].stack) = b /\ b \in Block
               /\ b.kind = kind /\ 1 \in 1..Depth(k)
               /\ strand[k] \in Strand /\ Tail(strand[k].stack) \in Seq(Block)
               /\ kind = "trace" =>
                     b.id \in Contexts /\ made[b.id] \in Traces /\ trace[made[b.id]] # None
               /\ kind = "span" =>
                     /\ b.id \in Spans /\ span[b.id] # None
                     /\ made[span[b.id].via] \in Traces /\ trace[made[span[b.id].via]] # None
<1> DEFINE b == strand[k].stack[1]
<1>1. strand[k].stack # << >> /\ strand[k] \in Strand /\ strand[k].stack \in Seq(Block)
  BY StrandTypes DEF InBlock, TInv
<1>2. /\ Head(strand[k].stack) = b /\ b \in Block /\ b.kind = kind /\ 1 \in 1..Depth(k)
      /\ Tail(strand[k].stack) \in Seq(Block)
  BY <1>1, Popped DEF InBlock, Depth
<1> HIDE DEF b
<1>3. IF b.kind = "trace" THEN made[b.id] # None ELSE span[b.id] # None
  BY <1>2 DEF TInv, Known, b
<1>4. ASSUME kind = "trace"
      PROVE  b.id \in Contexts /\ made[b.id] \in Traces /\ trace[made[b.id]] # None
  BY <1>2, <1>3, <1>4, BlockTypes DEF TInv, TypeOK, Known
<1>5. ASSUME kind = "span"
      PROVE  /\ b.id \in Spans /\ span[b.id] # None
             /\ made[span[b.id].via] \in Traces /\ trace[made[span[b.id].via]] # None
  <2>1. b.id \in Spans /\ span[b.id] # None
    BY <1>2, <1>3, <1>5, BlockTypes
  <2>2. span[b.id].via \in Contexts /\ made[span[b.id].via] # None
    BY <2>1 DEF TInv, TypeOK, Known, SpanRec
  <2> QED
    BY <2>1, <2>2 DEF TInv, TypeOK, Known
<1> QED
  BY <1>1, <1>2, <1>4, <1>5 DEF b

\* What a document shows is spans as they are.
LEMMA WrittenTypes ==
    ASSUME TInv, NEW t \in Traces, trace[t] # None
    PROVE  /\ Written(trace[t].spans) \in SUBSET ShownSpan
           /\ trace[t] \in TraceRec
<1>1. trace[t] \in TraceRec /\ trace[t].spans \in Seq(Spans)
  BY DEF TInv, TypeOK, TraceRec
<1>2. ASSUME NEW i \in 1..Len(trace[t].spans)
      PROVE  Shown(trace[t].spans[i]) \in ShownSpan
  <2>1. trace[t].spans[i] \in Spans /\ span[trace[t].spans[i]] \in SpanRec
    BY <1>1 DEF TInv, TypeOK, Known
  <2> QED
    BY <2>1 DEF Shown, ShownSpan, SpanRec
<1> QED
  BY <1>1, <1>2 DEF Written

\* A step that changes the calls of one strand, without a block being entered.
LEMMA StrandOnly ==
    ASSUME TInv, NEW k \in Strands, NEW r \in Strand, r.stack = strand[k].stack,
           r.out = strand[k].out, r.failing = strand[k].failing,
           strand' = [strand EXCEPT ![k] = r],
           UNCHANGED <<made, trace, span, curTrace, curSpan, posted, stored>>
    PROVE  TInv'
<1>1. TypeOK'
  BY DEF TInv, TypeOK
<1>2. \A j \in Strands : /\ strand'[j].stack = strand[j].stack
                         /\ strand'[j].out = strand[j].out
                         /\ strand'[j].failing = strand[j].failing
  BY DEF TInv, TypeOK
<1>3. Known'
  BY <1>2 DEF TInv, Known, Depth
<1> QED
  BY <1>1, <1>3 DEF TInv

LEMMA TypesHost ==
    ASSUME TInv, NEW k \in Strands,
           (\E c \in Strands : Migrate(k, c)) \/ Raise(k) \/ Catch(k) \/ Finish(k)
             \/ SpanOutsideTrace(k)
    PROVE  TInv'
<1>1. strand[k] \in Strand
  BY StrandTypes DEF TInv
<1>2. CASE \E c \in Strands : Migrate(k, c)
  <2>1. PICK c \in Strands : Migrate(k, c)
    BY <1>2
  <2>2. strand[c].on \in Strands
    BY StrandTypes DEF TInv, Strand
  <2> DEFINE r == [strand[k] EXCEPT !.ctx = c, !.on = strand[c].on]
  <2>3. /\ r \in Strand /\ r.stack = strand[k].stack
        /\ r.out = strand[k].out /\ r.failing = strand[k].failing
    BY <1>1, <2>2 DEF Strand
  <2>4. strand' = [strand EXCEPT ![k] = r]
    BY <2>1 DEF Migrate
  <2> HIDE DEF r
  <2> QED
    BY <2>1, <2>3, <2>4, StrandOnly DEF Migrate
<1>3. CASE Raise(k) \/ Catch(k) \/ SpanOutsideTrace(k)
  <2>1. PICK x \in Origin : strand' = [strand EXCEPT ![k].raising = x]
    BY <1>3 DEF Raise, Catch, SpanOutsideTrace, Origin
  <2> DEFINE r == [strand[k] EXCEPT !.raising = x]
  <2>2. /\ r \in Strand /\ r.stack = strand[k].stack
        /\ r.out = strand[k].out /\ r.failing = strand[k].failing
    BY <1>1 DEF Strand
  <2>3. strand' = [strand EXCEPT ![k] = r]
    BY <2>1
  <2> HIDE DEF r
  <2> QED
    BY <1>3, <2>2, <2>3, StrandOnly DEF Raise, Catch, SpanOutsideTrace
<1>4. CASE Finish(k)
  <2> DEFINE r == [strand[k] EXCEPT !.at = "over"]
  <2>2. /\ r \in Strand /\ r.stack = strand[k].stack
        /\ r.out = strand[k].out /\ r.failing = strand[k].failing
    BY <1>1 DEF Strand
  <2>3. strand' = [strand EXCEPT ![k] = r]
    BY <1>4 DEF Finish
  <2> HIDE DEF r
  <2> QED
    BY <1>4, <2>2, <2>3, StrandOnly DEF Finish
<1> QED
  BY <1>2, <1>3, <1>4

LEMMA TypesStart ==
    ASSUME TInv, NEW k \in Strands, NEW j \in Strands, NEW kind \in Kinds, Start(k, j, kind)
    PROVE  TInv'
<1> DEFINE c == strand[k].ctx
           o == IF kind \in {"thread", "worker"} THEN j ELSE strand[k].on
           d == IF kind = "generator" THEN c ELSE j
           b == IF kind = "thread" THEN None ELSE curSpan[c]
           r == NewStrand("live", kind, o, d, curTrace[c], b)
<1>1. /\ strand' = [strand EXCEPT ![j] = r]
      /\ curTrace' = IF kind = "thread" THEN curTrace ELSE [curTrace EXCEPT ![j] = curTrace[c]]
      /\ curSpan' = IF kind = "thread" THEN curSpan ELSE [curSpan EXCEPT ![j] = curSpan[c]]
      /\ UNCHANGED <<made, trace, span, posted, stored>>
  BY DEF Start
<1>2. /\ c \in Strands /\ strand[k].on \in Strands
      /\ curTrace[c] \in Contexts \cup {None} /\ curSpan[c] \in Spans \cup {None}
  BY StrandTypes DEF TInv, TypeOK, Strand
<1>3. r \in Strand /\ r.stack = << >> /\ r.out = None /\ r.failing = None
  <2>1. d \in Strands /\ o \in Strands /\ b \in Spans \cup {None}
    BY <1>2
  <2>2. << >> \in Seq(TraceBlock \cup SpanBlock)
    OBVIOUS
  <2> HIDE DEF c, d, b, o
  <2> QED
    BY <1>2, <2>1, <2>2 DEF NewStrand, Strand, Origin
<1> HIDE DEF r, b, d, c, o
<1>4. TypeOK'
  BY <1>1, <1>2, <1>3 DEF TInv, TypeOK
<1>5. \A g \in Strands : IF g = j THEN /\ strand'[g].stack = << >> /\ strand'[g].out = None
                                       /\ strand'[g].failing = None
                         ELSE strand'[g] = strand[g]
  BY <1>1, <1>3 DEF TInv, TypeOK
<1>6. Known'
  BY <1>1, <1>5 DEF TInv, Known, Depth
<1> QED
  BY <1>4, <1>6 DEF TInv

\* What a push and a pop do to the strands: the blocks afterwards are those before, one
\* place further down or up, and the pushed one.
Pushes(k, b) == strand' = [strand EXCEPT ![k].stack = <<b>> \o @]

Fixed == {"at", "kind", "on", "ctx", "under", "base"}
Calls == {"raising", "step", "failing", "out"}

AfterPush(k, b) ==
    /\ strand' \in [Strands -> Strand]
    /\ \A j \in Strands \ {k} : strand'[j] = strand[j]
    /\ \A j \in Strands : \A f \in Fixed \cup Calls : strand'[j][f] = strand[j][f]
    /\ Len(strand'[k].stack) = Depth(k) + 1 /\ Depth(k) \in Nat
    /\ strand'[k].stack[1] = b
    /\ \A i \in 1..Depth(k) : strand'[k].stack[i + 1] = strand[k].stack[i]
    /\ \A i \in 1..Len(strand'[k].stack) : i # 1 =>
          i - 1 \in 1..Depth(k) /\ strand'[k].stack[i] = strand[k].stack[i - 1]

AfterPop(k, raising, out) ==
    /\ strand' \in [Strands -> Strand]
    /\ \A j \in Strands \ {k} : strand'[j] = strand[j]
    /\ \A j \in Strands : \A f \in Fixed \cup {"failing"} : strand'[j][f] = strand[j][f]
    /\ strand'[k].raising = raising /\ strand'[k].out = out /\ strand'[k].step = "host"
    /\ Len(strand'[k].stack) = Depth(k) - 1 /\ Depth(k) \in Nat \ {0}
    /\ Head(strand[k].stack) = strand[k].stack[1] /\ strand[k].stack[1] \in Block
    /\ \A i \in 1..Len(strand'[k].stack) :
          i + 1 \in 1..Depth(k) /\ strand'[k].stack[i] = strand[k].stack[i + 1]

LEMMA PushedStrand ==
    ASSUME TypeOK, NEW k \in Strands, NEW b \in Block, Pushes(k, b)
    PROVE  AfterPush(k, b)
<1> DEFINE r == [strand[k] EXCEPT !.stack = <<b>> \o @]
<1>1. strand[k] \in Strand /\ <<b>> \o strand[k].stack \in Seq(TraceBlock \cup SpanBlock)
  BY StrandTypes DEF Block
<1>2. strand' = [strand EXCEPT ![k] = r]
  BY DEF TypeOK, Pushes
<1>3. /\ r \in Strand /\ r.stack = <<b>> \o strand[k].stack
      /\ \A f \in Fixed \cup Calls : r[f] = strand[k][f]
  BY <1>1 DEF Strand, Fixed, Calls
<1> HIDE DEF r
<1>4. \A j \in Strands : strand'[j] = IF j = k THEN r ELSE strand[j]
  BY <1>2 DEF TypeOK
<1>5. strand[k].stack \in Seq(Block) /\ strand'[k].stack = <<b>> \o strand[k].stack
  BY <1>3, <1>4, StrandTypes
<1>6. /\ Len(strand'[k].stack) = Depth(k) + 1 /\ Depth(k) \in Nat
      /\ strand'[k].stack[1] = b
      /\ \A i \in 1..Depth(k) : strand'[k].stack[i + 1] = strand[k].stack[i]
      /\ \A i \in 1..Len(strand'[k].stack) : i # 1 =>
            i - 1 \in 1..Depth(k) /\ strand'[k].stack[i] = strand[k].stack[i - 1]
  BY <1>5, Pushed DEF Depth
<1>7. strand' \in [Strands -> Strand]
  BY <1>2, <1>3 DEF TypeOK
<1> QED
  BY <1>3, <1>4, <1>6, <1>7 DEF AfterPush

LEMMA PoppedStrand ==
    ASSUME TypeOK, NEW k \in Strands, strand[k].stack # << >>,
           NEW r \in Strand, r.stack = Tail(strand[k].stack), r.step = "host",
           \A f \in Fixed \cup {"failing"} : r[f] = strand[k][f],
           strand' = [strand EXCEPT ![k] = r]
    PROVE  AfterPop(k, r.raising, r.out)
<1>1. \A j \in Strands : strand'[j] = IF j = k THEN r ELSE strand[j]
  BY DEF TypeOK
<1>2. strand[k].stack \in Seq(Block) /\ strand'[k].stack = Tail(strand[k].stack)
  BY <1>1, StrandTypes
<1>3. /\ Len(strand'[k].stack) = Depth(k) - 1 /\ Depth(k) \in Nat \ {0}
      /\ Head(strand[k].stack) = strand[k].stack[1] /\ strand[k].stack[1] \in Block
  BY <1>2, Popped DEF Depth
<1>4. \A i \in 1..Len(strand'[k].stack) :
         i + 1 \in 1..Depth(k) /\ strand'[k].stack[i] = strand[k].stack[i + 1]
  BY <1>2, Popped DEF Depth
<1>5. strand' \in [Strands -> Strand]
  BY DEF TypeOK
<1> QED
  BY <1>1, <1>3, <1>4, <1>5 DEF AfterPop

LEMMA BlocksBeforePush ==
    ASSUME NEW k \in Strands, NEW b, AfterPush(k, b),
           NEW j \in Strands, NEW i \in 1..Len(strand'[j].stack)
    PROVE  \/ \E n \in 1..Depth(j) : strand'[j].stack[i] = strand[j].stack[n]
           \/ j = k /\ strand'[j].stack[i] = b
<1>1. CASE j # k
  BY <1>1 DEF AfterPush, Depth
<1>2. CASE j = k
  BY <1>2 DEF AfterPush, Depth
<1> QED
  BY <1>1, <1>2

LEMMA BlocksBeforePop ==
    ASSUME NEW k \in Strands, NEW raising, NEW out, AfterPop(k, raising, out),
           NEW j \in Strands, NEW i \in 1..Len(strand'[j].stack)
    PROVE  \E n \in 1..Depth(j) : strand'[j].stack[i] = strand[j].stack[n]
<1>1. CASE j # k
  BY <1>1 DEF AfterPop, Depth
<1>2. CASE j = k
  BY <1>2 DEF AfterPop, Depth
<1> QED
  BY <1>1, <1>2


\* What an entered block leaves as it is, and adds.
LEMMA BlocksKnown ==
    ASSUME TInv, NEW k \in Strands, NEW b \in Block, AfterPush(k, b),
           \A h \in Contexts : made[h] # None => made'[h] # None,
           \A s \in Spans : span[s] # None => span'[s] # None,
           IF b.kind = "trace" THEN made'[b.id] # None ELSE span'[b.id] # None,
           NEW j \in Strands, NEW i \in 1..Len(strand'[j].stack)
    PROVE  LET x == strand'[j].stack[i]
           IN  IF x.kind = "trace" THEN made'[x.id] # None ELSE span'[x.id] # None
<1>1. \/ \E n \in 1..Depth(j) : strand'[j].stack[i] = strand[j].stack[n]
      \/ strand'[j].stack[i] = b
  BY BlocksBeforePush
<1>2. \A n \in 1..Depth(j) :
         LET x == strand[j].stack[n]
         IN  IF x.kind = "trace" THEN made'[x.id] # None ELSE span'[x.id] # None
  BY StrandTypes, BlockTypes DEF TInv, Known
<1> QED
  BY <1>1, <1>2

LEMMA TypesEnterTrace ==
    ASSUME TInv, NEW k \in Strands, NEW h \in Contexts, NEW t \in Traces, EnterTrace(k, h, t)
    PROVE  TInv'
<1> DEFINE c == strand[k].ctx
           b == [kind |-> "trace", id |-> h, ctx |-> c, old |-> curTrace[c]]
<1>1. TypeOK /\ c \in Strands
  BY StrandTypes DEF TInv
<1>2. /\ made' = [made EXCEPT ![h] = t]
      /\ curTrace' = [curTrace EXCEPT ![c] = h]
      /\ Pushes(k, b)
      /\ trace' = [trace EXCEPT ![t] = [status |-> "UNSET", spans |-> << >>]]
      /\ UNCHANGED <<span, curSpan, posted, stored>>
  BY DEF EnterTrace, Pushes
<1>3. b \in Block /\ b.kind = "trace" /\ b.id = h
  BY <1>1 DEF Block, TraceBlock, TypeOK
<1> HIDE DEF b, c
<1>4. AfterPush(k, b)
  BY <1>1, <1>2, <1>3, PushedStrand
<1>5. /\ strand' \in [Strands -> Strand]
      /\ \A j \in Strands : strand'[j].out = strand[j].out /\ strand'[j].failing = strand[j].failing
  BY <1>4 DEF AfterPush, Calls
<1>6. [status |-> "UNSET", spans |-> << >>] \in TraceRec
  BY DEF TraceRec, Status
<1>7. TypeOK'
  BY <1>1, <1>2, <1>5, <1>6 DEF TypeOK
<1>8. \A x \in Traces : trace[x] # None => trace'[x] # None
  BY <1>1, <1>2, <1>6, NoneAssumption DEF TypeOK
<1>9. /\ \A g \in Contexts : made'[g] # None => trace'[made'[g]] # None
      /\ \A s \in Spans : span'[s] # None => made'[span'[s].via] # None /\ trace'[span'[s].trace] # None
  <2>1. trace'[t] # None /\ made'[h] # None
    BY <1>1, <1>2, <1>6, NoneAssumption, NamesAssumption DEF TypeOK
  <2>2. \A s \in Spans : span[s] # None => span[s].via \in Contexts /\ span[s].trace \in Traces
    BY <1>1 DEF TypeOK, SpanRec
  <2> QED
    BY <1>1, <1>2, <1>8, <2>1, <2>2 DEF TInv, Known, TypeOK
<1>10. \A j \in Strands : \A i \in 1..Len(strand'[j].stack) :
         LET x == strand'[j].stack[i]
         IN  IF x.kind = "trace" THEN made'[x.id] # None ELSE span'[x.id] # None
  <2>1. (\A g \in Contexts : made[g] # None => made'[g] # None) /\ made'[h] # None
    BY <1>1, <1>2, NamesAssumption DEF TypeOK
  <2> QED
    BY <1>2, <1>3, <1>4, <2>1, BlocksKnown
<1>11. /\ \A x \in Traces : trace'[x] # None =>
             \A i \in 1..Len(trace'[x].spans) : span'[trace'[x].spans[i]] # None
       /\ \A j \in Strands : strand'[j].out # None => trace'[strand'[j].out.trace] # None
       /\ \A j \in Strands : strand'[j].failing # None => span'[strand'[j].failing] # None
  <2>1. \A j \in Strands : strand[j].out # None => strand[j].out.trace \in Traces
    BY <1>1, StrandTypes DEF Strand, Out
  <2> QED
    BY <1>1, <1>2, <1>5, <1>8, <2>1 DEF TInv, Known, TypeOK
<1> QED
  BY <1>7, <1>9, <1>10, <1>11 DEF TInv, Known, Depth

\* TraceContext.span: a new span of the trace that the context has.
SpanMade(h, s) ==
    /\ made[h] \in Traces /\ span[s] = None
    /\ span' \in [Spans -> SpanRec \cup {None}]
    /\ \A x \in Spans \ {s} : span'[x] = span[x]
    /\ span'[s] # None /\ span'[s].status = "UNSET"
    /\ span'[s].via = h /\ span'[s].trace = made[h]

LEMMA MakeSpanEffects ==
    ASSUME TInv, NEW k \in Strands, NEW h \in Contexts, NEW s \in Spans, MakeSpan(k, h, s)
    PROVE  SpanMade(h, s) /\ span'[s].parent = ParentIn(strand[k].ctx)
<1> DEFINE p == ParentIn(strand[k].ctx)
           r == [trace |-> made[h], via |-> h, parent |-> p, status |-> "UNSET"]
<1>1. span' = [span EXCEPT ![s] = r] /\ made[h] # None /\ span[s] = None
  BY DEF MakeSpan
<1>2. strand[k].ctx \in Strands
  BY StrandTypes DEF TInv
<1>3. made[h] \in Traces /\ p \in Spans \cup {None}
  BY <1>1, <1>2 DEF ParentIn, TInv, TypeOK
<1> HIDE DEF p
<1>4. r \in SpanRec /\ r.via = h /\ r.trace = made[h] /\ r.status = "UNSET" /\ r.parent = p
  BY <1>3 DEF SpanRec, Status
<1>5. r # None
  BY <1>4, NoneAssumption
<1> HIDE DEF r
<1> QED
  BY <1>1, <1>3, <1>4, <1>5 DEF SpanMade, TInv, TypeOK, p

\* SpanContext.__enter__.
SpanBlockOf(k, s)  == [kind |-> "span", id |-> s, ctx |-> strand[k].ctx,
                       old |-> curSpan[strand[k].ctx]]

LEMMA OpenSpanEffects ==
    ASSUME TInv, NEW k \in Strands, NEW s \in Spans, OpenSpan(k, s)
    PROVE  /\ AfterPush(k, SpanBlockOf(k, s))
           /\ SpanBlockOf(k, s) \in Block
           /\ SpanBlockOf(k, s).kind = "span" /\ SpanBlockOf(k, s).id = s
           /\ SpanBlockOf(k, s).ctx = strand[k].ctx
           /\ SpanBlockOf(k, s).old = curSpan[strand[k].ctx]
           /\ curSpan' = [curSpan EXCEPT ![strand[k].ctx] = s]
<1>1. SpanBlockOf(k, s) \in Block
  BY StrandTypes DEF SpanBlockOf, Block, SpanBlock, TInv, TypeOK
<1>2. Pushes(k, SpanBlockOf(k, s)) /\ curSpan' = [curSpan EXCEPT ![strand[k].ctx] = s]
  BY DEF OpenSpan, Pushes, SpanBlockOf
<1> QED
  BY <1>1, <1>2, PushedStrand DEF TInv, SpanBlockOf

\* A span is made, or a block of one entered, or both.
LEMMA TypesSpans ==
    ASSUME TInv, NEW k \in Strands, NEW h \in Contexts, NEW s \in Spans,
           EnterSpan(k, h, s) \/ KeepSpan(k, h, s) \/ EnterKept(k, s)
    PROVE  TInv'
<1>1. UNCHANGED <<made, trace, curTrace, posted, stored>>
  BY DEF EnterSpan, KeepSpan, EnterKept
<1>2. \/ UNCHANGED span /\ span[s] # None
      \/ SpanMade(h, s)
  BY MakeSpanEffects DEF EnterSpan, KeepSpan, EnterKept
<1>3. \/ UNCHANGED <<curSpan, strand>>
      \/ OpenSpan(k, s)
  BY DEF EnterSpan, KeepSpan, EnterKept
<1>4. /\ span' \in [Spans -> SpanRec \cup {None}] /\ span'[s] # None
      /\ \A x \in Spans : span[x] # None => span'[x] # None
      /\ \A x \in Spans : span'[x] # None =>
            made[span'[x].via] # None /\ trace[span'[x].trace] # None
  <2>1. CASE UNCHANGED span /\ span[s] # None
    BY <2>1 DEF TInv, TypeOK, Known
  <2>2. CASE SpanMade(h, s)
    <3>1. made[h] # None /\ trace[made[h]] # None
      BY <2>2, NamesAssumption DEF SpanMade, TInv, Known
    <3> QED
      BY <2>2, <3>1 DEF SpanMade, TInv, Known
  <2> QED
    BY <1>2, <2>1, <2>2
<1>5. /\ curSpan' \in [Strands -> Spans \cup {None}] /\ strand' \in [Strands -> Strand]
      /\ \A j \in Strands : strand'[j].out = strand[j].out /\ strand'[j].failing = strand[j].failing
      /\ \A j \in Strands : \A i \in 1..Len(strand'[j].stack) :
            LET x == strand'[j].stack[i]
            IN  IF x.kind = "trace" THEN made[x.id] # None ELSE span'[x.id] # None
  <2>1. CASE UNCHANGED <<curSpan, strand>>
    <3>1. \A j \in Strands : \A i \in 1..Depth(j) : strand[j].stack[i] \in Block
      BY StrandTypes DEF TInv
    <3> QED
      BY <1>4, <2>1, <3>1, BlockTypes DEF TInv, TypeOK, Known, Depth
  <2>2. CASE OpenSpan(k, s)
    <3> DEFINE b == SpanBlockOf(k, s)
    <3>1. /\ AfterPush(k, b) /\ b \in Block /\ b.kind = "span" /\ b.id = s
          /\ curSpan' = [curSpan EXCEPT ![strand[k].ctx] = s]
      BY <2>2, OpenSpanEffects
    <3> HIDE DEF b
    <3>2. \A j \in Strands : strand'[j].out = strand[j].out /\ strand'[j].failing = strand[j].failing
      BY <3>1 DEF AfterPush, Calls
    <3>3. \A j \in Strands : \A i \in 1..Len(strand'[j].stack) :
             LET x == strand'[j].stack[i]
             IN  IF x.kind = "trace" THEN made'[x.id] # None ELSE span'[x.id] # None
      BY <1>1, <1>4, <3>1, BlocksKnown
    <3> QED
      BY <1>1, <3>1, <3>2, <3>3 DEF AfterPush, TInv, TypeOK
  <2> QED
    BY <1>3, <2>1, <2>2
<1>6. TypeOK'
  BY <1>1, <1>4, <1>5 DEF TInv, TypeOK
<1>7. \A x \in Traces : trace[x] # None =>
         \A i \in 1..Len(trace[x].spans) : trace[x].spans[i] \in Spans
  BY DEF TInv, TypeOK, TraceRec
<1>8. Known'
  <2>1. \A j \in Strands : strand[j].failing # None => strand[j].failing \in Spans
    BY StrandTypes DEF TInv
  <2> QED
    BY <1>1, <1>4, <1>5, <1>7, <2>1 DEF TInv, Known, Depth
<1> QED
  BY <1>6, <1>8 DEF TInv

-----------------------------------------------------------------------------
(* What the steps do *)

\* A status is set.
SpanSet(s, status) ==
    /\ span[s] # None /\ span'[s] # None
    /\ span' \in [Spans -> SpanRec \cup {None}]
    /\ \A x \in Spans \ {s} : span'[x] = span[x]
    /\ span'[s].status = status
    /\ \A f \in {"trace", "via", "parent"} : span'[s][f] = span[s][f]

TraceSet(t, status) ==
    /\ trace[t] # None /\ trace'[t] # None
    /\ trace' \in [Traces -> TraceRec \cup {None}]
    /\ \A x \in Traces \ {t} : trace'[x] = trace[x]
    /\ trace'[t].status = status /\ trace'[t].spans = trace[t].spans

\* A call of the SDK goes on.
GoesOn(k, step, failing) ==
    /\ strand' \in [Strands -> Strand]
    /\ \A j \in Strands \ {k} : strand'[j] = strand[j]
    /\ \A j \in Strands : \A f \in Fixed \cup {"stack", "raising", "out"} :
          strand'[j][f] = strand[j][f]
    /\ strand'[k].step = step /\ strand'[k].failing = failing

LEMMA SpanIsSet ==
    ASSUME TypeOK, NEW s \in Spans, span[s] # None, NEW status \in Status,
           span' = [span EXCEPT ![s].status = status]
    PROVE  SpanSet(s, status)
<1> DEFINE r == [span[s] EXCEPT !.status = status]
<1>1. span[s] \in SpanRec /\ span' = [span EXCEPT ![s] = r]
  BY DEF TypeOK
<1>2. /\ r \in SpanRec /\ r.status = status
      /\ \A f \in {"trace", "via", "parent"} : r[f] = span[s][f]
  BY <1>1 DEF SpanRec
<1>3. r # None
  BY <1>2, NoneAssumption
<1> HIDE DEF r
<1> QED
  BY <1>1, <1>2, <1>3 DEF SpanSet, TypeOK

LEMMA TraceIsSet ==
    ASSUME TypeOK, NEW t \in Traces, trace[t] # None, NEW status \in Status,
           trace' = [trace EXCEPT ![t].status = status]
    PROVE  TraceSet(t, status)
<1> DEFINE r == [trace[t] EXCEPT !.status = status]
<1>1. trace[t] \in TraceRec /\ trace' = [trace EXCEPT ![t] = r]
  BY DEF TypeOK
<1>2. r \in TraceRec /\ r.status = status /\ r.spans = trace[t].spans
  BY <1>1 DEF TraceRec
<1>3. r # None
  BY <1>2, NoneAssumption
<1> HIDE DEF r
<1> QED
  BY <1>1, <1>2, <1>3 DEF TraceSet, TypeOK

LEMMA StrandGoesOn ==
    ASSUME TypeOK, NEW k \in Strands,
           NEW step \in {"host", "settle", "leave"}, NEW failing \in Spans \cup {None},
           strand' = [strand EXCEPT ![k].failing = failing, ![k].step = step]
    PROVE  GoesOn(k, step, failing)
<1> DEFINE r == [strand[k] EXCEPT !.failing = failing, !.step = step]
<1>1. strand[k] \in Strand
  BY StrandTypes
<1>2. strand' = [strand EXCEPT ![k] = r]
  BY DEF TypeOK
<1>3. /\ r \in Strand /\ r.step = step /\ r.failing = failing
      /\ \A f \in Fixed \cup {"stack", "raising", "out"} : r[f] = strand[k][f]
  BY <1>1 DEF Strand, Fixed
<1> HIDE DEF r
<1> QED
  BY <1>2, <1>3 DEF GoesOn, TypeOK

\* The same, when only one of them is set.
LEMMA StrandSteps ==
    ASSUME TypeOK, NEW k \in Strands, NEW step \in {"host", "settle", "leave"},
           strand' = [strand EXCEPT ![k].step = step]
    PROVE  GoesOn(k, step, strand[k].failing)
<1> DEFINE f == strand[k].failing
<1>1. strand[k] \in Strand /\ f \in Spans \cup {None}
  BY StrandTypes
<1>2. [strand[k] EXCEPT !.step = step] = [strand[k] EXCEPT !.failing = f, !.step = step]
  BY <1>1 DEF Strand
<1>3. strand' = [strand EXCEPT ![k].failing = f, ![k].step = step]
  BY <1>2 DEF TypeOK
<1> QED
  BY <1>1, <1>3, StrandGoesOn

LEMMA StrandFailed ==
    ASSUME TypeOK, NEW k \in Strands, NEW failing \in Spans \cup {None},
           strand' = [strand EXCEPT ![k].failing = failing]
    PROVE  GoesOn(k, strand[k].step, failing)
<1> DEFINE p == strand[k].step
<1>1. strand[k] \in Strand /\ p \in {"host", "settle", "leave"}
  BY StrandTypes DEF Strand
<1>2. [strand[k] EXCEPT !.failing = failing] = [strand[k] EXCEPT !.failing = failing, !.step = p]
  BY <1>1 DEF Strand
<1>3. strand' = [strand EXCEPT ![k].failing = failing, ![k].step = p]
  BY <1>2 DEF TypeOK
<1> QED
  BY <1>1, <1>3, StrandGoesOn

LEMMA StepAfterIsStep == \A x : StepAfter(x) \in {"settle", "leave"}
BY DEF StepAfter

LEMMA FailSpanEffects ==
    ASSUME TInv, NEW k \in Strands, NEW s \in Spans, span[s] # None,
           NEW step \in {"host", "settle", "leave"}, FailSpan(k, s, step)
    PROVE  SpanSet(s, "ERROR") /\ GoesOn(k, step, s)
BY SpanIsSet, StrandGoesOn DEF FailSpan, TInv, Status

LEMMA FailTraceEffects ==
    ASSUME TInv, NEW k \in Strands, FailTrace(k)
    PROVE  LET s == strand[k].failing
           IN  /\ s \in Spans /\ span[s] # None /\ made[span[s].via] \in Traces
               /\ TraceSet(made[span[s].via], "ERROR")
               /\ GoesOn(k, strand[k].step, None)
               /\ UNCHANGED <<made, span, curTrace, curSpan, posted, stored>>
<1> DEFINE s == strand[k].failing
           t == made[span[s].via]
<1>1. s \in Spans /\ span[s] # None
  BY StrandTypes DEF FailTrace, TInv, Known
<1>2. t \in Traces /\ trace[t] # None
  <2>1. span[s].via \in Contexts /\ t # None
    BY <1>1 DEF TInv, TypeOK, Known, SpanRec
  <2> QED
    BY <2>1 DEF TInv, TypeOK, Known
<1>3. /\ trace' = [trace EXCEPT ![t].status = "ERROR"]
      /\ strand' = [strand EXCEPT ![k].failing = None]
      /\ UNCHANGED <<made, span, curTrace, curSpan, posted, stored>>
  BY DEF FailTrace, Failed
<1> HIDE DEF t, s
<1>4. TraceSet(t, "ERROR")
  BY <1>2, <1>3, TraceIsSet DEF TInv, Status
<1>5. GoesOn(k, strand[k].step, None)
  BY <1>3, StrandFailed DEF TInv
<1> QED
  BY <1>1, <1>2, <1>3, <1>4, <1>5 DEF s, t

LEMMA RecordErrorEffects ==
    ASSUME TInv, NEW k \in Strands, NEW s \in Spans, RecordError(k, s)
    PROVE  /\ SpanSet(s, "ERROR") /\ GoesOn(k, "host", s)
           /\ UNCHANGED <<made, trace, curTrace, curSpan, posted, stored>>
BY FailSpanEffects DEF RecordError

\* A block that is left with an exception records it; one that is left without tests the
\* status.
LEMMA ExitSpanEffects ==
    ASSUME TInv, NEW k \in Strands, ExitSpan(k)
    PROVE  LET s == strand[k].stack[1].id
           IN  /\ \/ strand[k].raising # "no" /\ SpanSet(s, "ERROR") /\ GoesOn(k, "leave", s)
                  \/ /\ strand[k].raising = "no" /\ span' = span
                     /\ GoesOn(k, StepAfter(span[s].status), strand[k].failing)
               /\ UNCHANGED <<made, trace, curTrace, curSpan, posted, stored>>
<1> DEFINE s == strand[k].stack[1].id
<1>1. s \in Spans /\ span[s] # None /\ Head(strand[k].stack) = strand[k].stack[1]
  BY HeadTypes DEF ExitSpan
<1>2. UNCHANGED <<made, trace, curTrace, curSpan, posted, stored>>
  BY DEF ExitSpan
<1>3. \/ strand[k].raising # "no" /\ FailSpan(k, s, "leave")
      \/ /\ strand[k].raising = "no" /\ span' = span
         /\ strand' = [strand EXCEPT ![k].step = StepAfter(span[s].status)]
  BY <1>1 DEF ExitSpan
<1> HIDE DEF s
<1>4. PICK step \in {"settle", "leave"} : step = StepAfter(span[s].status)
  BY StepAfterIsStep
<1>5. strand' = [strand EXCEPT ![k].step = step] => GoesOn(k, step, strand[k].failing)
  BY StrandSteps DEF TInv
<1>6. FailSpan(k, s, "leave") => SpanSet(s, "ERROR") /\ GoesOn(k, "leave", s)
  BY <1>1, FailSpanEffects
<1> QED
  BY <1>2, <1>3, <1>4, <1>5, <1>6 DEF s

LEMMA SettleSpanEffects ==
    ASSUME TInv, NEW k \in Strands, SettleSpan(k)
    PROVE  /\ SpanSet(strand[k].stack[1].id, "OK") /\ GoesOn(k, "leave", strand[k].failing)
           /\ UNCHANGED <<made, trace, curTrace, curSpan, posted, stored>>
<1> DEFINE s == strand[k].stack[1].id
<1>1. s \in Spans /\ span[s] # None /\ Head(strand[k].stack) = strand[k].stack[1]
  BY HeadTypes DEF SettleSpan
<1>2. /\ span' = [span EXCEPT ![s].status = "OK"] /\ strand' = [strand EXCEPT ![k].step = "leave"]
      /\ UNCHANGED <<made, trace, curTrace, curSpan, posted, stored>>
  BY <1>1 DEF SettleSpan
<1> HIDE DEF s
<1>3. SpanSet(s, "OK") /\ GoesOn(k, "leave", strand[k].failing)
  BY <1>1, <1>2, SpanIsSet, StrandSteps DEF TInv, Status
<1> QED
  BY <1>2, <1>3 DEF s

LEMMA ExitTraceEffects ==
    ASSUME TInv, NEW k \in Strands, ExitTrace(k)
    PROVE  LET t == made[strand[k].stack[1].id]
           IN  /\ \/ /\ strand[k].raising # "no" /\ TraceSet(t, "ERROR")
                     /\ GoesOn(k, "leave", strand[k].failing)
                  \/ /\ strand[k].raising = "no" /\ trace' = trace
                     /\ GoesOn(k, StepAfter(trace[t].status), strand[k].failing)
               /\ UNCHANGED <<made, span, curTrace, curSpan, posted, stored>>
<1> DEFINE h == strand[k].stack[1].id
           t == made[h]
<1>1. t \in Traces /\ trace[t] # None /\ Head(strand[k].stack) = strand[k].stack[1]
  BY HeadTypes DEF ExitTrace
<1>2. UNCHANGED <<made, span, curTrace, curSpan, posted, stored>>
  BY DEF ExitTrace
<1>3. \/ /\ strand[k].raising # "no" /\ trace' = [trace EXCEPT ![t].status = "ERROR"]
         /\ strand' = [strand EXCEPT ![k].step = "leave"]
      \/ /\ strand[k].raising = "no" /\ trace' = [trace EXCEPT ![t].status = @]
         /\ strand' = [strand EXCEPT ![k].step = StepAfter(trace[t].status)]
  BY <1>1 DEF ExitTrace
<1>4. trace' = [trace EXCEPT ![t].status = @] => trace' = trace
  <2>1. trace[t] \in TraceRec
    BY <1>1 DEF TInv, TypeOK
  <2> QED
    BY <1>1, <2>1 DEF TInv, TypeOK, TraceRec
<1> HIDE DEF t
<1>5. PICK step \in {"settle", "leave"} : step = StepAfter(trace[t].status)
  BY StepAfterIsStep
<1>6. /\ strand' = [strand EXCEPT ![k].step = step] => GoesOn(k, step, strand[k].failing)
      /\ strand' = [strand EXCEPT ![k].step = "leave"] => GoesOn(k, "leave", strand[k].failing)
  BY StrandSteps DEF TInv
<1>7. trace' = [trace EXCEPT ![t].status = "ERROR"] => TraceSet(t, "ERROR")
  BY <1>1, TraceIsSet DEF TInv, Status
<1> QED
  BY <1>2, <1>3, <1>4, <1>5, <1>6, <1>7 DEF t

LEMMA SettleTraceEffects ==
    ASSUME TInv, NEW k \in Strands, SettleTrace(k)
    PROVE  /\ TraceSet(made[strand[k].stack[1].id], "OK")
           /\ GoesOn(k, "leave", strand[k].failing)
           /\ UNCHANGED <<made, span, curTrace, curSpan, posted, stored>>
<1> DEFINE t == made[strand[k].stack[1].id]
<1>1. t \in Traces /\ trace[t] # None /\ Head(strand[k].stack) = strand[k].stack[1]
  BY HeadTypes DEF SettleTrace
<1>2. /\ trace' = [trace EXCEPT ![t].status = "OK"] /\ strand' = [strand EXCEPT ![k].step = "leave"]
      /\ UNCHANGED <<made, span, curTrace, curSpan, posted, stored>>
  BY <1>1 DEF SettleTrace
<1> HIDE DEF t
<1>3. TraceSet(t, "OK") /\ GoesOn(k, "leave", strand[k].failing)
  BY <1>1, <1>2, TraceIsSet, StrandSteps DEF TInv, Status
<1> QED
  BY <1>2, <1>3 DEF t

\* The steps that set statuses and nothing else.
Restating(k) ==
    \/ \E s \in Spans : RecordError(k, s)
    \/ FailTrace(k)
    \/ ExitSpan(k) \/ SettleSpan(k)
    \/ ExitTrace(k) \/ SettleTrace(k)

\* They make nothing and move nothing.
Restated(k) ==
    /\ UNCHANGED <<made, curTrace, curSpan, posted, stored>>
    /\ span' \in [Spans -> SpanRec \cup {None}] /\ trace' \in [Traces -> TraceRec \cup {None}]
    /\ \A s \in Spans :
          /\ span'[s] = None <=> span[s] = None
          /\ span[s] # None =>
                /\ \A f \in {"trace", "via", "parent"} : span'[s][f] = span[s][f]
                /\ span'[s].status \in {span[s].status, "OK", "ERROR"}
    /\ \A t \in Traces :
          /\ trace'[t] = None <=> trace[t] = None
          /\ trace[t] # None =>
                /\ trace'[t].spans = trace[t].spans
                /\ trace'[t].status \in {trace[t].status, "OK", "ERROR"}
    /\ strand' \in [Strands -> Strand]
    /\ \A j \in Strands \ {k} : strand'[j] = strand[j]
    /\ \A j \in Strands : \A f \in Fixed \cup {"stack", "raising", "out"} :
          strand'[j][f] = strand[j][f]

\* At most one status of a span and one of a trace.
Sets(k) ==
    /\ UNCHANGED <<made, curTrace, curSpan, posted, stored>>
    /\ span' = span \/ \E s \in Spans, x \in {"OK", "ERROR"} : SpanSet(s, x)
    /\ trace' = trace \/ \E t \in Traces, x \in {"OK", "ERROR"} : TraceSet(t, x)
    /\ \E step, failing : /\ GoesOn(k, step, failing)
                          /\ failing # None =>
                                \/ failing = strand[k].failing
                                \/ failing \in Spans /\ span[failing] # None

LEMMA RestatingEffects ==
    ASSUME TInv, NEW k \in Strands, Restating(k)
    PROVE  /\ Restated(k)
           /\ strand'[k].failing # None =>
                 strand'[k].failing \in Spans /\ span[strand'[k].failing] # None
<1>2. Sets(k)
  <2>1. ASSUME NEW s \in Spans, RecordError(k, s)
        PROVE  Sets(k)
    BY <2>1, RecordErrorEffects DEF SpanSet, Sets
  <2>2. ASSUME FailTrace(k)
        PROVE  Sets(k)
    BY <2>2, FailTraceEffects DEF Sets
  <2>3. ASSUME ExitSpan(k)
        PROVE  Sets(k)
    <3>1. InBlock(k, "span")
      BY <2>3 DEF ExitSpan
    <3>2. strand[k].stack[1].id \in Spans /\ span[strand[k].stack[1].id] # None
      BY <3>1, HeadTypes
    <3> QED
      BY <2>3, <3>2, ExitSpanEffects DEF Sets
  <2>4. ASSUME SettleSpan(k)
        PROVE  Sets(k)
    <3>1. InBlock(k, "span")
      BY <2>4 DEF SettleSpan
    <3>2. strand[k].stack[1].id \in Spans
      BY <3>1, HeadTypes
    <3> QED
      BY <2>4, <3>2, SettleSpanEffects DEF Sets
  <2>5. ASSUME ExitTrace(k)
        PROVE  Sets(k)
    <3>1. InBlock(k, "trace")
      BY <2>5 DEF ExitTrace
    <3>2. made[strand[k].stack[1].id] \in Traces
      BY <3>1, HeadTypes
    <3> QED
      BY <2>5, <3>2, ExitTraceEffects DEF Sets
  <2>6. ASSUME SettleTrace(k)
        PROVE  Sets(k)
    <3>1. InBlock(k, "trace")
      BY <2>6 DEF SettleTrace
    <3>2. made[strand[k].stack[1].id] \in Traces
      BY <3>1, HeadTypes
    <3> QED
      BY <2>6, <3>2, SettleTraceEffects DEF Sets
  <2> QED
    BY <2>1, <2>2, <2>3, <2>4, <2>5, <2>6 DEF Restating
<1>3. PICK step, failing : /\ GoesOn(k, step, failing)
                           /\ failing # None =>
                                 \/ failing = strand[k].failing
                                 \/ failing \in Spans /\ span[failing] # None
  BY <1>2 DEF Sets
<1>4. /\ span' \in [Spans -> SpanRec \cup {None}]
      /\ \A s \in Spans :
            /\ span'[s] = None <=> span[s] = None
            /\ span[s] # None =>
                  /\ \A f \in {"trace", "via", "parent"} : span'[s][f] = span[s][f]
                  /\ span'[s].status \in {span[s].status, "OK", "ERROR"}
  <2>1. CASE span' = span
    BY <2>1 DEF TInv, TypeOK
  <2>2. CASE \E s \in Spans, x \in {"OK", "ERROR"} : SpanSet(s, x)
    BY <2>2 DEF SpanSet
  <2> QED
    BY <1>2, <2>1, <2>2 DEF Sets
<1>5. /\ trace' \in [Traces -> TraceRec \cup {None}]
      /\ \A t \in Traces :
            /\ trace'[t] = None <=> trace[t] = None
            /\ trace[t] # None =>
                  /\ trace'[t].spans = trace[t].spans
                  /\ trace'[t].status \in {trace[t].status, "OK", "ERROR"}
  <2>1. CASE trace' = trace
    BY <2>1 DEF TInv, TypeOK
  <2>2. CASE \E t \in Traces, x \in {"OK", "ERROR"} : TraceSet(t, x)
    BY <2>2 DEF TraceSet
  <2> QED
    BY <1>2, <2>1, <2>2 DEF Sets
<1>6. failing # None => failing \in Spans /\ span[failing] # None
  BY <1>3, StrandTypes DEF TInv, Known
<1> QED
  BY <1>2, <1>3, <1>4, <1>5, <1>6 DEF Restated, GoesOn, Sets

\* A span's block is left: the span is listed if the variable could be reset.
SpanLeft(k, s, t, resets) ==
    /\ strand[k].stack # << >> /\ strand[k].step = "leave" /\ strand[k].failing = None
    /\ strand[k].stack[1].kind = "span" /\ strand[k].stack[1].id = s /\ s \in Spans
    /\ span[s] # None /\ t \in Traces /\ t = made[span[s].via] /\ trace[t] # None
    /\ trace' \in [Traces -> TraceRec \cup {None}]
    /\ \A x \in Traces \ {t} : trace'[x] = trace[x]
    /\ trace'[t] # None /\ trace'[t].status = trace[t].status
    /\ trace'[t].spans = IF resets THEN Append(trace[t].spans, s) ELSE trace[t].spans
    /\ AfterPop(k, IF resets THEN strand[k].raising ELSE "sdk", strand[k].out)
    /\ UNCHANGED <<made, span, curTrace, posted, stored>>

LEMMA SpanLeftLists ==
    ASSUME NEW k, NEW s, NEW t, NEW resets, SpanLeft(k, s, t, resets)
    PROVE  s \in Spans /\ \/ trace'[t].spans = trace[t].spans
                          \/ trace'[t].spans = Append(trace[t].spans, s)
BY DEF SpanLeft

LEMMA LeaveSpanEffects ==
    ASSUME TInv, NEW k \in Strands, LeaveSpan(k)
    PROVE  LET b == strand[k].stack[1]
           IN  SpanLeft(k, b.id, made[span[b.id].via], b.ctx = strand[k].ctx)
<1> DEFINE b == strand[k].stack[1]
           s == b.id
           t == made[span[s].via]
           resets == b.ctx = strand[k].ctx
           q == [trace[t] EXCEPT !.spans = IF resets THEN Append(@, s) ELSE @]
           u == [strand[k] EXCEPT !.stack = Tail(@), !.step = "host",
                                  !.raising = IF resets THEN @ ELSE "sdk"]
<1>1. /\ strand[k].stack # << >> /\ Head(strand[k].stack) = b
      /\ strand[k] \in Strand /\ Tail(strand[k].stack) \in Seq(Block)
      /\ b.kind = "span" /\ s \in Spans /\ span[s] # None /\ t \in Traces /\ trace[t] # None
  BY HeadTypes DEF LeaveSpan
<1>2. trace[t] \in TraceRec
  BY <1>1 DEF TInv, TypeOK
<1>3. /\ trace' = [trace EXCEPT ![t] = q]
      /\ strand' = [strand EXCEPT ![k] = u]
      /\ strand[k].step = "leave" /\ strand[k].failing = None
      /\ UNCHANGED <<made, span, curTrace, posted, stored>>
  BY <1>1 DEF LeaveSpan, TInv, TypeOK
<1> HIDE DEF b, t, resets
<1>4. /\ q \in TraceRec /\ q.status = trace[t].status
      /\ q.spans = IF resets THEN Append(trace[t].spans, s) ELSE trace[t].spans
  <2> DEFINE l == IF resets THEN Append(trace[t].spans, s) ELSE trace[t].spans
  <2>1. trace[t].spans \in Seq(Spans)
    BY <1>2 DEF TraceRec
  <2>2. l \in Seq(Spans)
    BY <1>1, <2>1
  <2>3. q = [trace[t] EXCEPT !.spans = l]
    BY <1>2 DEF TraceRec
  <2> HIDE DEF l, q
  <2>4. q \in TraceRec /\ q.status = trace[t].status /\ q.spans = l
    BY <1>2, <2>2, <2>3 DEF TraceRec
  <2> QED
    BY <2>4 DEF l
<1>5. /\ u \in Strand /\ u.stack = Tail(strand[k].stack) /\ u.out = strand[k].out
      /\ u.step = "host" /\ u.raising = IF resets THEN strand[k].raising ELSE "sdk"
      /\ \A f \in Fixed \cup {"failing"} : u[f] = strand[k][f]
  BY <1>1 DEF Strand, Fixed, Origin, Block
<1>6. q # None
  BY <1>4, NoneAssumption
<1> HIDE DEF q, u, s
<1>7. AfterPop(k, u.raising, u.out)
  BY <1>1, <1>3, <1>5, PoppedStrand DEF TInv
<1>8. SpanLeft(k, s, t, resets)
  BY <1>1, <1>2, <1>3, <1>4, <1>5, <1>6, <1>7 DEF SpanLeft, TInv, TypeOK, b, s, t
<1> QED
  BY <1>8 DEF b, s, t, resets

LEMMA LeaveSpanSomehow ==
    ASSUME TInv, NEW k \in Strands, LeaveSpan(k)
    PROVE  \E s \in Spans, t \in Traces, resets \in BOOLEAN : SpanLeft(k, s, t, resets)
<1> DEFINE s == strand[k].stack[1].id
           t == made[span[s].via]
           resets == strand[k].stack[1].ctx = strand[k].ctx
<1>1. SpanLeft(k, s, t, resets)
  BY LeaveSpanEffects
<1>2. resets \in BOOLEAN
  OBVIOUS
<1> HIDE DEF s, t, resets
<1>3. s \in Spans /\ t \in Traces
  BY <1>1 DEF SpanLeft
<1> QED
  BY <1>1, <1>2, <1>3

\* A trace's block is left: if the variable could be reset, the trace is exported as it is.
TraceLeft(k, h, t, resets) ==
    /\ strand[k].stack # << >> /\ strand[k].step = "leave"
    /\ strand[k].stack[1].kind = "trace" /\ strand[k].stack[1].id = h /\ h \in Contexts
    /\ t \in Traces /\ t = made[h] /\ trace[t] # None
    /\ AfterPop(k, IF resets THEN strand[k].raising ELSE "sdk",
                   IF resets THEN [trace |-> t, status |-> trace[t].status] ELSE None)
    /\ UNCHANGED <<made, trace, span, curSpan, posted, stored>>

LEMMA LeaveTraceEffects ==
    ASSUME TInv, NEW k \in Strands, LeaveTrace(k)
    PROVE  LET b == strand[k].stack[1]
           IN  TraceLeft(k, b.id, made[b.id], b.ctx = strand[k].ctx)
<1> DEFINE b == strand[k].stack[1]
           t == made[b.id]
           resets == b.ctx = strand[k].ctx
           o == IF resets THEN [trace |-> t, status |-> trace[t].status] ELSE None
           x == IF resets THEN strand[k].raising ELSE "sdk"
           u == [strand[k] EXCEPT !.stack = Tail(@), !.step = "host", !.raising = x, !.out = o]
<1>1. /\ strand[k].stack # << >> /\ Head(strand[k].stack) = b
      /\ strand[k] \in Strand /\ Tail(strand[k].stack) \in Seq(Block)
      /\ b.kind = "trace" /\ b.id \in Contexts /\ t \in Traces /\ trace[t] # None
  BY HeadTypes DEF LeaveTrace
<1>2. /\ strand' = [strand EXCEPT ![k] = u] /\ strand[k].step = "leave"
      /\ UNCHANGED <<made, trace, span, curSpan, posted, stored>>
  BY <1>1 DEF LeaveTrace, TInv, TypeOK
<1>3. o \in Out \cup {None} /\ x \in Origin
  <2>1. trace[t].status \in Status
    BY <1>1 DEF TInv, TypeOK, TraceRec
  <2> QED
    BY <1>1, <2>1 DEF Out, Strand, Origin
<1> HIDE DEF b, t, resets, o, x
<1>4. /\ u \in Strand /\ u.stack = Tail(strand[k].stack) /\ u.out = o
      /\ u.step = "host" /\ u.raising = x
      /\ \A f \in Fixed \cup {"failing"} : u[f] = strand[k][f]
  BY <1>1, <1>3 DEF Strand, Fixed, Block
<1> HIDE DEF u
<1>5. AfterPop(k, x, o)
  BY <1>1, <1>2, <1>4, PoppedStrand DEF TInv
<1> QED
  BY <1>1, <1>2, <1>5 DEF TraceLeft, o, x, resets, t, b

LEMMA LeaveTraceSomehow ==
    ASSUME TInv, NEW k \in Strands, LeaveTrace(k)
    PROVE  \E h \in Contexts, t \in Traces, resets \in BOOLEAN : TraceLeft(k, h, t, resets)
<1> DEFINE h == strand[k].stack[1].id
           t == made[h]
           resets == strand[k].stack[1].ctx = strand[k].ctx
<1>1. TraceLeft(k, h, t, resets)
  BY LeaveTraceEffects
<1>2. resets \in BOOLEAN
  OBVIOUS
<1> HIDE DEF h, t, resets
<1>3. h \in Contexts /\ t \in Traces
  BY <1>1 DEF TraceLeft
<1> QED
  BY <1>1, <1>2, <1>3

\* The exporter is done with what it was given, and raises nothing.
Exported(k) ==
    /\ strand[k].out # None /\ strand[k].out \in Out
    /\ trace[strand[k].out.trace] # None
    /\ strand' \in [Strands -> Strand]
    /\ \A j \in Strands \ {k} : strand'[j] = strand[j]
    /\ strand'[k].out = None
    /\ \A f \in Fixed \cup {"stack", "raising", "step", "failing"} : strand'[k][f] = strand[k][f]

LEMMA ExportEffects ==
    ASSUME TInv, NEW k \in Strands, NEW succeeds \in BOOLEAN,
           Export(k, succeeds) \/ Post(k, succeeds)
    PROVE  Exported(k) /\ UNCHANGED <<made, trace, span, curTrace, curSpan>>
<1> DEFINE u == [strand[k] EXCEPT !.out = None, !.raising = AfterExport(@, succeeds)]
<1>1. strand[k] \in Strand
  BY StrandTypes DEF TInv
<1>2. strand[k].out # None /\ UNCHANGED <<made, trace, span, curTrace, curSpan>>
  BY DEF Export, Post
<1>3. strand[k].out \in Out /\ trace[strand[k].out.trace] # None
  BY <1>1, <1>2 DEF Strand, TInv, Known
<1>4. strand' = [strand EXCEPT ![k] = u]
  BY <1>1 DEF Export, Post, TInv, TypeOK
<1>5. /\ u \in Strand /\ u.out = None
      /\ \A f \in Fixed \cup {"stack", "raising", "step", "failing"} : u[f] = strand[k][f]
  BY <1>1 DEF Strand, Fixed, AfterExport
<1> HIDE DEF u
<1> QED
  BY <1>2, <1>3, <1>4, <1>5 DEF Exported, TInv, TypeOK

\* What is exported is a document, and so is what is saved of one.
LEMMA ExportedDocument ==
    ASSUME TInv, NEW k \in Strands, strand[k].out # None
    PROVE  LET t == strand[k].out.trace
           IN  /\ t \in Traces
               /\ [status |-> strand[k].out.status, spans |-> Written(trace[t].spans)] \in Document
               /\ [status |-> trace[t].status, spans |-> Written(trace[t].spans)] \in Document
<1> DEFINE t == strand[k].out.trace
<1>1. t \in Traces /\ strand[k].out.status \in Status /\ trace[t] # None
  BY StrandTypes DEF Out, Strand, TInv, Known
<1>2. Written(trace[t].spans) \in SUBSET ShownSpan /\ trace[t].status \in Status
  BY <1>1, WrittenTypes DEF TraceRec
<1> QED
  BY <1>1, <1>2 DEF Document

LEMMA SavedDocuments ==
    ASSUME TypeOK, NEW t \in Traces, NEW d \in Document
    PROVE  /\ Saved(t, d) \in [Traces -> Document \cup {None}]
           /\ \A u \in Traces : Saved(t, d)[u] = None <=> u # t /\ stored[u] = None
<1>1. d.spans \in SUBSET ShownSpan /\ d.status \in Status
  BY DEF Document
<1>2. \A old, new \in SUBSET ShownSpan : Merged(old, new) \in SUBSET ShownSpan
  BY DEF Merged
<1>3. ASSUME NEW u \in Traces
      PROVE  /\ Saved(t, d)[u] \in Document \cup {None}
             /\ Saved(t, d)[u] = None <=> u # t /\ stored[u] = None
  <2> DEFINE new == {x \in d.spans : x.trace = u}
             old == IF stored[u] = None THEN {} ELSE stored[u].spans
  <2>1. stored[u] \in Document \cup {None}
    BY DEF TypeOK
  <2>2. new \in SUBSET ShownSpan /\ old \in SUBSET ShownSpan
    BY <1>1, <2>1 DEF Document
  <2>3. Saved(t, d)[u] = IF u = t THEN [status |-> d.status, spans |-> Merged(old, new)]
                         ELSE IF stored[u] = None THEN None
                         ELSE [status |-> stored[u].status, spans |-> Merged(old, new)]
    BY DEF Saved
  <2> HIDE DEF new, old
  <2>4. Merged(old, new) \in SUBSET ShownSpan
    BY <1>2, <2>2
  <2>5. IF u # t /\ stored[u] = None THEN Saved(t, d)[u] = None ELSE Saved(t, d)[u] \in Document
    BY <1>1, <2>1, <2>3, <2>4 DEF Document
  <2> QED
    BY <2>5, NoneAssumption
<1>4. Saved(t, d) = [u \in Traces |-> Saved(t, d)[u]]
  BY DEF Saved
<1> QED
  BY <1>3, <1>4

LEMMA TypesRestating ==
    ASSUME TInv, NEW k \in Strands, Restating(k)
    PROVE  TInv'
<1>1. /\ Restated(k)
      /\ strand'[k].failing # None =>
            strand'[k].failing \in Spans /\ span[strand'[k].failing] # None
  BY RestatingEffects
<1>2. TypeOK'
  BY <1>1 DEF Restated, TInv, TypeOK
<1>3. \A j \in Strands : strand'[j].stack = strand[j].stack /\ strand'[j].out = strand[j].out
  BY <1>1 DEF Restated
<1>4. /\ \A h \in Contexts : made[h] # None => made[h] \in Traces
      /\ \A s \in Spans : span[s] # None => span[s].trace \in Traces
  BY DEF TInv, TypeOK, SpanRec
<1>5. /\ \A h \in Contexts : made'[h] # None => trace'[made'[h]] # None
      /\ \A s \in Spans : span'[s] # None =>
            made'[span'[s].via] # None /\ trace'[span'[s].trace] # None
  BY <1>1, <1>4 DEF Restated, TInv, Known
<1>6. \A j \in Strands : \A i \in 1..Len(strand'[j].stack) :
         LET b == strand'[j].stack[i]
         IN  IF b.kind = "trace" THEN made'[b.id] # None ELSE span'[b.id] # None
  <2> SUFFICES ASSUME NEW j \in Strands, NEW i \in 1..Depth(j)
               PROVE  LET b == strand[j].stack[i]
                      IN  IF b.kind = "trace" THEN made[b.id] # None ELSE span'[b.id] # None
    BY <1>1, <1>3 DEF Restated, Depth
  <2>1. strand[j].stack[i] \in Block
    BY StrandTypes DEF TInv
  <2> QED
    BY <1>1, <2>1, BlockTypes DEF Restated, TInv, Known
<1>7. \A t \in Traces : trace'[t] # None =>
         \A i \in 1..Len(trace'[t].spans) : span'[trace'[t].spans[i]] # None
  <2>1. \A t \in Traces : trace[t] # None =>
           \A i \in 1..Len(trace[t].spans) : trace[t].spans[i] \in Spans
    BY DEF TInv, TypeOK, TraceRec
  <2> QED
    BY <1>1, <2>1 DEF Restated, TInv, Known
<1>8. \A j \in Strands : strand'[j].out # None => trace'[strand'[j].out.trace] # None
  <2>1. \A j \in Strands : strand[j].out # None => strand[j].out.trace \in Traces
    BY StrandTypes DEF TInv, Strand, Out
  <2> QED
    BY <1>1, <1>3, <2>1 DEF Restated, TInv, Known
<1>9. \A j \in Strands : strand'[j].failing # None => span'[strand'[j].failing] # None
  <2>1. \A j \in Strands : strand[j].failing # None => strand[j].failing \in Spans
    BY StrandTypes DEF TInv
  <2> QED
    BY <1>1, <2>1 DEF Restated, TInv, Known
<1> QED
  BY <1>2, <1>5, <1>6, <1>7, <1>8, <1>9 DEF TInv, Known, Depth

\* A block that is left leaves the others as they were.
LEMMA BlocksLeft ==
    ASSUME TInv, NEW k \in Strands, NEW raising, NEW out, AfterPop(k, raising, out),
           UNCHANGED <<made, span>>
    PROVE  /\ \A j \in Strands : \A i \in 1..Len(strand'[j].stack) :
                 LET b == strand'[j].stack[i]
                 IN  IF b.kind = "trace" THEN made'[b.id] # None ELSE span'[b.id] # None
           /\ \A j \in Strands : strand'[j].failing # None => span'[strand'[j].failing] # None
<1>1. ASSUME NEW j \in Strands, NEW i \in 1..Len(strand'[j].stack)
      PROVE  LET b == strand'[j].stack[i]
             IN  IF b.kind = "trace" THEN made'[b.id] # None ELSE span'[b.id] # None
  <2>1. PICK n \in 1..Depth(j) : strand'[j].stack[i] = strand[j].stack[n]
    BY BlocksBeforePop
  <2> QED
    BY <2>1 DEF TInv, Known
<1>2. \A j \in Strands : strand'[j].failing = strand[j].failing
  BY DEF AfterPop
<1> QED
  BY <1>1, <1>2 DEF TInv, Known

LEMMA TypesLeaveSpan ==
    ASSUME TInv, NEW k \in Strands, LeaveSpan(k)
    PROVE  TInv'
<1>1. PICK s \in Spans, t \in Traces, resets \in BOOLEAN : SpanLeft(k, s, t, resets)
  BY LeaveSpanSomehow
<1>2. PICK raising : AfterPop(k, raising, strand[k].out)
  BY <1>1 DEF SpanLeft
<1>3. UNCHANGED <<made, span, curTrace, posted, stored>>
  BY DEF LeaveSpan
<1>4. curSpan' \in [Strands -> Spans \cup {None}]
  <2>1. Head(strand[k].stack).old \in Spans \cup {None}
    BY HeadTypes, BlockTypes DEF LeaveSpan
  <2> QED
    BY <2>1 DEF LeaveSpan, ResetSpan, TInv, TypeOK
<1>5. TypeOK'
  BY <1>1, <1>2, <1>3, <1>4 DEF SpanLeft, AfterPop, TInv, TypeOK
<1>6. \A x \in Traces : trace'[x] # None => \A i \in 1..Len(trace'[x].spans) :
         span'[trace'[x].spans[i]] # None
  <2>1. trace[t].spans \in Seq(Spans)
    BY <1>1 DEF SpanLeft, TInv, TypeOK, TraceRec
  <2>2. \A i \in 1..Len(trace'[t].spans) : \/ trace'[t].spans[i] = s
                                           \/ i \in 1..Len(trace[t].spans)
                                              /\ trace'[t].spans[i] = trace[t].spans[i]
    <3>1. s \in Spans /\ \/ trace'[t].spans = trace[t].spans
                         \/ trace'[t].spans = Append(trace[t].spans, s)
      BY <1>1, SpanLeftLists
    <3>2. PICK list, new :
            list \in Seq(Spans) /\ list = trace[t].spans /\ new = trace'[t].spans
      BY <2>1
    <3>3. new = list \/ new = Append(list, s)
      BY <3>1, <3>2
    <3>4. \A i \in 1..Len(new) : new[i] = s \/ (i \in 1..Len(list) /\ new[i] = list[i])
      BY <3>1, <3>3, PerhapsAppended
    <3> QED
      BY <3>2, <3>4
  <2>3. \A x \in Traces : trace[x] # None => \A i \in 1..Len(trace[x].spans) :
           span[trace[x].spans[i]] # None
    BY DEF TInv, Known
  <2>4. trace[t] # None /\ span[s] # None /\ \A x \in Traces \ {t} : trace'[x] = trace[x]
    BY <1>1 DEF SpanLeft
  <2> QED
    BY <1>3, <2>2, <2>3, <2>4
<1>7. \A x \in Traces : trace'[x] = None <=> trace[x] = None
  BY <1>1 DEF SpanLeft
<1>8. /\ \A j \in Strands : \A i \in 1..Len(strand'[j].stack) :
            LET b == strand'[j].stack[i]
            IN  IF b.kind = "trace" THEN made'[b.id] # None ELSE span'[b.id] # None
      /\ \A j \in Strands : strand'[j].failing # None => span'[strand'[j].failing] # None
  BY <1>2, <1>3, BlocksLeft
<1>9. \A j \in Strands : strand'[j].out # None => trace'[strand'[j].out.trace] # None
  <2>1. \A j \in Strands : strand'[j].out = strand[j].out
    BY <1>2 DEF AfterPop
  <2>2. \A j \in Strands : strand[j].out # None => strand[j].out.trace \in Traces
    BY StrandTypes DEF TInv, Strand, Out
  <2> QED
    BY <1>7, <2>1, <2>2 DEF TInv, Known
<1>10. /\ \A h \in Contexts : made'[h] # None => trace'[made'[h]] # None
       /\ \A x \in Spans : span'[x] # None =>
             made'[span'[x].via] # None /\ trace'[span'[x].trace] # None
  <2>1. /\ \A h \in Contexts : made[h] # None => made[h] \in Traces
        /\ \A x \in Spans : span[x] # None => span[x].trace \in Traces
    BY DEF TInv, TypeOK, SpanRec
  <2> QED
    BY <1>3, <1>7, <2>1 DEF TInv, Known
<1> QED
  BY <1>5, <1>6, <1>8, <1>9, <1>10 DEF TInv, Known, Depth

LEMMA TypesLeaveTrace ==
    ASSUME TInv, NEW k \in Strands, LeaveTrace(k)
    PROVE  TInv'
<1>1. PICK h \in Contexts, t \in Traces, resets \in BOOLEAN : TraceLeft(k, h, t, resets)
  BY LeaveTraceSomehow
<1>2. PICK raising, out : AfterPop(k, raising, out) /\ (out # None => out.trace = t)
  BY <1>1 DEF TraceLeft
<1>3. UNCHANGED <<made, trace, span, curSpan, posted, stored>> /\ trace[t] # None
  BY <1>1 DEF TraceLeft
<1>4. curTrace' \in [Strands -> Contexts \cup {None}]
  <2>1. Head(strand[k].stack).old \in Contexts \cup {None}
    BY HeadTypes, BlockTypes DEF LeaveTrace
  <2> QED
    BY <2>1 DEF LeaveTrace, TInv, TypeOK
<1>5. TypeOK'
  BY <1>2, <1>3, <1>4 DEF AfterPop, TInv, TypeOK
<1>6. /\ \A j \in Strands : \A i \in 1..Len(strand'[j].stack) :
            LET b == strand'[j].stack[i]
            IN  IF b.kind = "trace" THEN made'[b.id] # None ELSE span'[b.id] # None
      /\ \A j \in Strands : strand'[j].failing # None => span'[strand'[j].failing] # None
  BY <1>2, <1>3, BlocksLeft
<1>7. \A j \in Strands : strand'[j].out # None => trace'[strand'[j].out.trace] # None
  BY <1>2, <1>3 DEF AfterPop, TInv, Known
<1> QED
  BY <1>3, <1>5, <1>6, <1>7 DEF TInv, Known, Depth

LEMMA TypesExport ==
    ASSUME TInv, NEW k \in Strands, NEW succeeds \in BOOLEAN,
           Export(k, succeeds) \/ Post(k, succeeds)
    PROVE  TInv'
<1>1. Exported(k) /\ UNCHANGED <<made, trace, span, curTrace, curSpan>>
  BY ExportEffects
<1>2. /\ posted' \in [Traces -> Document \cup {None}]
      /\ stored' \in [Traces -> Document \cup {None}]
  <2>1. /\ posted \in [Traces -> Document \cup {None}] /\ stored \in [Traces -> Document \cup {None}]
        /\ TypeOK /\ strand[k].out # None
    BY <1>1 DEF TInv, TypeOK, Exported
  <2>2. CASE Export(k, succeeds)
    <3>1. PICK t \in Traces, d \in Document :
             stored' = IF succeeds THEN Saved(t, d) ELSE stored
      BY <2>1, <2>2, ExportedDocument DEF Export
    <3>2. Saved(t, d) \in [Traces -> Document \cup {None}]
      BY <2>1, SavedDocuments
    <3> QED
      BY <2>1, <2>2, <3>1, <3>2 DEF Export
  <2>3. CASE Post(k, succeeds)
    BY <2>1, <2>3, ExportedDocument DEF Post
  <2> QED
    BY <2>2, <2>3
<1>3. TypeOK'
  BY <1>1, <1>2 DEF Exported, TInv, TypeOK
<1>4. \A j \in Strands : /\ strand'[j].stack = strand[j].stack
                         /\ strand'[j].failing = strand[j].failing
                         /\ strand'[j].out # None => strand'[j].out = strand[j].out
  BY <1>1 DEF Exported
<1>5. Known'
  BY <1>1, <1>4 DEF TInv, Known, Depth
<1> QED
  BY <1>3, <1>5 DEF TInv

LEMMA TypesArrive ==
    ASSUME TInv, NEW t \in Traces, Arrive(t)
    PROVE  TInv'
<1>1. /\ UNCHANGED <<made, trace, span, curTrace, curSpan, strand>>
      /\ posted[t] # None /\ posted' = [posted EXCEPT ![t] = None]
      /\ stored' = Saved(t, posted[t]) \/ stored' = stored
  BY DEF Arrive
<1>2. posted[t] \in Document /\ TypeOK
  BY <1>1 DEF TInv, TypeOK
<1>3. Saved(t, posted[t]) \in [Traces -> Document \cup {None}]
  BY <1>2, SavedDocuments
<1>4. TypeOK'
  BY <1>1, <1>3 DEF TInv, TypeOK
<1>5. Known'
  BY <1>1 DEF TInv, Known, Depth
<1> QED
  BY <1>4, <1>5 DEF TInv

\* Steps of the host alone.
HostStep(k) == (\E c \in Strands : Migrate(k, c)) \/ Raise(k) \/ Catch(k) \/ Finish(k)
                 \/ SpanOutsideTrace(k)

\* What a strand does, by kinds of step.
LEMMA KindsOfStep ==
    ASSUME NEW k \in Strands, StrandNext(k)
    PROVE  /\ HasThread(k)
           /\ \/ \E j \in Strands, kind \in Kinds : Start(k, j, kind)
              \/ HostStep(k)
              \/ \E h \in Contexts, t \in Traces : EnterTrace(k, h, t)
              \/ \E h \in Contexts, s \in Spans : EnterSpan(k, h, s) \/ KeepSpan(k, h, s)
              \/ \E s \in Spans : EnterKept(k, s)
              \/ Restating(k)
              \/ LeaveSpan(k)
              \/ LeaveTrace(k)
              \/ \E succeeds \in BOOLEAN : Export(k, succeeds) \/ Post(k, succeeds)
BY DEF StrandNext, Host, Call, HostStep, Restating

\* The invariant of the types: what the objects of the SDK refer to has been made.
THEOREM TypesHold == Spec => []TInv
<1>1. Init => TInv
  <2>1. ASSUME Init
        PROVE  strand \in [Strands -> Strand]
    <3>1. << >> \in Seq(TraceBlock \cup SpanBlock)
      OBVIOUS
    <3>2. \A k \in Strands, at \in {"new", "live"} :
             NewStrand(at, "thread", k, k, None, None) \in Strand
      BY <3>1 DEF NewStrand, Strand, Origin, Kinds
    <3> QED
      BY <2>1, <3>2 DEF Init
  <2>2. Init => \A k \in Strands : /\ strand[k].stack = << >> /\ strand[k].out = None
                                   /\ strand[k].failing = None
    BY DEF Init, NewStrand
  <2> QED
    BY <2>1, <2>2 DEF Init, TInv, TypeOK, Known, Depth
<1>2. TInv /\ [Next]_vars => TInv'
  <2> SUFFICES ASSUME TInv, [Next]_vars
               PROVE  TInv'
    OBVIOUS
  <2>1. ASSUME NEW k \in Strands, StrandNext(k)
        PROVE  TInv'
    <3>1. ASSUME NEW s \in Spans, EnterKept(k, s)
          PROVE  TInv'
      <4>1. span[s].via \in Contexts
        BY <3>1 DEF EnterKept, TInv, TypeOK, SpanRec
      <4> QED
        BY <3>1, <4>1, TypesSpans
    <3> QED
      BY <2>1, <3>1, KindsOfStep, TypesStart, TypesHost, TypesEnterTrace, TypesSpans,
         TypesRestating, TypesLeaveSpan, TypesLeaveTrace, TypesExport DEF HostStep
  <2>2. ASSUME NEW t \in Traces, Arrive(t)
        PROVE  TInv'
    BY <2>2, TypesArrive
  <2>3. CASE UNCHANGED vars
    BY <2>3 DEF vars, TInv, TypeOK, Known, Depth
  <2> QED
    BY <2>1, <2>2, <2>3 DEF Next
<1> QED
  BY <1>1, <1>2, PTL DEF Spec

\* However the host uses the SDK, its objects keep their types.
THEOREM TypeCorrect == Spec => []TypeOK
<1>1. TInv => TypeOK
  BY DEF TInv
<1> QED
  BY <1>1, TypesHold, PTL

-----------------------------------------------------------------------------
(* What the steps do, for the invariants that follow *)

TraceBlockOf(k, h) == [kind |-> "trace", id |-> h, ctx |-> strand[k].ctx,
                       old |-> curTrace[strand[k].ctx]]

LEMMA EnterTraceEffects ==
    ASSUME TInv, NEW k \in Strands, NEW h \in Contexts, NEW t \in Traces, EnterTrace(k, h, t)
    PROVE  AfterPush(k, TraceBlockOf(k, h))
<1>1. TraceBlockOf(k, h) \in Block
  BY StrandTypes DEF TraceBlockOf, Block, TraceBlock, TInv, TypeOK
<1>2. Pushes(k, TraceBlockOf(k, h))
  BY DEF EnterTrace, Pushes, TraceBlockOf
<1> QED
  BY <1>1, <1>2, PushedStrand DEF TInv

\* Steps of the host alone leave the blocks and the calls of the SDK as they are.
Keeps(f) == \A j \in Strands : strand'[j][f] = strand[j][f]

LEMMA HostEffects ==
    ASSUME TInv, NEW k \in Strands, HostStep(k)
    PROVE  /\ UNCHANGED <<made, trace, span, curTrace, curSpan, posted, stored>>
           /\ Keeps("stack") /\ Keeps("out") /\ Keeps("under") /\ Keeps("base") /\ Keeps("kind")
           /\ Keeps("step") /\ Keeps("failing")
           /\ \A j \in Strands \ {k} : strand'[j] = strand[j]
           /\ Idle(k)
<1>1. strand \in [Strands -> Strand] /\ strand[k] \in Strand
  BY DEF TInv, TypeOK
<1> DEFINE Same(r) == \A f \in {"stack", "out", "under", "base", "kind", "step", "failing"} :
                         r[f] = strand[k][f]
<1>2. \E r : strand' = [strand EXCEPT ![k] = r] /\ Same(r)
  <2>1. CASE \E c \in Strands : Migrate(k, c)
    <3>1. PICK c \in Strands : strand' = [strand EXCEPT ![k].ctx = c, ![k].on = strand[c].on]
      BY <2>1 DEF Migrate
    <3>2. Same([strand[k] EXCEPT !.ctx = c, !.on = strand[c].on])
      BY <1>1 DEF Strand
    <3> QED
      BY <1>1, <3>1, <3>2
  <2>2. CASE Raise(k) \/ Catch(k) \/ SpanOutsideTrace(k)
    <3>1. PICK x : strand' = [strand EXCEPT ![k].raising = x]
      BY <2>2 DEF Raise, Catch, SpanOutsideTrace
    <3>2. Same([strand[k] EXCEPT !.raising = x])
      BY <1>1 DEF Strand
    <3> QED
      BY <1>1, <3>1, <3>2
  <2>3. CASE Finish(k)
    <3>1. Same([strand[k] EXCEPT !.at = "over"])
      BY <1>1 DEF Strand
    <3> QED
      BY <1>1, <2>3, <3>1 DEF Finish
  <2> QED
    BY <2>1, <2>2, <2>3 DEF HostStep
<1>3. UNCHANGED <<made, trace, span, curTrace, curSpan, posted, stored>> /\ Idle(k)
  BY DEF HostStep, Migrate, Raise, Catch, Finish, SpanOutsideTrace, Live, Running
<1>4. PICK r : strand' = [strand EXCEPT ![k] = r] /\ Same(r)
  BY <1>2
<1>5. \A j \in Strands : strand'[j] = IF j = k THEN r ELSE strand[j]
  BY <1>1, <1>4
<1> QED
  BY <1>3, <1>4, <1>5 DEF Keeps

LEMMA StartEffects ==
    ASSUME TInv, NEW k \in Strands, NEW j \in Strands, NEW kind \in Kinds, Start(k, j, kind)
    PROVE  /\ \A g \in Strands \ {j} : strand'[g] = strand[g]
           /\ strand'[j].stack = << >> /\ strand'[j].out = None /\ strand'[j].raising = "no"
           /\ strand'[j].step = "host" /\ strand'[j].failing = None
           /\ strand'[j].at = "live" /\ strand'[j].kind = kind
           /\ strand'[j].under = curTrace[strand[k].ctx]
           /\ strand'[j].on = IF kind \in {"thread", "worker"} THEN j ELSE strand[k].on
           /\ strand'[j].base = IF kind = "thread" THEN None ELSE curSpan[strand[k].ctx]
           /\ strand'[j].ctx = IF kind = "generator" THEN strand[k].ctx ELSE j
           /\ UNCHANGED <<made, trace, span, posted, stored>>
           /\ kind \in Usage /\ strand[j].at = "new" /\ Running(k)
BY DEF Start, NewStrand, TInv, TypeOK

-----------------------------------------------------------------------------
(* The host is not crashed *)

\* Blocks are left in the context they were entered in, so every variable can be reset.
OwnContext ==
    \A k \in Strands :
        /\ strand[k].raising # "sdk"
        /\ \A i \in 1..Depth(k) : strand[k].stack[i].ctx = strand[k].ctx

LEMMA OwnContextStep ==
    ASSUME "migrate" \notin Usage, TInv, OwnContext, NEW k \in Strands, StrandNext(k)
    PROVE  OwnContext'
<1>1. ASSUME NEW j \in Strands, NEW kind \in Kinds, Start(k, j, kind)
      PROVE  OwnContext'
  BY <1>1, StartEffects DEF OwnContext, Depth
<1>2. ASSUME HostStep(k)
      PROVE  OwnContext'
  <2>1. Keeps("stack") /\ \A j \in Strands \ {k} : strand'[j] = strand[j]
    BY <1>2, HostEffects
  <2>2. strand'[k].raising # "sdk" /\ (strand'[k].ctx = strand[k].ctx \/ strand[k].stack = << >>)
    <3>1. strand \in [Strands -> Strand] /\ strand[k] \in Strand
      BY DEF TInv, TypeOK
    <3>2. CASE \E c \in Strands : Migrate(k, c)
      BY <3>1, <3>2 DEF Migrate, OwnContext, Strand
    <3>3. CASE Raise(k) \/ Catch(k) \/ Finish(k) \/ SpanOutsideTrace(k)
      BY <3>1, <3>3 DEF Raise, Catch, Finish, SpanOutsideTrace, OwnContext, Strand
    <3> QED
      BY <1>2, <3>2, <3>3 DEF HostStep
  <2> QED
    BY <2>1, <2>2 DEF OwnContext, Depth, Keeps
<1>3. ASSUME NEW b, b.ctx = strand[k].ctx, AfterPush(k, b)
      PROVE  OwnContext'
  <2>1. \A j \in Strands : strand'[j].ctx = strand[j].ctx /\ strand'[j].raising = strand[j].raising
    BY <1>3 DEF AfterPush, Fixed, Calls
  <2>2. ASSUME NEW j \in Strands, NEW i \in 1..Len(strand'[j].stack)
        PROVE  strand'[j].stack[i].ctx = strand[j].ctx
    <3>1. \/ \E n \in 1..Depth(j) : strand'[j].stack[i] = strand[j].stack[n]
          \/ j = k /\ strand'[j].stack[i] = b
      BY <1>3, BlocksBeforePush
    <3> QED
      BY <1>3, <3>1 DEF OwnContext
  <2> QED
    BY <2>1, <2>2 DEF OwnContext, Depth
<1>4. ASSUME NEW out, AfterPop(k, strand[k].raising, out)
      PROVE  OwnContext'
  <2>1. \A j \in Strands : strand'[j].ctx = strand[j].ctx /\ strand'[j].raising = strand[j].raising
    BY <1>4 DEF AfterPop, Fixed
  <2>2. ASSUME NEW j \in Strands, NEW i \in 1..Len(strand'[j].stack)
        PROVE  strand'[j].stack[i].ctx = strand[j].ctx
    <3>1. PICK n \in 1..Depth(j) : strand'[j].stack[i] = strand[j].stack[n]
      BY <1>4, BlocksBeforePop
    <3> QED
      BY <3>1 DEF OwnContext
  <2> QED
    BY <2>1, <2>2 DEF OwnContext, Depth
<1>5. ASSUME NEW h \in Contexts, NEW t \in Traces, EnterTrace(k, h, t)
      PROVE  OwnContext'
  BY <1>3, <1>5, EnterTraceEffects DEF TraceBlockOf
<1>6. ASSUME NEW s \in Spans, OpenSpan(k, s)
      PROVE  OwnContext'
  BY <1>3, <1>6, OpenSpanEffects
<1>7. ASSUME NEW h \in Contexts, NEW s \in Spans, KeepSpan(k, h, s)
      PROVE  OwnContext'
  BY <1>7 DEF KeepSpan, OwnContext, Depth
<1>8. ASSUME strand[k].stack # << >>
      PROVE  strand[k].stack[1].ctx = strand[k].ctx
  BY <1>8, StrandTypes DEF OwnContext, Depth, TInv
<1>9. ASSUME LeaveSpan(k)
      PROVE  OwnContext'
  <2>1. SpanLeft(k, strand[k].stack[1].id, made[span[strand[k].stack[1].id].via],
                 strand[k].stack[1].ctx = strand[k].ctx)
    BY <1>9, LeaveSpanEffects
  <2>2. AfterPop(k, strand[k].raising, strand[k].out)
    BY <1>8, <2>1 DEF SpanLeft
  <2> QED
    BY <1>4, <2>2
<1>10. ASSUME LeaveTrace(k)
       PROVE  OwnContext'
  <2>1. TraceLeft(k, strand[k].stack[1].id, made[strand[k].stack[1].id],
                  strand[k].stack[1].ctx = strand[k].ctx)
    BY <1>10, LeaveTraceEffects
  <2>2. \E out : AfterPop(k, strand[k].raising, out)
    BY <1>8, <2>1 DEF TraceLeft
  <2> QED
    BY <1>4, <2>2
<1>11. ASSUME NEW succeeds \in BOOLEAN, Export(k, succeeds) \/ Post(k, succeeds)
       PROVE  OwnContext'
  <2>1. Exported(k)
    BY <1>11, ExportEffects
  <2> QED
    BY <2>1 DEF Exported, OwnContext, Depth, Fixed
<1>12. ASSUME Restating(k)
       PROVE  OwnContext'
  <2>1. Restated(k)
    BY <1>12, RestatingEffects
  <2>2. \A j \in Strands : /\ strand'[j].stack = strand[j].stack
                           /\ strand'[j].ctx = strand[j].ctx
                           /\ strand'[j].raising = strand[j].raising
    BY <2>1 DEF Restated, Fixed
  <2> QED
    BY <2>2 DEF OwnContext, Depth
<1> QED
  BY <1>1, <1>2, <1>5, <1>6, <1>7, <1>9, <1>10, <1>11, <1>12, KindsOfStep
  DEF EnterSpan, EnterKept

LEMMA OwnContextHolds ==
    ASSUME "migrate" \notin Usage
    PROVE  Spec => []OwnContext
<1>1. Init => OwnContext
  BY DEF Init, NewStrand, OwnContext, Depth
<1>2. TInv /\ OwnContext /\ [Next]_vars => OwnContext'
  <2>1. \A k \in Strands : TInv /\ OwnContext /\ StrandNext(k) => OwnContext'
    BY OwnContextStep
  <2>2. \A t \in Traces : OwnContext /\ Arrive(t) => OwnContext'
    BY DEF Arrive, OwnContext, Depth
  <2>3. OwnContext /\ UNCHANGED vars => OwnContext'
    BY DEF vars, OwnContext, Depth
  <2> QED
    BY <2>1, <2>2, <2>3 DEF Next
<1> QED
  BY <1>1, <1>2, TypesHold, PTL DEF Spec

\* Unless a generator is resumed in another context with a block open, nothing that the
\* SDK does raises into the host.
THEOREM HostIsNotCrashed ==
    ASSUME "migrate" \notin Usage
    PROVE  Spec => []NeverCrashesHost
<1>1. OwnContext => NeverCrashesHost
  BY DEF OwnContext, NeverCrashesHost
<1> QED
  BY <1>1, OwnContextHolds, PTL

-----------------------------------------------------------------------------
(* Which blocks are open *)

\* No two blocks are of the same TraceContext, or of the same span.
Distinct(kind) ==
    \A j, k \in Strands : \A i \in 1..Depth(j), n \in 1..Depth(k) :
        LET b == strand[j].stack[i]
            d == strand[k].stack[n]
        IN  b.kind = kind /\ d.kind = kind /\ b.id = d.id => j = k /\ i = n

\* Where a block was before a push or after a pop of strand k.
Shifted(k, j, i, d) == IF j = k THEN i + d ELSE i

LEMMA PushIndex ==
    ASSUME NEW k \in Strands, NEW b, AfterPush(k, b),
           NEW j \in Strands, NEW i \in 1..Len(strand'[j].stack), ~(j = k /\ i = 1)
    PROVE  /\ Shifted(k, j, i, -1) \in 1..Depth(j)
           /\ strand'[j].stack[i] = strand[j].stack[Shifted(k, j, i, -1)]
<1>1. CASE j # k
  BY <1>1 DEF AfterPush, Depth, Shifted
<1>2. CASE j = k
  BY <1>2 DEF AfterPush, Depth, Shifted
<1> QED
  BY <1>1, <1>2

LEMMA PopIndex ==
    ASSUME NEW k \in Strands, NEW raising, NEW out, AfterPop(k, raising, out),
           NEW j \in Strands, NEW i \in 1..Len(strand'[j].stack)
    PROVE  /\ Shifted(k, j, i, 1) \in 1..Depth(j)
           /\ strand'[j].stack[i] = strand[j].stack[Shifted(k, j, i, 1)]
<1>1. CASE j # k
  BY <1>1 DEF AfterPop, Depth, Shifted
<1>2. CASE j = k
  BY <1>2 DEF AfterPop, Depth, Shifted
<1> QED
  BY <1>1, <1>2

\* A block that is entered is open from then on, ...
LEMMA OpenAfterPush ==
    ASSUME TypeOK, NEW k \in Strands, NEW b, AfterPush(k, b), NEW kind, NEW id
    PROVE  IsOpen(kind, id)' <=> IsOpen(kind, id) \/ (b.kind = kind /\ b.id = id)
<1>1. ASSUME IsOpen(kind, id)'
      PROVE  IsOpen(kind, id) \/ (b.kind = kind /\ b.id = id)
  <2>1. PICK j \in Strands : \E i \in 1..Len(strand'[j].stack) :
           strand'[j].stack[i].kind = kind /\ strand'[j].stack[i].id = id
    BY <1>1 DEF IsOpen, Depth
  <2>2. PICK i \in 1..Len(strand'[j].stack) :
           strand'[j].stack[i].kind = kind /\ strand'[j].stack[i].id = id
    BY <2>1
  <2>3. \/ \E n \in 1..Depth(j) : strand'[j].stack[i] = strand[j].stack[n]
        \/ j = k /\ strand'[j].stack[i] = b
    BY BlocksBeforePush
  <2> QED
    BY <2>2, <2>3 DEF IsOpen
<1>2. ASSUME IsOpen(kind, id)
      PROVE  IsOpen(kind, id)'
  <2>a. PICK j \in Strands : \E i \in 1..Depth(j) :
           strand[j].stack[i].kind = kind /\ strand[j].stack[i].id = id
    BY <1>2 DEF IsOpen
  <2>1. PICK i \in 1..Depth(j) : strand[j].stack[i].kind = kind /\ strand[j].stack[i].id = id
    BY <2>a
  <2>2. CASE j # k
    BY <2>1, <2>2 DEF AfterPush, IsOpen, Depth
  <2>3. CASE j = k
    <3>1. i + 1 \in 1..Len(strand'[k].stack) /\ strand'[k].stack[i + 1] = strand[k].stack[i]
      BY <2>3 DEF AfterPush
    <3> QED
      BY <2>1, <2>3, <3>1 DEF IsOpen, Depth
  <2> QED
    BY <2>2, <2>3
<1>3. ASSUME b.kind = kind, b.id = id
      PROVE  IsOpen(kind, id)'
  <2>1. 1 \in 1..Len(strand'[k].stack) /\ strand'[k].stack[1] = b
    BY DEF AfterPush
  <2> QED
    BY <1>3, <2>1 DEF IsOpen, Depth
<1> QED
  BY <1>1, <1>2, <1>3

\* ... and one that is left no more.
LEMMA OpenAfterPop ==
    ASSUME TypeOK, NEW k \in Strands, NEW raising, NEW out, AfterPop(k, raising, out),
           NEW kind, NEW id
    PROVE  LET b == strand[k].stack[1]
           IN  /\ IsOpen(kind, id)' => IsOpen(kind, id)
               /\ Distinct(kind) /\ b.kind = kind /\ b.id = id => ~IsOpen(kind, id)'
               /\ IsOpen(kind, id) /\ ~(b.kind = kind /\ b.id = id) => IsOpen(kind, id)'
<1> DEFINE b == strand[k].stack[1]
<1>1. ASSUME IsOpen(kind, id)'
      PROVE  IsOpen(kind, id) /\ (Distinct(kind) => ~(b.kind = kind /\ b.id = id))
  <2>1. PICK j \in Strands : \E i \in 1..Len(strand'[j].stack) :
           strand'[j].stack[i].kind = kind /\ strand'[j].stack[i].id = id
    BY <1>1 DEF IsOpen, Depth
  <2>2. PICK i \in 1..Len(strand'[j].stack) :
           strand'[j].stack[i].kind = kind /\ strand'[j].stack[i].id = id
    BY <2>1
  <2> DEFINE n == Shifted(k, j, i, 1)
  <2>3. n \in 1..Depth(j) /\ strand'[j].stack[i] = strand[j].stack[n]
    BY PopIndex
  <2>4. 1 \in 1..Depth(k) /\ ~(j = k /\ n = 1)
    <3>1. CASE j = k
      BY <3>1 DEF AfterPop, Shifted
    <3>2. CASE j # k
      BY <3>2 DEF AfterPop
    <3> QED
      BY <3>1, <3>2
  <2> HIDE DEF n
  <2> QED
    BY <2>2, <2>3, <2>4 DEF IsOpen, Distinct
<1>2. ASSUME IsOpen(kind, id), ~(b.kind = kind /\ b.id = id)
      PROVE  IsOpen(kind, id)'
  <2>a. PICK j \in Strands : \E i \in 1..Depth(j) :
           strand[j].stack[i].kind = kind /\ strand[j].stack[i].id = id
    BY <1>2 DEF IsOpen
  <2>1. PICK i \in 1..Depth(j) : strand[j].stack[i].kind = kind /\ strand[j].stack[i].id = id
    BY <2>a
  <2>2. CASE j # k
    BY <2>1, <2>2 DEF AfterPop, IsOpen, Depth
  <2>3. CASE j = k
    <3>1. i # 1
      BY <1>2, <2>1, <2>3
    <3>2. i - 1 \in 1..Len(strand'[k].stack) /\ strand'[k].stack[i - 1] = strand[k].stack[i]
      BY <2>3, <3>1 DEF AfterPop
    <3> QED
      BY <2>1, <2>3, <3>2 DEF IsOpen, Depth
  <2> QED
    BY <2>2, <2>3
<1> QED
  BY <1>1, <1>2

LEMMA DistinctAfterPush ==
    ASSUME TypeOK, NEW k \in Strands, NEW b, AfterPush(k, b), NEW kind,
           Distinct(kind), b.kind = kind => ~IsOpen(kind, b.id)
    PROVE  Distinct(kind)'
<1>1. ASSUME NEW j \in Strands, NEW i \in 1..Len(strand'[j].stack),
             NEW g \in Strands, NEW n \in 1..Len(strand'[g].stack),
             strand'[j].stack[i].kind = kind, strand'[g].stack[n].kind = kind,
             strand'[j].stack[i].id = strand'[g].stack[n].id
      PROVE  j = g /\ i = n
  <2> DEFINE i0 == Shifted(k, j, i, -1)
             n0 == Shifted(k, g, n, -1)
  <2>1. ~(j = k /\ i = 1) => i0 \in 1..Depth(j) /\ strand'[j].stack[i] = strand[j].stack[i0]
    BY PushIndex
  <2>2. ~(g = k /\ n = 1) => n0 \in 1..Depth(g) /\ strand'[g].stack[n] = strand[g].stack[n0]
    BY PushIndex
  <2>3. strand'[k].stack[1] = b
    BY DEF AfterPush
  <2>4. (j = g /\ i0 = n0) => i = n
    BY DEF Shifted
  <2> HIDE DEF i0, n0
  <2>5. CASE j = k /\ i = 1
    BY <1>1, <2>2, <2>3, <2>5 DEF IsOpen
  <2>6. CASE g = k /\ n = 1
    BY <1>1, <2>1, <2>3, <2>6 DEF IsOpen
  <2>7. CASE ~(j = k /\ i = 1) /\ ~(g = k /\ n = 1)
    <3>1. /\ i0 \in 1..Depth(j) /\ strand[j].stack[i0].kind = kind
          /\ n0 \in 1..Depth(g) /\ strand[g].stack[n0].kind = kind
          /\ strand[j].stack[i0].id = strand[g].stack[n0].id
      BY <1>1, <2>1, <2>2, <2>7
    <3>2. j = g /\ i0 = n0
      BY <3>1 DEF Distinct
    <3> QED
      BY <2>4, <3>2
  <2> QED
    BY <2>5, <2>6, <2>7
<1> QED
  BY <1>1 DEF Distinct, Depth

LEMMA DistinctAfterPop ==
    ASSUME TypeOK, NEW k \in Strands, NEW raising, NEW out, AfterPop(k, raising, out), NEW kind,
           Distinct(kind)
    PROVE  Distinct(kind)'
<1>1. ASSUME NEW j \in Strands, NEW i \in 1..Len(strand'[j].stack),
             NEW g \in Strands, NEW n \in 1..Len(strand'[g].stack),
             strand'[j].stack[i].kind = kind, strand'[g].stack[n].kind = kind,
             strand'[j].stack[i].id = strand'[g].stack[n].id
      PROVE  j = g /\ i = n
  <2> DEFINE i0 == Shifted(k, j, i, 1)
             n0 == Shifted(k, g, n, 1)
  <2>1. i0 \in 1..Depth(j) /\ strand'[j].stack[i] = strand[j].stack[i0]
    BY PopIndex
  <2>2. n0 \in 1..Depth(g) /\ strand'[g].stack[n] = strand[g].stack[n0]
    BY PopIndex
  <2>3. (j = g /\ i0 = n0) => i = n
    BY DEF Shifted
  <2> HIDE DEF i0, n0
  <2> QED
    BY <1>1, <2>1, <2>2, <2>3 DEF Distinct
<1> QED
  BY <1>1 DEF Distinct, Depth

\* Strands that keep their blocks, or start with none, open none.
LEMMA BlocksKept ==
    ASSUME NEW kind,
           \A j \in Strands : strand'[j].stack = strand[j].stack \/ strand'[j].stack = << >>
    PROVE  /\ Distinct(kind) => Distinct(kind)'
           /\ \A id : IsOpen(kind, id)' => IsOpen(kind, id)
<1>1. \A j \in Strands : 1..Len(strand'[j].stack) \subseteq 1..Depth(j)
                         /\ \A i \in 1..Len(strand'[j].stack) :
                               strand'[j].stack[i] = strand[j].stack[i]
  BY DEF Depth
<1>2. ASSUME Distinct(kind)
      PROVE  Distinct(kind)'
  <2>1. ASSUME NEW j \in Strands, NEW i \in 1..Len(strand'[j].stack),
               NEW g \in Strands, NEW n \in 1..Len(strand'[g].stack),
               strand'[j].stack[i].kind = kind, strand'[g].stack[n].kind = kind,
               strand'[j].stack[i].id = strand'[g].stack[n].id
        PROVE  j = g /\ i = n
    <3>1. /\ i \in 1..Depth(j) /\ strand'[j].stack[i] = strand[j].stack[i]
          /\ n \in 1..Depth(g) /\ strand'[g].stack[n] = strand[g].stack[n]
      BY <1>1
    <3> QED
      BY <1>2, <2>1, <3>1 DEF Distinct
  <2> QED
    BY <2>1 DEF Distinct, Depth
<1>3. \A id : IsOpen(kind, id)' => IsOpen(kind, id)
  BY <1>1 DEF IsOpen, Depth
<1> QED
  BY <1>2, <1>3
-----------------------------------------------------------------------------
(* What was exported *)

\* A trace is sent from its exit on.
Sent == {t \in Traces :
    \/ posted[t] # None \/ stored[t] # None
    \/ \E k \in Strands : strand[k].out # None /\ strand[k].out.trace = t}

\* Each Trace has one TraceContext and one block, and is sent once, after the block is left.
Exclusive ==
    /\ Distinct("trace")
    /\ \A g, h \in Contexts : made[g] # None /\ made[g] = made[h] => g = h
    /\ \A h \in Contexts : IsOpen("trace", h) => made[h] \notin Sent
    /\ \A j, k \in Strands :
          strand[j].out # None /\ strand[k].out # None
            /\ strand[j].out.trace = strand[k].out.trace => j = k
    /\ \A k \in Strands : strand[k].out # None =>
          posted[strand[k].out.trace] = None /\ stored[strand[k].out.trace] = None
    /\ \A t \in Traces : posted[t] = None \/ stored[t] = None
    /\ \A t \in Traces : trace[t] = None => posted[t] = None /\ stored[t] = None

\* What is open has been made.
LEMMA OpenIsMade ==
    ASSUME TInv
    PROVE  /\ \A h \in Contexts : IsOpen("trace", h) => made[h] \in Traces /\ trace[made[h]] # None
           /\ \A s \in Spans : IsOpen("span", s) => span[s] # None /\ span[s] \in SpanRec
<1>1. \A kind, id : IsOpen(kind, id) =>
         \E k \in Strands : \E i \in 1..Depth(k) :
            /\ strand[k].stack[i].kind = kind /\ strand[k].stack[i].id = id
            /\ IF kind = "trace" THEN made[id] # None ELSE span[id] # None
  BY DEF TInv, Known, IsOpen
<1> QED
  BY <1>1 DEF TInv, TypeOK, Known

\* Steps that enter no trace and send nothing.
LEMMA ExclusiveKept ==
    ASSUME TInv, Exclusive, TInv',
           Distinct("trace")', \A h : IsOpen("trace", h)' => IsOpen("trace", h),
           made' = made, posted' = posted, stored' = stored,
           \A j \in Strands : strand'[j].out = strand[j].out \/ strand'[j].out = None,
           \A t \in Traces : trace'[t] = None => trace[t] = None
    PROVE  Exclusive'
<1>1. Sent' \subseteq Sent
  BY DEF Sent
<1> QED
  BY <1>1 DEF Exclusive

LEMMA ExclusiveEnterTrace ==
    ASSUME TInv, Exclusive, TInv',
           NEW k \in Strands, NEW h \in Contexts, NEW t \in Traces, EnterTrace(k, h, t)
    PROVE  Exclusive'
<1> DEFINE b == TraceBlockOf(k, h)
<1>1. AfterPush(k, b) /\ b.kind = "trace" /\ b.id = h
  BY EnterTraceEffects DEF TraceBlockOf
<1> HIDE DEF b
<1>2. /\ made' = [made EXCEPT ![h] = t] /\ trace[t] = None
      /\ \A x \in Traces : trace'[x] = None => trace[x] = None
      /\ UNCHANGED <<posted, stored>>
  BY DEF EnterTrace, TInv, TypeOK
<1>3. ~IsOpen("trace", h)
  <2>1. made[h] = None \/ ~IsOpen("trace", h)
    BY DEF EnterTrace
  <2>2. made[h] = None => ~IsOpen("trace", h)
    BY OpenIsMade, NamesAssumption
  <2> QED
    BY <2>1, <2>2
<1>4. \A x : IsOpen("trace", x)' <=> IsOpen("trace", x) \/ x = h
  BY <1>1, OpenAfterPush DEF TInv
<1>5. Distinct("trace")'
  BY <1>1, <1>3, DistinctAfterPush DEF Exclusive, TInv
<1>6. \A j \in Strands : strand'[j].out = strand[j].out
  BY <1>1 DEF AfterPush, Calls
<1>7. Sent' = Sent
  BY <1>2, <1>6 DEF Sent
<1>8. t \notin Sent /\ \A g \in Contexts : made[g] # t
  BY <1>2, NamesAssumption DEF Exclusive, Sent, TInv, Known
<1>9. \A g \in Contexts : made'[g] = IF g = h THEN t ELSE made[g]
  BY <1>2 DEF TInv, TypeOK
<1>10. \A g \in Contexts : IsOpen("trace", g)' => made'[g] \notin Sent'
  BY <1>4, <1>7, <1>8, <1>9 DEF Exclusive
<1>11. \A g, x \in Contexts : made'[g] # None /\ made'[g] = made'[x] => g = x
  BY <1>8, <1>9 DEF Exclusive
<1> QED
  BY <1>2, <1>5, <1>6, <1>10, <1>11 DEF Exclusive

LEMMA ExclusiveLeaveTrace ==
    ASSUME TInv, Exclusive, TInv', NEW k \in Strands, LeaveTrace(k)
    PROVE  Exclusive'
<1>1. PICK h \in Contexts, t \in Traces, resets \in BOOLEAN : TraceLeft(k, h, t, resets)
  BY LeaveTraceSomehow
<1> DEFINE b == strand[k].stack[1]
           raising == IF resets THEN strand[k].raising ELSE "sdk"
           out == IF resets THEN [trace |-> t, status |-> trace[t].status] ELSE None
<1>2. AfterPop(k, raising, out) /\ b.kind = "trace" /\ b.id = h /\ t = made[h] /\ trace[t] # None
  BY <1>1 DEF TraceLeft
<1>3. UNCHANGED <<made, posted, stored>>
  BY DEF LeaveTrace
<1>4. 1 \in 1..Depth(k) /\ IsOpen("trace", h) /\ t \notin Sent
  BY <1>2 DEF AfterPop, IsOpen, Exclusive
<1>5. out # None => out.trace = t
  OBVIOUS
<1> HIDE DEF b, raising, out
<1>6. \A g \in Contexts : IsOpen("trace", g)' => IsOpen("trace", g) /\ g # h
  BY <1>2, OpenAfterPop DEF b, Exclusive, TInv
<1>7. Distinct("trace")'
  BY <1>2, DistinctAfterPop DEF Exclusive, TInv
<1>8. \A j \in Strands : strand'[j].out = IF j = k THEN out ELSE strand[j].out
  BY <1>2 DEF AfterPop
<1>9. \A x : x \in Sent' => x \in Sent \/ x = t
  BY <1>3, <1>5, <1>8 DEF Sent
<1>10. \A g \in Contexts : IsOpen("trace", g)' => made'[g] \notin Sent'
  <2>1. \A g \in Contexts : IsOpen("trace", g) => made[g] \in Traces
    BY OpenIsMade
  <2> QED
    BY <1>2, <1>3, <1>6, <1>9, <2>1, NamesAssumption DEF Exclusive
<1>11. \A i, j \in Strands :
         strand'[i].out # None /\ strand'[j].out # None
           /\ strand'[i].out.trace = strand'[j].out.trace => i = j
  BY <1>4, <1>5, <1>8 DEF Exclusive, Sent
<1>12. \A j \in Strands : strand'[j].out # None =>
         posted[strand'[j].out.trace] = None /\ stored[strand'[j].out.trace] = None
  BY <1>4, <1>5, <1>8 DEF Exclusive, Sent
<1>13. trace' = trace
  BY <1>1 DEF TraceLeft
<1> QED
  BY <1>3, <1>7, <1>10, <1>11, <1>12, <1>13 DEF Exclusive

\* The exporter's work is done: the document is on its way, written or lost.
LEMMA ExclusiveExport ==
    ASSUME TInv, Exclusive, NEW k \in Strands, NEW succeeds \in BOOLEAN,
           Export(k, succeeds) \/ Post(k, succeeds)
    PROVE  Exclusive'
<1> DEFINE t == strand[k].out.trace
<1>1. Exported(k)
  BY ExportEffects
<1>2. UNCHANGED <<made, trace>> /\ t \in Traces /\ trace[t] # None
  BY <1>1, ExportEffects DEF Exported, Out
<1>3. /\ \A x \in Traces \ {t} : posted'[x] = posted[x] /\ (stored'[x] = None <=> stored[x] = None)
      /\ posted' = posted \/ stored' = stored
  <2>1. CASE Export(k, succeeds)
    <3>1. PICK d \in Document : stored' = Saved(t, d) \/ stored' = stored
      BY <1>1, <2>1, ExportedDocument DEF Export, Exported
    <3>2. posted' = posted
      BY <2>1 DEF Export
    <3> HIDE DEF t
    <3> QED
      BY <1>2, <3>1, <3>2, SavedDocuments DEF TInv
  <2>2. CASE Post(k, succeeds)
    BY <2>2 DEF Post, TInv, TypeOK
  <2> QED
    BY <2>1, <2>2
<1>4. posted[t] = None /\ stored[t] = None
  BY <1>1 DEF Exclusive, Exported
<1>5. \A j \in Strands : /\ strand'[j].stack = strand[j].stack
                         /\ strand'[j].out = IF j = k THEN None ELSE strand[j].out
  BY <1>1 DEF Exported
<1>6. Distinct("trace")' /\ \A h : IsOpen("trace", h)' => IsOpen("trace", h)
  <2>1. \A j \in Strands : strand'[j].stack = strand[j].stack \/ strand'[j].stack = << >>
    BY <1>5
  <2>2. Distinct("trace")
    BY DEF Exclusive
  <2> QED
    BY <2>1, <2>2, BlocksKept
<1>7. t \in Sent /\ \A j \in Strands \ {k} : strand[j].out # None => strand[j].out.trace # t
  <2>1. strand[k].out # None
    BY <1>1 DEF Exported
  <2>2. t \in Sent
    BY <1>2, <2>1 DEF Sent
  <2>3. \A j \in Strands \ {k} : strand[j].out # None => strand[j].out.trace # t
    BY <2>1 DEF Exclusive
  <2> QED
    BY <2>2, <2>3
<1>8. Sent' \subseteq Sent
  BY <1>3, <1>5, <1>7 DEF Sent
<1> HIDE DEF t
<1>9. \A h \in Contexts : IsOpen("trace", h)' => made'[h] \notin Sent'
  BY <1>2, <1>6, <1>8, OpenIsMade DEF Exclusive
<1>10. \A j \in Strands : strand'[j].out # None =>
          posted'[strand'[j].out.trace] = None /\ stored'[strand'[j].out.trace] = None
  <2>1. \A j \in Strands : strand[j].out # None => strand[j].out.trace \in Traces
    BY StrandTypes DEF TInv, Strand, Out
  <2> QED
    BY <1>3, <1>5, <1>7, <2>1 DEF Exclusive
<1>11. \A x \in Traces : /\ posted'[x] = None \/ stored'[x] = None
                         /\ trace'[x] = None => posted'[x] = None /\ stored'[x] = None
  <2>1. posted'[t] = None \/ stored'[t] = None
    BY <1>2, <1>3, <1>4
  <2> QED
    BY <1>2, <1>3, <2>1 DEF Exclusive
<1> QED
  BY <1>2, <1>5, <1>6, <1>9, <1>10, <1>11 DEF Exclusive

LEMMA ExclusiveArrive ==
    ASSUME TInv, Exclusive, NEW t \in Traces, Arrive(t)
    PROVE  Exclusive'
<1>1. /\ UNCHANGED <<made, trace, strand>> /\ posted[t] # None
      /\ posted'[t] = None /\ \A x \in Traces \ {t} : posted'[x] = posted[x]
      /\ \A x \in Traces \ {t} : stored'[x] = None <=> stored[x] = None
  <2>1. stored' = Saved(t, posted[t]) \/ stored' = stored
    BY DEF Arrive
  <2>2. posted[t] \in Document
    BY DEF Arrive, TInv, TypeOK
  <2>3. \A x \in Traces \ {t} : stored'[x] = None <=> stored[x] = None
    BY <2>1, <2>2, SavedDocuments DEF TInv
  <2> QED
    BY <2>3 DEF Arrive, TInv, TypeOK
<1>2. /\ Distinct("trace")' <=> Distinct("trace")
      /\ \A h : IsOpen("trace", h)' <=> IsOpen("trace", h)
  BY <1>1 DEF Distinct, IsOpen, Depth
<1>3. Sent' \subseteq Sent
  BY <1>1 DEF Sent
<1>4. \A j \in Strands : strand[j].out # None => strand[j].out.trace \in Traces \ {t}
  <2>1. \A j \in Strands : strand[j].out # None => strand[j].out.trace \in Traces
    BY StrandTypes DEF TInv, Strand, Out
  <2>2. \A j \in Strands : strand[j].out # None => strand[j].out.trace # t
    BY <1>1 DEF Exclusive
  <2> QED
    BY <2>1, <2>2
<1>5. \A h \in Contexts : IsOpen("trace", h)' => made'[h] \notin Sent'
  BY <1>1, <1>2, <1>3, OpenIsMade DEF Exclusive
<1> QED
  BY <1>1, <1>2, <1>4, <1>5 DEF Exclusive

LEMMA ExclusiveHolds == Spec => []Exclusive
<1>1. Init => Exclusive
  <2>1. Init => \A k \in Strands : strand[k].stack = << >> /\ strand[k].out = None
    BY DEF Init, NewStrand
  <2> QED
    BY <2>1 DEF Init, Exclusive, Distinct, IsOpen, Sent, Depth
<1>2. TInv /\ TInv' /\ Exclusive /\ [Next]_vars => Exclusive'
  <2> SUFFICES ASSUME TInv, TInv', Exclusive, [Next]_vars
               PROVE  Exclusive'
    OBVIOUS
  <2>1. ASSUME NEW k \in Strands, StrandNext(k)
        PROVE  Exclusive'
    <3>a. ASSUME \A g \in Strands : /\ strand'[g].stack = strand[g].stack \/ strand'[g].stack = << >>
                                    /\ strand'[g].out = strand[g].out \/ strand'[g].out = None,
                 UNCHANGED <<made, posted, stored>>,
                 \A t \in Traces : trace'[t] = None => trace[t] = None
          PROVE  Exclusive'
      BY <3>a, BlocksKept, ExclusiveKept DEF Exclusive
    <3>1. ASSUME NEW j \in Strands, NEW kind \in Kinds, Start(k, j, kind)
          PROVE  Exclusive'
      BY <3>1, <3>a, StartEffects
    <3>2. ASSUME HostStep(k)
          PROVE  Exclusive'
      BY <3>2, <3>a, HostEffects DEF Keeps
    <3>3. ASSUME NEW s \in Spans, OpenSpan(k, s), UNCHANGED <<made, trace, posted, stored>>
          PROVE  Exclusive'
      <4> DEFINE b == SpanBlockOf(k, s)
      <4>1. AfterPush(k, b) /\ b.kind # "trace"
        BY <3>3, OpenSpanEffects
      <4> HIDE DEF b
      <4>2. Distinct("trace")' /\ \A g : IsOpen("trace", g)' => IsOpen("trace", g)
        BY <4>1, DistinctAfterPush, OpenAfterPush DEF Exclusive, TInv
      <4>3. \A g \in Strands : strand'[g].out = strand[g].out \/ strand'[g].out = None
        BY <4>1 DEF AfterPush, Calls
      <4> QED
        BY <3>3, <4>2, <4>3, ExclusiveKept
    <3>4. ASSUME NEW h \in Contexts, NEW s \in Spans, KeepSpan(k, h, s)
          PROVE  Exclusive'
      BY <3>4, <3>a DEF KeepSpan
    <3>5. ASSUME Restating(k)
          PROVE  Exclusive'
      <4>1. Restated(k)
        BY <3>5, RestatingEffects
      <4> QED
        BY <4>1, <3>a DEF Restated
    <3>6. ASSUME LeaveSpan(k)
          PROVE  Exclusive'
      <4>1. PICK s \in Spans, t \in Traces, resets \in BOOLEAN : SpanLeft(k, s, t, resets)
        BY <3>6, LeaveSpanSomehow
      <4>2. PICK raising : AfterPop(k, raising, strand[k].out)
        BY <4>1 DEF SpanLeft
      <4>3. Distinct("trace")' /\ \A g : IsOpen("trace", g)' => IsOpen("trace", g)
        BY <4>2, DistinctAfterPop, OpenAfterPop DEF Exclusive, TInv
      <4>4. \A g \in Strands : strand'[g].out = strand[g].out \/ strand'[g].out = None
        BY <4>2 DEF AfterPop
      <4>5. UNCHANGED <<made, posted, stored>> /\ \A x \in Traces : trace'[x] = None => trace[x] = None
        BY <4>1 DEF SpanLeft
      <4> QED
        BY <4>3, <4>4, <4>5, ExclusiveKept
    <3>7. ASSUME NEW h \in Contexts, NEW s \in Spans, EnterSpan(k, h, s) \/ EnterKept(k, s)
          PROVE  Exclusive'
      BY <3>3, <3>7 DEF EnterSpan, EnterKept
    <3>8. ASSUME NEW s \in Spans, EnterKept(k, s)
          PROVE  Exclusive'
      BY <3>3, <3>8 DEF EnterKept
    <3> QED
      BY <2>1, <3>1, <3>2, <3>4, <3>5, <3>6, <3>7, <3>8, KindsOfStep, ExclusiveEnterTrace,
         ExclusiveLeaveTrace, ExclusiveExport
  <2>2. CASE UNCHANGED vars
    BY SMTT(40), <2>2 DEF vars, Exclusive, Distinct, IsOpen, Sent, Depth
  <2> QED
    BY <2>1, <2>2, ExclusiveArrive DEF Next
<1> QED
  BY <1>1, <1>2, TypesHold, PTL DEF Spec

-----------------------------------------------------------------------------
(* Spans and the lists of their traces *)

\* A block of a span whose __exit__ is done with the status has one.
Decided == \A k \in Strands : strand[k].step = "leave" /\ InBlock(k, "span") =>
    span[strand[k].stack[1].id].status # "UNSET"

LEMMA InBlockHead ==
    ASSUME TInv, NEW k \in Strands, NEW kind
    PROVE  InBlock(k, kind) <=> strand[k].stack # << >> /\ strand[k].stack[1].kind = kind
BY StrandTypes, Popped DEF InBlock, TInv

\* A strand that stays where it was, while statuses are set.
LEMMA DecidedKept ==
    ASSUME TInv, TInv', Decided, NEW j \in Strands,
           strand'[j].stack = strand[j].stack, strand'[j].step = strand[j].step,
           \A s \in Spans : span[s] # None /\ span[s].status # "UNSET" => span'[s].status # "UNSET",
           strand'[j].step = "leave", InBlock(j, "span")'
    PROVE  span'[strand'[j].stack[1].id].status # "UNSET"
<1>1. InBlock(j, "span") /\ strand[j].step = "leave"
  BY DEF InBlock
<1>2. strand[j].stack[1].id \in Spans /\ span[strand[j].stack[1].id] # None
  BY <1>1, HeadTypes
<1> QED
  BY <1>1, <1>2 DEF Decided

\* A strand whose block is being left tests the status before, or has set it.
LEMMA DecidedRestating ==
    ASSUME TInv, TInv', Decided, NEW k \in Strands, Restating(k),
           strand'[k].step = "leave", InBlock(k, "span")'
    PROVE  span'[strand'[k].stack[1].id].status # "UNSET"
<1> DEFINE s == strand[k].stack[1].id
<1>1. /\ strand'[k].stack = strand[k].stack
      /\ \A x \in Spans : span[x] # None /\ span[x].status # "UNSET" => span'[x].status # "UNSET"
  BY RestatingEffects DEF Restated
<1>2. strand[k].stack # << >> /\ strand[k].stack[1].kind = "span"
  BY <1>1, StrandTypes, Popped DEF InBlock, TInv
<1>3. CASE \E x \in Spans : RecordError(k, x)
  BY <1>3, RecordErrorEffects DEF GoesOn
<1>4. CASE FailTrace(k)
  <2>1. strand'[k].step = strand[k].step
    BY <1>4, FailTraceEffects DEF GoesOn
  <2> QED
    BY <1>1, <2>1, DecidedKept
<1>5. CASE ExitSpan(k)
  <2>1. \/ SpanSet(s, "ERROR")
        \/ span' = span /\ strand'[k].step = StepAfter(span[s].status)
    BY <1>5, ExitSpanEffects DEF GoesOn
  <2> QED
    BY <1>1, <2>1 DEF SpanSet, StepAfter
<1>6. CASE SettleSpan(k)
  BY <1>1, <1>6, SettleSpanEffects DEF SpanSet
<1>7. CASE ExitTrace(k) \/ SettleTrace(k)
  BY <1>2, <1>7, InBlockHead DEF ExitTrace, SettleTrace
<1> QED
  BY <1>3, <1>4, <1>5, <1>6, <1>7 DEF Restating

LEMMA DecidedStep ==
    ASSUME TInv, TInv', Decided, NEW k \in Strands, StrandNext(k)
    PROVE  Decided'
<1>1. ASSUME \A s \in Spans : span[s] # None /\ span[s].status # "UNSET" =>
                                 span'[s].status # "UNSET",
             \A j \in Strands : \/ strand'[j].step = "host"
                                \/ /\ strand'[j].stack = strand[j].stack
                                   /\ strand'[j].step = strand[j].step
      PROVE  Decided'
  BY <1>1, DecidedKept DEF Decided
<1>2. ASSUME NEW j \in Strands, NEW kind \in Kinds, Start(k, j, kind)
      PROVE  Decided'
  BY <1>1, <1>2, StartEffects
<1>3. ASSUME HostStep(k)
      PROVE  Decided'
  BY <1>1, <1>3, HostEffects DEF Keeps
<1>4. ASSUME NEW h \in Contexts, NEW t \in Traces, EnterTrace(k, h, t)
      PROVE  Decided'
  <2>1. AfterPush(k, TraceBlockOf(k, h)) /\ strand[k].step = "host" /\ span' = span
    BY <1>4, EnterTraceEffects DEF EnterTrace, Running, Live, Idle
  <2> QED
    BY <1>1, <2>1 DEF AfterPush, Calls
<1>5. ASSUME NEW s \in Spans, OpenSpan(k, s),
             \A x \in Spans : span[x] # None => span'[x] = span[x]
      PROVE  Decided'
  <2>1. AfterPush(k, SpanBlockOf(k, s)) /\ strand[k].step = "host"
    BY <1>5, OpenSpanEffects DEF OpenSpan, Running, Live, Idle
  <2> QED
    BY <1>1, <1>5, <2>1 DEF AfterPush, Calls
<1>6. ASSUME NEW h \in Contexts, NEW s \in Spans, EnterSpan(k, h, s) \/ KeepSpan(k, h, s)
      PROVE  Decided'
  <2>1. SpanMade(h, s)
    BY <1>6, MakeSpanEffects DEF EnterSpan, KeepSpan
  <2>2. \A x \in Spans : span[x] # None => span'[x] = span[x]
    BY <2>1 DEF SpanMade
  <2> QED
    BY <1>1, <1>5, <1>6, <2>2 DEF EnterSpan, KeepSpan
<1>7. ASSUME NEW s \in Spans, EnterKept(k, s)
      PROVE  Decided'
  BY <1>5, <1>7 DEF EnterKept
<1>8. ASSUME Restating(k)
      PROVE  Decided'
  <2>1. Restated(k)
    BY <1>8, RestatingEffects
  <2>2. ASSUME NEW j \in Strands, strand'[j].step = "leave", InBlock(j, "span")'
        PROVE  span'[strand'[j].stack[1].id].status # "UNSET"
    <3>1. CASE j = k
      BY <1>8, <2>2, <3>1, DecidedRestating
    <3>2. CASE j # k
      BY <2>1, <2>2, <3>2, DecidedKept DEF Restated
    <3> QED
      BY <3>1, <3>2
  <2> QED
    BY <2>2 DEF Decided
<1>9. ASSUME LeaveSpan(k)
      PROVE  Decided'
  <2>1. PICK s \in Spans, t \in Traces, resets \in BOOLEAN : SpanLeft(k, s, t, resets)
    BY <1>9, LeaveSpanSomehow
  <2> QED
    BY <1>1, <2>1 DEF SpanLeft, AfterPop
<1>10. ASSUME LeaveTrace(k)
       PROVE  Decided'
  <2>1. PICK h \in Contexts, t \in Traces, resets \in BOOLEAN : TraceLeft(k, h, t, resets)
    BY <1>10, LeaveTraceSomehow
  <2> QED
    BY <1>1, <2>1 DEF TraceLeft, AfterPop
<1>11. ASSUME NEW succeeds \in BOOLEAN, Export(k, succeeds) \/ Post(k, succeeds)
       PROVE  Decided'
  BY <1>1, <1>11, ExportEffects DEF Exported
<1> QED
  BY <1>2, <1>3, <1>4, <1>6, <1>7, <1>8, <1>9, <1>10, <1>11, KindsOfStep

LEMMA DecidedHolds == Spec => []Decided
<1>1. Init => Decided
  BY DEF Init, NewStrand, Decided
<1>2. TInv /\ TInv' /\ Decided /\ [Next]_vars => Decided'
  <2>1. \A k \in Strands : TInv /\ TInv' /\ Decided /\ StrandNext(k) => Decided'
    BY DecidedStep
  <2>2. Decided /\ UNCHANGED <<strand, span>> => Decided'
    BY DEF Decided, InBlock
  <2> QED
    BY <2>1, <2>2 DEF Next, Arrive, vars
<1> QED
  BY <1>1, <1>2, TypesHold, PTL DEF Spec

Listed(t) == {trace[t].spans[i] : i \in 1..Len(trace[t].spans)}

\* A span is listed when its block is left, with a status, in one place: where a
\* SpanContext is entered once.
ListsApart ==
    /\ Distinct("span")
    /\ \A s \in Spans : IsOpen("span", s) =>
          \A t \in Traces : trace[t] # None => s \notin Listed(t)
    /\ \A t, u \in Traces : trace[t] # None /\ trace[u] # None =>
          \A i \in 1..Len(trace[t].spans), n \in 1..Len(trace[u].spans) :
             trace[t].spans[i] = trace[u].spans[n] => t = u /\ i = n
    /\ \A t \in Traces : trace[t] # None => \A s \in Listed(t) : span[s].status # "UNSET"

\* What is listed has been made.
LEMMA ListedIsMade ==
    ASSUME TInv, NEW t \in Traces, trace[t] # None
    PROVE  \A s \in Listed(t) : s \in Spans /\ span[s] # None
<1>1. trace[t].spans \in Seq(Spans)
  BY DEF TInv, TypeOK, TraceRec
<1>2. \A i \in 1..Len(trace[t].spans) : trace[t].spans[i] \in Spans /\ span[trace[t].spans[i]] # None
  BY <1>1 DEF TInv, Known
<1> QED
  BY <1>2 DEF Listed

\* Steps that keep the blocks of spans and the lists.
LEMMA ListsKept ==
    ASSUME TInv, ListsApart, TInv',
           Distinct("span")', \A s : IsOpen("span", s)' => IsOpen("span", s),
           \A t \in Traces : trace'[t] # None => trace[t] # None /\ trace'[t].spans = trace[t].spans,
           \A s \in Spans : span[s] # None /\ span[s].status # "UNSET" => span'[s].status # "UNSET"
    PROVE  ListsApart'
<1>1. \A t \in Traces : trace'[t] # None => Listed(t)' = Listed(t)
  BY DEF Listed
<1>2. \A t \in Traces : trace'[t] # None => \A s \in Listed(t)' : span'[s].status # "UNSET"
  BY <1>1, ListedIsMade DEF ListsApart
<1>3. \A s \in Spans : IsOpen("span", s)' =>
         \A t \in Traces : trace'[t] # None => s \notin Listed(t)'
  BY <1>1 DEF ListsApart
<1>4. \A t, u \in Traces : trace'[t] # None /\ trace'[u] # None =>
         \A i \in 1..Len(trace'[t].spans), n \in 1..Len(trace'[u].spans) :
            trace'[t].spans[i] = trace'[u].spans[n] => t = u /\ i = n
  BY SMTT(40) DEF ListsApart
<1> QED
  BY <1>2, <1>3, <1>4 DEF ListsApart

LEMMA ListsEnterTrace ==
    ASSUME TInv, ListsApart, TInv',
           NEW k \in Strands, NEW h \in Contexts, NEW t \in Traces, EnterTrace(k, h, t)
    PROVE  ListsApart'
<1> DEFINE b == TraceBlockOf(k, h)
<1>1. AfterPush(k, b) /\ b.kind # "span"
  BY EnterTraceEffects DEF TraceBlockOf
<1> HIDE DEF b
<1>2. Distinct("span")' /\ \A s : IsOpen("span", s)' => IsOpen("span", s)
  BY <1>1, DistinctAfterPush, OpenAfterPush DEF ListsApart, TInv
<1>3. /\ \A x \in Traces \ {t} : trace'[x] = trace[x]
      /\ trace'[t].spans = << >> /\ span' = span
  BY DEF EnterTrace, TInv, TypeOK
<1>4. /\ Listed(t)' = {}
      /\ \A x \in Traces \ {t} : Listed(x)' = Listed(x)
  BY <1>3 DEF Listed
<1>5. \A x \in Traces : trace'[x] # None => \A s \in Listed(x)' : span'[s].status # "UNSET"
  BY <1>3, <1>4 DEF ListsApart
<1>6. \A s \in Spans : IsOpen("span", s)' =>
         \A x \in Traces : trace'[x] # None => s \notin Listed(x)'
  BY <1>2, <1>3, <1>4 DEF ListsApart
<1>7. \A x, u \in Traces : trace'[x] # None /\ trace'[u] # None =>
         \A i \in 1..Len(trace'[x].spans), n \in 1..Len(trace'[u].spans) :
            trace'[x].spans[i] = trace'[u].spans[n] => x = u /\ i = n
  BY SMTT(40), <1>3 DEF ListsApart
<1> QED
  BY <1>2, <1>5, <1>6, <1>7 DEF ListsApart

LEMMA ListsSpanMade ==
    ASSUME TInv, ListsApart, TInv', NEW k \in Strands, NEW h \in Contexts, NEW s \in Spans,
           EnterSpan(k, h, s)
    PROVE  ListsApart'
<1> DEFINE b == SpanBlockOf(k, s)
<1>1. AfterPush(k, b) /\ b.kind = "span" /\ b.id = s
  BY OpenSpanEffects DEF EnterSpan
<1> HIDE DEF b
<1>2. span[s] = None /\ trace' = trace /\ \A x \in Spans \ {s} : span'[x] = span[x]
  BY MakeSpanEffects DEF EnterSpan, SpanMade
<1>3. ~IsOpen("span", s) /\ \A t \in Traces : trace[t] # None => s \notin Listed(t)
  BY <1>2, OpenIsMade, ListedIsMade
<1>4. Distinct("span")'
  BY <1>1, <1>3, DistinctAfterPush DEF ListsApart, TInv
<1>5. \A x : IsOpen("span", x)' <=> IsOpen("span", x) \/ x = s
  BY <1>1, OpenAfterPush DEF TInv
<1>6. \A t \in Traces : Listed(t)' = Listed(t)
  BY <1>2 DEF Listed
<1>7. \A t \in Traces : trace[t] # None => \A x \in Listed(t) : span'[x].status # "UNSET"
  BY <1>2, <1>3, ListedIsMade DEF ListsApart
<1> QED
  BY <1>2, <1>3, <1>4, <1>5, <1>6, <1>7 DEF ListsApart

\* The list of a trace after a span's block is left.
LEMMA ListedAfterLeave ==
    ASSUME TInv, NEW k \in Strands, NEW s \in Spans, NEW t \in Traces,
           NEW resets \in BOOLEAN, SpanLeft(k, s, t, resets)
    PROVE  /\ \A x \in Traces \ {t} : trace'[x] = trace[x] /\ Listed(x)' = Listed(x)
           /\ Listed(t)' = IF resets THEN Listed(t) \cup {s} ELSE Listed(t)
           /\ \A i \in 1..Len(trace'[t].spans) :
                 \/ i \in 1..Len(trace[t].spans) /\ trace'[t].spans[i] = trace[t].spans[i]
                 \/ i = Len(trace[t].spans) + 1 /\ trace'[t].spans[i] = s /\ resets
           /\ \A i \in 1..Len(trace[t].spans) :
                 i \in 1..Len(trace'[t].spans) /\ trace'[t].spans[i] = trace[t].spans[i]
<1> DEFINE list == trace[t].spans
           new  == trace'[t].spans
<1>1. list \in Seq(Spans) /\ new = IF resets THEN Append(list, s) ELSE list
  BY DEF SpanLeft, TInv, TypeOK, TraceRec
<1>2. /\ \A x \in Traces \ {t} : trace'[x] = trace[x]
      /\ \A x \in Traces \ {t} : Listed(x)' = Listed(x)
  BY DEF SpanLeft, Listed
<1> HIDE DEF list, new
<1>3. /\ \A i \in 1..Len(new) : \/ i \in 1..Len(list) /\ new[i] = list[i]
                                \/ i = Len(list) + 1 /\ new[i] = s /\ resets
      /\ \A i \in 1..Len(list) : i \in 1..Len(new) /\ new[i] = list[i]
      /\ resets => Len(list) + 1 \in 1..Len(new) /\ new[Len(list) + 1] = s
  <2>1. CASE resets
    BY <1>1, <2>1
  <2>2. CASE ~resets
    BY <1>1, <2>2
  <2> QED
    BY <2>1, <2>2
<1>4. {new[i] : i \in 1..Len(new)} =
         IF resets THEN {list[i] : i \in 1..Len(list)} \cup {s} ELSE {list[i] : i \in 1..Len(list)}
  BY <1>3
<1> QED
  BY <1>2, <1>3, <1>4 DEF Listed, list, new

LEMMA ListsLeaveSpan ==
    ASSUME TInv, Decided, ListsApart, TInv', NEW k \in Strands, LeaveSpan(k)
    PROVE  ListsApart'
<1>1. PICK s \in Spans, t \in Traces, resets \in BOOLEAN : SpanLeft(k, s, t, resets)
  BY LeaveSpanSomehow
<1>2. PICK raising : AfterPop(k, raising, strand[k].out)
  BY <1>1 DEF SpanLeft
<1>3. /\ strand[k].stack[1].kind = "span" /\ strand[k].stack[1].id = s
      /\ span[s] # None /\ trace[t] # None /\ 1 \in 1..Depth(k)
  BY <1>1, <1>2 DEF SpanLeft, AfterPop
<1>4. IsOpen("span", s)
  BY <1>3 DEF IsOpen
<1>5. Distinct("span")' /\ \A x : IsOpen("span", x)' => IsOpen("span", x) /\ x # s
  BY <1>2, <1>3, DistinctAfterPop, OpenAfterPop DEF ListsApart, TInv
<1>6. /\ \A x \in Traces \ {t} : trace'[x] = trace[x] /\ Listed(x)' = Listed(x)
      /\ Listed(t)' \subseteq Listed(t) \cup {s}
      /\ \A i \in 1..Len(trace'[t].spans) :
            \/ i \in 1..Len(trace[t].spans) /\ trace'[t].spans[i] = trace[t].spans[i]
            \/ i = Len(trace[t].spans) + 1 /\ trace'[t].spans[i] = s
  BY <1>1, ListedAfterLeave
<1>7. \A x \in Traces : trace[x] # None => s \notin Listed(x)
  BY <1>4 DEF ListsApart
<1>8. \A x \in Spans : IsOpen("span", x)' =>
         \A u \in Traces : trace'[u] # None => x \notin Listed(u)'
  BY <1>3, <1>5, <1>6 DEF ListsApart
<1>9. ASSUME NEW x \in Traces, NEW u \in Traces, trace'[x] # None, trace'[u] # None,
             NEW i \in 1..Len(trace'[x].spans), NEW n \in 1..Len(trace'[u].spans),
             trace'[x].spans[i] = trace'[u].spans[n]
      PROVE  x = u /\ i = n
  <2>1. \A y \in Traces : trace'[y] # None => trace[y] # None
    BY <1>3, <1>6
  <2>2. \A y \in Traces : \A m \in 1..Len(trace'[y].spans) :
           \/ m \in 1..Len(trace[y].spans) /\ trace'[y].spans[m] = trace[y].spans[m]
           \/ y = t /\ m = Len(trace[t].spans) + 1 /\ trace'[y].spans[m] = s
    BY <1>6
  <2>3. \A y \in Traces : trace[y] # None => \A m \in 1..Len(trace[y].spans) :
           trace[y].spans[m] # s
    BY <1>7 DEF Listed
  <2>4. CASE trace'[x].spans[i] = s
    <3>1. trace[x] # None /\ trace[u] # None
      BY <1>9, <2>1
    <3>2. ~(i \in 1..Len(trace[x].spans) /\ trace'[x].spans[i] = trace[x].spans[i])
      BY <2>3, <2>4, <3>1
    <3>3. ~(n \in 1..Len(trace[u].spans) /\ trace'[u].spans[n] = trace[u].spans[n])
      BY <1>9, <2>3, <2>4, <3>1
    <3> QED
      BY <2>2, <3>2, <3>3
  <2>5. CASE trace'[x].spans[i] # s
    <3>1. /\ i \in 1..Len(trace[x].spans) /\ trace'[x].spans[i] = trace[x].spans[i]
          /\ n \in 1..Len(trace[u].spans) /\ trace'[u].spans[n] = trace[u].spans[n]
      BY <1>9, <2>2, <2>5
    <3>2. trace[x] # None /\ trace[u] # None /\ trace[x].spans[i] = trace[u].spans[n]
      BY <1>9, <2>1, <3>1
    <3> QED
      BY <3>1, <3>2 DEF ListsApart
  <2> QED
    BY <2>4, <2>5
<1>10. span[s].status # "UNSET" /\ span' = span
  <2>1. InBlock(k, "span") /\ strand[k].step = "leave"
    BY DEF LeaveSpan
  <2> QED
    BY <1>1, <1>3, <2>1 DEF Decided, SpanLeft
<1>11. \A x \in Traces : trace'[x] # None => \A y \in Listed(x)' : span'[y].status # "UNSET"
  BY <1>3, <1>6, <1>10, ListedIsMade DEF ListsApart
<1> QED
  BY <1>5, <1>8, <1>9, <1>11 DEF ListsApart

LEMMA ListsHold ==
    ASSUME "kept" \notin Usage
    PROVE  Spec => []ListsApart
<1>1. Init => ListsApart
  <2>1. Init => \A k \in Strands : strand[k].stack = << >>
    BY DEF Init, NewStrand
  <2> QED
    BY <2>1 DEF Init, ListsApart, Distinct, IsOpen, Depth
<1>2. TInv /\ TInv' /\ Decided /\ ListsApart /\ [Next]_vars => ListsApart'
  <2> SUFFICES ASSUME TInv, TInv', Decided, ListsApart, [Next]_vars
               PROVE  ListsApart'
    OBVIOUS
  <2>a. Distinct("span")
    BY DEF ListsApart
  <2>b. ASSUME \A g \in Strands : strand'[g].stack = strand[g].stack \/ strand'[g].stack = << >>,
               \A t \in Traces : trace'[t] # None =>
                  trace[t] # None /\ trace'[t].spans = trace[t].spans,
               \A s \in Spans : span[s] # None /\ span[s].status # "UNSET" =>
                  span'[s].status # "UNSET"
        PROVE  ListsApart'
    BY <2>a, <2>b, BlocksKept, ListsKept
  <2>1. ASSUME NEW k \in Strands, StrandNext(k)
        PROVE  ListsApart'
    <3>1. ASSUME NEW j \in Strands, NEW kind \in Kinds, Start(k, j, kind)
          PROVE  ListsApart'
      BY <2>b, <3>1, StartEffects
    <3>2. ASSUME HostStep(k)
          PROVE  ListsApart'
      BY <2>b, <3>2, HostEffects DEF Keeps
    <3>3. ASSUME Restating(k)
          PROVE  ListsApart'
      BY <2>b, <3>3, RestatingEffects DEF Restated
    <3>4. ASSUME LeaveTrace(k)
          PROVE  ListsApart'
      <4>1. PICK h \in Contexts, t \in Traces, resets \in BOOLEAN : TraceLeft(k, h, t, resets)
        BY <3>4, LeaveTraceSomehow
      <4>2. PICK raising, out : AfterPop(k, raising, out)
        BY <4>1 DEF TraceLeft
      <4>3. Distinct("span")' /\ \A x : IsOpen("span", x)' => IsOpen("span", x)
        BY <2>a, <4>2, DistinctAfterPop, OpenAfterPop DEF TInv
      <4> QED
        BY <4>1, <4>3, ListsKept DEF TraceLeft
    <3>5. ASSUME NEW succeeds \in BOOLEAN, Export(k, succeeds) \/ Post(k, succeeds)
          PROVE  ListsApart'
      BY <2>b, <3>5, ExportEffects DEF Exported
    <3> QED
      BY <2>1, <3>1, <3>2, <3>3, <3>4, <3>5, KindsOfStep, ListsEnterTrace, ListsSpanMade,
         ListsLeaveSpan DEF KeepSpan, EnterKept
  <2>2. ASSUME UNCHANGED <<strand, trace, span>>
        PROVE  ListsApart'
    BY <2>b, <2>2
  <2> QED
    BY <2>1, <2>2 DEF Next, Arrive, vars
<1> QED
  BY <1>1, <1>2, TypesHold, DecidedHolds, PTL DEF Spec

\* With a TraceContext for each trace, a SpanContext finds the trace it was made for, and
\* what is in a trace's list, or on its way to a server, is its own.
OwnTraces ==
    /\ \A s \in Spans : span[s] # None => made[span[s].via] = span[s].trace
    /\ \A t \in Traces : trace[t] # None => \A s \in Listed(t) : span[s].trace = t
    /\ \A t \in Traces : posted[t] # None => \A x \in posted[t].spans : x.trace = t

LEMMA WrittenOwn ==
    ASSUME NEW t \in Traces, \A s \in Listed(t) : span[s].trace = t
    PROVE  \A x \in Written(trace[t].spans) : x.trace = t
BY DEF Written, Shown, Listed

\* Steps that make nothing.
LEMMA OwnTracesKept ==
    ASSUME TInv, OwnTraces, made' = made, posted' = posted,
           \A s \in Spans : span'[s] # None => span[s] # None,
           \A s \in Spans : span[s] # None => /\ span'[s].via = span[s].via
                                              /\ span'[s].trace = span[s].trace,
           \A t \in Traces : trace'[t] # None =>
              trace[t] # None /\ \A s \in Listed(t)' : s \in Listed(t) \/ (s \in Spans /\ span[s] # None /\ span[s].trace = t)
    PROVE  OwnTraces'
<1>1. \A t \in Traces : trace'[t] # None => \A s \in Listed(t)' : span'[s].trace = t
  BY ListedIsMade DEF OwnTraces
<1> QED
  BY <1>1 DEF OwnTraces

LEMMA OwnTracesStep ==
    ASSUME "reuse" \notin Usage, TInv, TInv', OwnTraces, NEW k \in Strands, StrandNext(k)
    PROVE  OwnTraces'
<1>1. ASSUME UNCHANGED <<made, trace, span, posted>>
      PROVE  OwnTraces'
  BY <1>1 DEF OwnTraces, Listed
<1>2. ASSUME NEW j \in Strands, NEW kind \in Kinds, Start(k, j, kind)
      PROVE  OwnTraces'
  BY <1>1, <1>2, StartEffects
<1>3. ASSUME HostStep(k)
      PROVE  OwnTraces'
  BY <1>1, <1>3, HostEffects
<1>4. ASSUME NEW h \in Contexts, NEW t \in Traces, EnterTrace(k, h, t)
      PROVE  OwnTraces'
  <2>1. /\ made[h] = None /\ trace[t] = None /\ span' = span /\ posted' = posted
        /\ \A g \in Contexts \ {h} : made'[g] = made[g]
        /\ \A x \in Traces \ {t} : trace'[x] = trace[x]
        /\ trace'[t].spans = << >>
    BY <1>4 DEF EnterTrace, TInv, TypeOK
  <2>2. \A s \in Spans : span[s] # None => span[s].via \in Contexts \ {h}
    BY <2>1 DEF TInv, TypeOK, Known, SpanRec
  <2>3. Listed(t)' = {} /\ \A x \in Traces \ {t} : Listed(x)' = Listed(x)
    BY <2>1 DEF Listed
  <2> QED
    BY <2>1, <2>2, <2>3 DEF OwnTraces
<1>5. ASSUME NEW h \in Contexts, NEW s \in Spans, EnterSpan(k, h, s) \/ KeepSpan(k, h, s)
      PROVE  OwnTraces'
  <2>1. SpanMade(h, s) /\ UNCHANGED <<made, trace, posted>>
    BY <1>5, MakeSpanEffects DEF EnterSpan, KeepSpan
  <2>2. \A t \in Traces : trace[t] # None => s \notin Listed(t)
    BY <2>1, ListedIsMade DEF SpanMade
  <2>3. \A t \in Traces : Listed(t)' = Listed(t)
    BY <2>1 DEF Listed
  <2>4. \A x \in Traces : trace'[x] # None => \A y \in Listed(x)' : span'[y].trace = x
    BY <2>1, <2>2, <2>3, ListedIsMade DEF OwnTraces, SpanMade
  <2> QED
    BY <2>1, <2>4 DEF OwnTraces, SpanMade
<1>6. ASSUME NEW s \in Spans, EnterKept(k, s)
      PROVE  OwnTraces'
  BY <1>1, <1>6 DEF EnterKept
<1>7. ASSUME Restating(k)
      PROVE  OwnTraces'
  <2>1. Restated(k)
    BY <1>7, RestatingEffects
  <2>2. \A t \in Traces : trace'[t] # None => trace[t] # None /\ Listed(t)' = Listed(t)
    BY <2>1 DEF Restated, Listed
  <2> QED
    BY <2>1, <2>2, OwnTracesKept DEF Restated
<1>8. ASSUME LeaveSpan(k)
      PROVE  OwnTraces'
  <2>1. PICK s \in Spans, t \in Traces, resets \in BOOLEAN : SpanLeft(k, s, t, resets)
    BY <1>8, LeaveSpanSomehow
  <2>2. /\ \A x \in Traces \ {t} : trace'[x] = trace[x] /\ Listed(x)' = Listed(x)
        /\ Listed(t)' \subseteq Listed(t) \cup {s}
    BY <2>1, ListedAfterLeave
  <2>3. span[s] # None /\ trace[t] # None /\ span[s].trace = t
    BY <2>1 DEF SpanLeft, OwnTraces
  <2>4. UNCHANGED <<made, posted, span>>
    BY <2>1 DEF SpanLeft
  <2> QED
    BY <2>2, <2>3, <2>4, OwnTracesKept
<1>9. ASSUME LeaveTrace(k)
      PROVE  OwnTraces'
  <2>1. PICK h \in Contexts, t \in Traces, resets \in BOOLEAN : TraceLeft(k, h, t, resets)
    BY <1>9, LeaveTraceSomehow
  <2> QED
    BY <1>1, <2>1 DEF TraceLeft
<1>10. ASSUME NEW succeeds \in BOOLEAN, Export(k, succeeds) \/ Post(k, succeeds)
       PROVE  OwnTraces'
  <2>1. UNCHANGED <<made, trace, span>> /\ Exported(k)
    BY <1>10, ExportEffects
  <2>2. CASE Export(k, succeeds)
    BY <1>1, <2>1, <2>2 DEF Export
  <2>3. CASE Post(k, succeeds)
    <3> DEFINE t == strand[k].out.trace
    <3>1. t \in Traces /\ trace[t] # None
      BY <2>1 DEF Exported, Out
    <3>2. /\ posted'[t].spans = Written(trace[t].spans)
          /\ \A x \in Traces \ {t} : posted'[x] = posted[x]
      BY <2>3, <3>1 DEF Post, TInv, TypeOK
    <3> HIDE DEF t
    <3>3. \A x \in posted'[t].spans : x.trace = t
      BY <3>1, <3>2, WrittenOwn DEF OwnTraces
    <3> QED
      BY <2>1, <3>1, <3>2, <3>3 DEF OwnTraces, Listed
  <2> QED
    BY <1>10, <2>2, <2>3
<1> QED
  BY <1>2, <1>3, <1>4, <1>5, <1>6, <1>7, <1>8, <1>9, <1>10, KindsOfStep

LEMMA OwnTracesHold ==
    ASSUME "reuse" \notin Usage
    PROVE  Spec => []OwnTraces
<1>1. Init => OwnTraces
  BY DEF Init, OwnTraces
<1>2. TInv /\ TInv' /\ OwnTraces /\ [Next]_vars => OwnTraces'
  <2>1. \A k \in Strands : TInv /\ TInv' /\ OwnTraces /\ StrandNext(k) => OwnTraces'
    BY OwnTracesStep
  <2>2. \A t \in Traces : OwnTraces /\ Arrive(t) => OwnTraces'
    <3> SUFFICES ASSUME NEW t \in Traces, OwnTraces, Arrive(t)
                 PROVE  OwnTraces'
      OBVIOUS
    <3>1. UNCHANGED <<made, trace, span>> /\ posted' = [posted EXCEPT ![t] = None]
      BY DEF Arrive
    <3>2. \A x \in Traces : posted'[x] # None => posted'[x] = posted[x]
      BY <3>1
    <3> QED
      BY <3>1, <3>2 DEF OwnTraces, Listed
  <2>3. OwnTraces /\ UNCHANGED <<made, trace, span, posted>> => OwnTraces'
    BY DEF OwnTraces, Listed
  <2> QED
    BY <2>1, <2>2, <2>3 DEF Next, vars
<1> QED
  BY <1>1, <1>2, TypesHold, PTL DEF Spec

\* Where every SpanContext is entered once and every trace has a TraceContext, on any
\* number of threads: a span is listed once, by its own trace, and with a status.
THEOREM SpansListedOnce ==
    ASSUME "kept" \notin Usage, "reuse" \notin Usage
    PROVE  Spec => []ListedOnce
<1>1. TInv /\ ListsApart /\ OwnTraces => ListedOnce
  <2> SUFFICES ASSUME TInv, ListsApart, OwnTraces, NEW t \in Traces, trace[t] # None,
                      NEW i \in 1..Len(trace[t].spans), NEW j \in 1..Len(trace[t].spans)
               PROVE  LET s == trace[t].spans[i]
                      IN  /\ span[s] # None
                          /\ span[s].trace = t
                          /\ span[s].status # "UNSET"
                          /\ s = trace[t].spans[j] => i = j
    BY DEF ListedOnce
  <2>1. trace[t].spans[i] \in Listed(t)
    BY DEF Listed
  <2>2. trace[t].spans[i] = trace[t].spans[j] => i = j
    BY DEF ListsApart
  <2> QED
    BY <2>1, <2>2, ListedIsMade DEF ListsApart, OwnTraces
<1> QED
  BY <1>1, TypesHold, ListsHold, OwnTracesHold, PTL

-----------------------------------------------------------------------------
(* A host on one thread *)

OneThread == Usage \cap {"thread", "worker"} = {}

\* What the innermost block of a strand is to be given a status for has none.
Unset(k) == IF strand[k].stack[1].kind = "span"
            THEN span[strand[k].stack[1].id].status = "UNSET"
            ELSE trace[made[strand[k].stack[1].id]].status = "UNSET"

\* One call of the SDK is under way at a time, and what it has read of a status is so
\* when it sets it.
OneCall ==
    /\ \A k \in Strands : strand[k].at = "live" => strand[k].on = Root
    /\ \A k \in Strands : ~Idle(k) => strand[k].at = "live"
    /\ \A j, k \in Strands : j = k \/ Idle(j) \/ Idle(k)
    /\ \A k \in Strands : strand[k].step = "settle" =>
          strand[k].failing = None /\ strand[k].out = None /\ Unset(k)

\* The others are at rest, and stay so.
LEMMA Alone ==
    ASSUME OneCall, NEW k \in Strands, StrandNext(k)
    PROVE  /\ strand[k].at = "live" /\ strand[k].on = Root
           /\ \A j \in Strands \ {k} : Idle(j)
<1>1. Live(k) \/ ~Idle(k)
  BY DEF StrandNext, Host, Call, Start, Migrate, Raise, Catch, Finish, EnterTrace, EnterSpan,
         KeepSpan, EnterKept, MakeSpan, OpenSpan, RecordError, SpanOutsideTrace, FailTrace,
         ExitSpan, SettleSpan, LeaveSpan, ExitTrace, SettleTrace, LeaveTrace, Export, Post,
         Running, Live, Idle
<1>2. strand[k].at = "live" /\ strand[k].on = Root
  BY <1>1 DEF OneCall, Live
<1>3. ASSUME NEW j \in Strands \ {k}
      PROVE  Idle(j)
  BY <1>2 DEF OneCall, StrandNext, HasThread
<1> QED
  BY <1>2, <1>3

\* It is enough to look at the strand that moves.
LEMMA OneCallMoves ==
    ASSUME OneCall, NEW k \in Strands, \A j \in Strands \ {k} : Idle(j),
           \A j \in Strands \ {k} : strand'[j] = strand[j],
           strand'[k].at = "live" => strand'[k].on = Root,
           strand'[k].at = "live" \/ Idle(k)',
           strand'[k].step = "settle" =>
              strand'[k].failing = None /\ strand'[k].out = None /\ Unset(k)'
    PROVE  OneCall'
<1>1. \A j \in Strands \ {k} : Idle(j)' /\ strand'[j].step # "settle"
  BY DEF Idle
<1> QED
  BY <1>1 DEF OneCall

LEMMA OneCallHost ==
    ASSUME OneThread, TInv, TInv', OneCall, NEW k \in Strands, StrandNext(k),
           HostStep(k) \/ \E j \in Strands, kind \in Kinds : Start(k, j, kind)
    PROVE  OneCall'
<1>1. /\ strand[k].at = "live" /\ strand[k].on = Root
      /\ \A j \in Strands \ {k} : Idle(j)
  BY Alone
<1>2. ASSUME NEW j \in Strands, NEW kind \in Kinds, Start(k, j, kind)
      PROVE  OneCall'
  <2>1. /\ \A g \in Strands \ {j} : strand'[g] = strand[g]
        /\ strand'[j].step = "host" /\ strand'[j].failing = None /\ strand'[j].out = None
        /\ kind \in Usage /\ strand[j].at = "new" /\ Idle(k)
        /\ strand'[j].on = IF kind \in {"thread", "worker"} THEN j ELSE strand[k].on
    BY <1>2, StartEffects DEF Running, Live
  <2>2. Idle(j)' /\ strand'[j].on = Root /\ j # k
    BY <1>1, <2>1 DEF Idle, OneThread
  <2>3. \A g \in Strands : Idle(g)'
    BY <1>1, <2>1, <2>2 DEF Idle
  <2> QED
    BY <2>1, <2>2, <2>3 DEF OneCall, Idle
<1>3. ASSUME HostStep(k)
      PROVE  OneCall'
  <2>1. /\ Keeps("step") /\ Keeps("failing") /\ Keeps("out") /\ Idle(k)
        /\ \A j \in Strands \ {k} : strand'[j] = strand[j]
    BY <1>3, HostEffects
  <2>2. Idle(k)' /\ strand'[k].step # "settle"
    BY <2>1 DEF Keeps, Idle
  <2>3. strand'[k].on = Root
    <3>1. strand \in [Strands -> Strand] /\ strand[k] \in Strand
      BY DEF TInv, TypeOK
    <3>2. CASE \E c \in Strands : Migrate(k, c)
      <4>1. PICK c \in Strands : Migrate(k, c)
        BY <3>2
      <4>2. strand[c].on = Root
        BY <1>1, <4>1 DEF Migrate, OneCall
      <4> QED
        BY <3>1, <4>1, <4>2 DEF Migrate, Strand
    <3>3. CASE Raise(k) \/ Catch(k) \/ Finish(k) \/ SpanOutsideTrace(k)
      BY <1>1, <3>1, <3>3 DEF Raise, Catch, Finish, SpanOutsideTrace, Strand
    <3> QED
      BY <1>3, <3>2, <3>3 DEF HostStep
  <2> QED
    BY <1>1, <2>1, <2>2, <2>3, OneCallMoves
<1> QED
  BY <1>2, <1>3

LEMMA OneCallRestating ==
    ASSUME TInv, TInv', OneCall, NEW k \in Strands, StrandNext(k), Restating(k)
    PROVE  OneCall'
<1> DEFINE id == strand[k].stack[1].id
<1>1. /\ strand[k].at = "live" /\ strand[k].on = Root
      /\ \A j \in Strands \ {k} : Idle(j)
  BY Alone
<1>2. /\ \A j \in Strands \ {k} : strand'[j] = strand[j]
      /\ strand'[k].at = strand[k].at /\ strand'[k].on = strand[k].on
      /\ strand'[k].stack = strand[k].stack /\ strand'[k].out = strand[k].out
      /\ made' = made
  BY RestatingEffects DEF Restated, Fixed
<1>3. ASSUME strand'[k].step = "settle"
      PROVE  strand'[k].failing = None /\ strand'[k].out = None /\ Unset(k)'
  <2>1. CASE (\E s \in Spans : RecordError(k, s)) \/ SettleSpan(k) \/ SettleTrace(k)
    BY <1>3, <2>1, RecordErrorEffects, SettleSpanEffects, SettleTraceEffects DEF GoesOn
  <2>2. CASE FailTrace(k)
    <3>1. strand[k].failing # None /\ strand'[k].step = strand[k].step
      BY <2>2, FailTraceEffects DEF GoesOn, FailTrace
    <3> QED
      BY <1>3, <3>1 DEF OneCall
  <2>3. CASE ExitSpan(k)
    <3>1. /\ span' = span /\ strand'[k].step = StepAfter(span[id].status)
          /\ strand'[k].failing = strand[k].failing
      BY <1>3, <2>3, ExitSpanEffects DEF GoesOn
    <3>2. Live(k) /\ strand[k].stack[1].kind = "span"
      BY <2>3, HeadTypes DEF ExitSpan
    <3> QED
      BY <1>2, <1>3, <3>1, <3>2 DEF StepAfter, Live, Idle, Unset
  <2>4. CASE ExitTrace(k)
    <3>1. /\ trace' = trace /\ strand'[k].step = StepAfter(trace[made[id]].status)
          /\ strand'[k].failing = strand[k].failing
      BY <1>3, <2>4, ExitTraceEffects DEF GoesOn
    <3>2. Live(k) /\ strand[k].stack[1].kind = "trace"
      BY <2>4, HeadTypes DEF ExitTrace
    <3> QED
      BY <1>2, <1>3, <3>1, <3>2 DEF StepAfter, Live, Idle, Unset
  <2> QED
    BY <2>1, <2>2, <2>3, <2>4 DEF Restating
<1> QED
  BY <1>1, <1>2, <1>3, OneCallMoves

LEMMA OneCallStep ==
    ASSUME OneThread, TInv, TInv', OneCall, NEW k \in Strands, StrandNext(k)
    PROVE  OneCall'
<1>1. /\ strand[k].at = "live" /\ strand[k].on = Root
      /\ \A j \in Strands \ {k} : Idle(j)
  BY Alone
<1>2. ASSUME \A j \in Strands \ {k} : strand'[j] = strand[j],
             strand'[k].at = strand[k].at, strand'[k].on = strand[k].on,
             strand'[k].step # "settle"
      PROVE  OneCall'
  BY <1>1, <1>2, OneCallMoves
<1>3. ASSUME NEW b, AfterPush(k, b), strand[k].step = "host"
      PROVE  OneCall'
  BY <1>2, <1>3 DEF AfterPush, Fixed, Calls
<1>4. ASSUME NEW h \in Contexts, NEW t \in Traces, EnterTrace(k, h, t)
      PROVE  OneCall'
  BY <1>3, <1>4, EnterTraceEffects DEF EnterTrace, Running, Live, Idle
<1>5. ASSUME NEW s \in Spans, OpenSpan(k, s)
      PROVE  OneCall'
  BY <1>3, <1>5, OpenSpanEffects DEF OpenSpan, Running, Live, Idle
<1>6. ASSUME NEW h \in Contexts, NEW s \in Spans, KeepSpan(k, h, s)
      PROVE  OneCall'
  BY <1>2, <1>6 DEF KeepSpan, MakeSpan, Running, Live, Idle
<1>7. ASSUME NEW raising, NEW out, AfterPop(k, raising, out)
      PROVE  OneCall'
  BY <1>2, <1>7 DEF AfterPop, Fixed
<1>8. ASSUME LeaveSpan(k)
      PROVE  OneCall'
  BY <1>7, <1>8, LeaveSpanSomehow DEF SpanLeft
<1>9. ASSUME LeaveTrace(k)
      PROVE  OneCall'
  BY <1>7, <1>9, LeaveTraceSomehow DEF TraceLeft
<1>10. ASSUME NEW succeeds \in BOOLEAN, Export(k, succeeds) \/ Post(k, succeeds)
       PROVE  OneCall'
  <2>1. Exported(k)
    BY <1>10, ExportEffects
  <2>2. strand[k].step # "settle"
    BY <2>1 DEF OneCall, Exported
  <2> QED
    BY <1>2, <2>1, <2>2 DEF Exported, Fixed
<1> QED
  BY <1>4, <1>5, <1>6, <1>8, <1>9, <1>10, KindsOfStep, OneCallHost, OneCallRestating
  DEF EnterSpan, EnterKept

LEMMA OneCallHolds ==
    ASSUME OneThread
    PROVE  Spec => []OneCall
<1>1. Init => OneCall
  BY DEF Init, NewStrand, OneCall, Idle
<1>2. TInv /\ TInv' /\ OneCall /\ [Next]_vars => OneCall'
  <2>1. \A k \in Strands : TInv /\ TInv' /\ OneCall /\ StrandNext(k) => OneCall'
    BY OneCallStep
  <2>2. OneCall /\ UNCHANGED <<made, trace, span, strand>> => OneCall'
    BY DEF OneCall, Idle, Unset
  <2> QED
    BY <2>1, <2>2 DEF Next, Arrive, vars
<1> QED
  BY <1>1, <1>2, TypesHold, PTL DEF Spec

\* The steps that set a status, in a host on one thread: OK is set where there was none.
LEMMA OneThreadSets ==
    ASSUME TInv, OneCall, NEW k \in Strands, Restating(k)
    PROVE  /\ \A s \in Spans : span[s] # None /\ span[s].status = "ERROR" =>
                 span'[s].status = "ERROR"
           /\ \A t \in Traces : trace[t] # None /\ trace[t].status = "ERROR" =>
                 trace'[t].status = "ERROR"
<1> DEFINE id == strand[k].stack[1].id
<1>1. CASE \E s \in Spans : RecordError(k, s)
  BY <1>1, RecordErrorEffects DEF SpanSet
<1>2. CASE FailTrace(k)
  <2>1. PICK t \in Traces : TraceSet(t, "ERROR") /\ span' = span
    BY <1>2, FailTraceEffects
  <2> QED
    BY <2>1 DEF TraceSet
<1>3. CASE ExitSpan(k)
  <2>1. (SpanSet(id, "ERROR") \/ span' = span) /\ trace' = trace
    BY <1>3, ExitSpanEffects
  <2> QED
    BY <2>1 DEF SpanSet
<1>4. CASE SettleSpan(k)
  <2>1. SpanSet(id, "OK") /\ trace' = trace
    BY <1>4, SettleSpanEffects
  <2>2. strand[k].stack[1].kind = "span" /\ strand[k].step = "settle"
    BY <1>4, HeadTypes DEF SettleSpan
  <2>3. span[id].status = "UNSET"
    BY <2>2 DEF OneCall, Unset
  <2> QED
    BY <2>1, <2>3 DEF SpanSet
<1>5. CASE ExitTrace(k)
  <2>1. (TraceSet(made[id], "ERROR") \/ trace' = trace) /\ span' = span
    BY <1>5, ExitTraceEffects
  <2> QED
    BY <2>1 DEF TraceSet
<1>6. CASE SettleTrace(k)
  <2>1. TraceSet(made[id], "OK") /\ span' = span
    BY <1>6, SettleTraceEffects
  <2>2. strand[k].stack[1].kind = "trace" /\ strand[k].step = "settle"
    BY <1>6, HeadTypes DEF SettleTrace
  <2>3. trace[made[id]].status = "UNSET"
    BY <2>2 DEF OneCall, Unset
  <2> QED
    BY <2>1, <2>3 DEF TraceSet
<1> QED
  BY <1>1, <1>2, <1>3, <1>4, <1>5, <1>6 DEF Restating

\* A document of a trace's own spans is saved under its row only.
LEMMA SavedOwn ==
    ASSUME TypeOK, NEW t \in Traces, NEW d \in Document, \A x \in d.spans : x.trace = t,
           stored[t] = None, NEW u \in Traces, stored[u] # None
    PROVE  Saved(t, d)[u] = stored[u]
<1>1. {x \in d.spans : x.trace = u} = {} /\ u # t
  OBVIOUS
<1>2. stored[u] \in Document
  BY DEF TypeOK
<1>3. Merged(stored[u].spans, {}) = stored[u].spans
  BY DEF Merged
<1>4. Saved(t, d)[u] = [status |-> stored[u].status,
                        spans |-> Merged(stored[u].spans, {x \in d.spans : x.trace = u})]
  BY <1>1 DEF Saved
<1>5. [status |-> stored[u].status, spans |-> stored[u].spans] = stored[u]
  BY <1>2 DEF Document
<1> QED
  BY <1>1, <1>3, <1>4, <1>5

\* In a host on one thread, with a TraceContext for each trace, no step takes back a
\* failure, moves a span or changes a stored trace.
THEOREM FailuresAndDocumentsStay ==
    ASSUME OneThread, "reuse" \notin Usage
    PROVE  Spec => ErrorsStick
<1> DEFINE Kept ==
             /\ \A t \in Traces : trace[t] # None /\ trace[t].status = "ERROR" =>
                   trace'[t].status = "ERROR"
             /\ \A s \in Spans : span[s] # None =>
                   /\ span'[s].parent = span[s].parent
                   /\ span[s].status = "ERROR" => span'[s].status = "ERROR"
             /\ \A t \in Traces : stored[t] # None => stored'[t] = stored[t]
<1>1. TInv /\ Exclusive /\ OwnTraces /\ OneCall /\ [Next]_vars => [Kept]_vars
  <2> SUFFICES ASSUME TInv, Exclusive, OwnTraces, OneCall, [Next]_vars
               PROVE  Kept \/ UNCHANGED vars
    BY DEF vars
  <2>1. ASSUME NEW k \in Strands, StrandNext(k)
        PROVE  Kept
    <3>1. ASSUME NEW j \in Strands, NEW kind \in Kinds, Start(k, j, kind)
          PROVE  Kept
      BY <3>1 DEF Start
    <3>2. ASSUME HostStep(k)
          PROVE  Kept
      BY <3>2, HostEffects
    <3>3. ASSUME NEW h \in Contexts, NEW t \in Traces, EnterTrace(k, h, t)
          PROVE  Kept
      BY <3>3 DEF EnterTrace, TInv, TypeOK
    <3>4. ASSUME NEW h \in Contexts, NEW s \in Spans, EnterSpan(k, h, s) \/ KeepSpan(k, h, s)
          PROVE  Kept
      <4>1. SpanMade(h, s) /\ UNCHANGED <<trace, stored>>
        BY <3>4, MakeSpanEffects DEF EnterSpan, KeepSpan
      <4> QED
        BY <4>1 DEF SpanMade
    <3>5. ASSUME NEW s \in Spans, EnterKept(k, s)
          PROVE  Kept
      BY <3>5 DEF EnterKept
    <3>6. ASSUME Restating(k)
          PROVE  Kept
      BY <3>6, OneThreadSets, RestatingEffects DEF Restated
    <3>7. ASSUME LeaveSpan(k)
          PROVE  Kept
      <4>1. PICK s \in Spans, t \in Traces, resets \in BOOLEAN : SpanLeft(k, s, t, resets)
        BY <3>7, LeaveSpanSomehow
      <4> QED
        BY <4>1 DEF SpanLeft
    <3>8. ASSUME LeaveTrace(k)
          PROVE  Kept
      BY <3>8, LeaveTraceSomehow DEF TraceLeft
    <3>9. ASSUME NEW succeeds \in BOOLEAN, Export(k, succeeds) \/ Post(k, succeeds)
          PROVE  Kept
      <4>1. UNCHANGED <<trace, span>> /\ Exported(k)
        BY <3>9, ExportEffects
      <4>2. CASE Export(k, succeeds)
        <5> DEFINE t == strand[k].out.trace
                   d == [status |-> strand[k].out.status, spans |-> Written(trace[t].spans)]
        <5>1. t \in Traces /\ trace[t] # None /\ d \in Document /\ stored[t] = None
          BY <4>1, ExportedDocument DEF Exported, Exclusive
        <5>2. \A x \in d.spans : x.trace = t
          BY <5>1, WrittenOwn DEF OwnTraces
        <5>3. stored' = Saved(t, d) \/ stored' = stored
          BY <4>2 DEF Export
        <5> HIDE DEF t, d
        <5> QED
          BY <4>1, <5>1, <5>2, <5>3, SavedOwn DEF TInv
      <4>3. CASE Post(k, succeeds)
        BY <4>1, <4>3 DEF Post
      <4> QED
        BY <3>9, <4>2, <4>3
    <3> QED
      BY <2>1, <3>1, <3>2, <3>3, <3>4, <3>5, <3>6, <3>7, <3>8, <3>9, KindsOfStep
  <2>2. ASSUME NEW t \in Traces, Arrive(t)
        PROVE  Kept
    <3>1. /\ UNCHANGED <<trace, span>> /\ posted[t] \in Document
          /\ stored' = Saved(t, posted[t]) \/ stored' = stored
      BY <2>2 DEF Arrive, TInv, TypeOK
    <3>2. stored[t] = None /\ \A x \in posted[t].spans : x.trace = t
      BY <2>2 DEF Arrive, Exclusive, OwnTraces
    <3> QED
      BY <3>1, <3>2, SavedOwn DEF TInv
  <2> QED
    BY <2>1, <2>2 DEF Next
<1> QED
  BY <1>1, TypesHold, ExclusiveHolds, OwnTracesHold, OneCallHolds, PTL DEF Spec, ErrorsStick

\* The steps that set a status: the span's first, and then its trace's.
LEMMA ErrorReachesTraceSets ==
    ASSUME TInv, TInv', OwnTraces, OneCall, ErrorReachesTrace, NEW k \in Strands, StrandNext(k),
           Restating(k)
    PROVE  ErrorReachesTrace'
<1> DEFINE id == strand[k].stack[1].id
<1>1. \A s \in Spans : span[s] # None => span[s].trace \in Traces /\ trace[span[s].trace] # None
                                         /\ made[span[s].via] = span[s].trace
  BY DEF TInv, TypeOK, Known, SpanRec, OwnTraces
<1>2. \A j \in Strands \ {k} : Idle(j)
  BY Alone
<1>3. \A s \in Spans : span[s] # None /\ span[s].status = "ERROR" =>
         trace[span[s].trace].status = "ERROR" \/ strand[k].failing = s
  BY <1>2, NamesAssumption DEF ErrorReachesTrace, Idle
<1>4. Restated(k)
  BY RestatingEffects
<1>5. ASSUME NEW s \in Spans, SpanSet(s, "ERROR"), strand'[k].failing = s, strand[k].failing = None,
             trace' = trace
      PROVE  ErrorReachesTrace'
  <2>1. \A x \in Spans \ {s} : span'[x] = span[x]
    BY <1>5 DEF SpanSet
  <2> QED
    BY <1>3, <1>5, <2>1, NamesAssumption DEF ErrorReachesTrace
<1>6. CASE \E s \in Spans : RecordError(k, s)
  <2>1. PICK s \in Spans : RecordError(k, s)
    BY <1>6
  <2>2. SpanSet(s, "ERROR") /\ strand'[k].failing = s /\ trace' = trace
    BY <2>1, RecordErrorEffects DEF GoesOn
  <2> QED
    BY <1>5, <2>1, <2>2 DEF RecordError, Running, Live, Idle
<1>7. CASE FailTrace(k)
  <2>1. PICK s \in Spans : /\ s = strand[k].failing /\ span[s] # None /\ span' = span
                           /\ TraceSet(made[span[s].via], "ERROR")
    BY <1>7, FailTraceEffects
  <2>2. TraceSet(span[s].trace, "ERROR")
    BY <1>1, <2>1
  <2> QED
    BY <1>1, <1>3, <2>1, <2>2 DEF ErrorReachesTrace, TraceSet
<1>8. CASE ExitSpan(k)
  <2>1. strand[k].failing = None /\ id \in Spans
    BY <1>8, HeadTypes DEF ExitSpan, Live, Idle
  <2>2. /\ trace' = trace
        /\ \/ SpanSet(id, "ERROR") /\ strand'[k].failing = id
           \/ span' = span /\ strand'[k].failing = strand[k].failing
    BY <1>8, ExitSpanEffects DEF GoesOn
  <2> HIDE DEF id
  <2> QED
    BY <1>3, <1>5, <2>1, <2>2, NamesAssumption DEF ErrorReachesTrace
<1>9. CASE SettleSpan(k)
  <2>1. SpanSet(id, "OK") /\ trace' = trace
    BY <1>9, SettleSpanEffects
  <2>2. strand[k].failing = None
    BY <1>9 DEF SettleSpan, OneCall
  <2>3. \A x \in Spans : span'[x] # None /\ span'[x].status = "ERROR" => span'[x] = span[x]
    BY <2>1 DEF SpanSet
  <2> QED
    BY <1>3, <2>1, <2>2, <2>3, NamesAssumption DEF ErrorReachesTrace
<1>10. CASE ExitTrace(k)
  <2>1. span' = span /\ strand[k].failing = None
    BY <1>10, ExitTraceEffects DEF ExitTrace, Live, Idle
  <2>2. \A t \in Traces : trace[t] # None /\ trace[t].status = "ERROR" => trace'[t].status = "ERROR"
    BY OneThreadSets
  <2> QED
    BY <1>1, <1>3, <2>1, <2>2, NamesAssumption DEF ErrorReachesTrace
<1>11. CASE SettleTrace(k)
  <2>1. span' = span /\ strand[k].failing = None
    BY <1>11, SettleTraceEffects DEF SettleTrace, OneCall
  <2>2. \A t \in Traces : trace[t] # None /\ trace[t].status = "ERROR" => trace'[t].status = "ERROR"
    BY OneThreadSets
  <2> QED
    BY <1>1, <1>3, <2>1, <2>2, NamesAssumption DEF ErrorReachesTrace
<1> QED
  BY <1>6, <1>7, <1>8, <1>9, <1>10, <1>11 DEF Restating

\* What a failed span owes its trace, it has paid or is about to pay.
LEMMA ErrorReachesTraceStep ==
    ASSUME TInv, TInv', OwnTraces, OneCall, ErrorReachesTrace, NEW k \in Strands, StrandNext(k)
    PROVE  ErrorReachesTrace'
<1>1. \A s \in Spans : span[s] # None => span[s] \in SpanRec /\ span[s].trace \in Traces
                                         /\ trace[span[s].trace] # None
                                         /\ made[span[s].via] = span[s].trace
  BY DEF TInv, TypeOK, Known, SpanRec, OwnTraces
<1>2. \A j \in Strands \ {k} : Idle(j)
  BY Alone
<1>3. \A s \in Spans : span[s] # None /\ span[s].status = "ERROR" =>
         trace[span[s].trace].status = "ERROR" \/ strand[k].failing = s
  BY <1>2, NamesAssumption DEF ErrorReachesTrace, Idle
<1>4. ASSUME \A s \in Spans : span'[s] # None /\ span'[s].status = "ERROR" =>
                span[s] # None /\ span[s].status = "ERROR" /\ span'[s].trace = span[s].trace,
             \A t \in Traces : trace[t] # None => trace'[t].status = trace[t].status,
             strand'[k].failing = strand[k].failing
      PROVE  ErrorReachesTrace'
  BY <1>1, <1>3, <1>4 DEF ErrorReachesTrace
<1>5. ASSUME NEW j \in Strands, NEW kind \in Kinds, Start(k, j, kind)
      PROVE  ErrorReachesTrace'
  BY <1>4, <1>5, StartEffects DEF Running, Live
<1>6. ASSUME HostStep(k)
      PROVE  ErrorReachesTrace'
  BY <1>4, <1>6, HostEffects DEF Keeps
<1>7. ASSUME NEW h \in Contexts, NEW t \in Traces, EnterTrace(k, h, t)
      PROVE  ErrorReachesTrace'
  <2>1. /\ span' = span /\ \A x \in Traces : trace[x] # None => trace'[x] = trace[x]
        /\ strand'[k].failing = strand[k].failing
    BY <1>7, EnterTraceEffects DEF EnterTrace, TInv, TypeOK, AfterPush, Calls
  <2> QED
    BY <1>4, <2>1
<1>8. ASSUME NEW s \in Spans, OpenSpan(k, s)
      PROVE  strand'[k].failing = strand[k].failing
  BY <1>8, OpenSpanEffects DEF AfterPush, Calls
<1>9. ASSUME NEW h \in Contexts, NEW s \in Spans, EnterSpan(k, h, s) \/ KeepSpan(k, h, s)
      PROVE  ErrorReachesTrace'
  <2>1. SpanMade(h, s) /\ trace' = trace
    BY <1>9, MakeSpanEffects DEF EnterSpan, KeepSpan
  <2>2. strand'[k].failing = strand[k].failing
    BY <1>8, <1>9 DEF EnterSpan, KeepSpan
  <2>3. \A x \in Spans : span'[x] # None /\ span'[x].status = "ERROR" =>
           span[x] # None /\ span[x].status = "ERROR" /\ span'[x].trace = span[x].trace
    BY <2>1 DEF SpanMade
  <2> QED
    BY <1>4, <2>1, <2>2, <2>3
<1>10. ASSUME NEW s \in Spans, EnterKept(k, s)
       PROVE  ErrorReachesTrace'
  BY <1>4, <1>8, <1>10 DEF EnterKept
<1>11. ASSUME NEW raising, NEW out, AfterPop(k, raising, out)
       PROVE  strand'[k].failing = strand[k].failing
  BY <1>11 DEF AfterPop
<1>12. ASSUME LeaveSpan(k)
       PROVE  ErrorReachesTrace'
  <2>1. PICK s \in Spans, t \in Traces, resets \in BOOLEAN : SpanLeft(k, s, t, resets)
    BY <1>12, LeaveSpanSomehow
  <2>2. strand'[k].failing = strand[k].failing
    BY <1>11, <2>1 DEF SpanLeft
  <2>3. span' = span /\ \A x \in Traces : trace[x] # None => trace'[x].status = trace[x].status
    BY <2>1 DEF SpanLeft
  <2> QED
    BY <1>4, <2>2, <2>3
<1>13. ASSUME LeaveTrace(k)
       PROVE  ErrorReachesTrace'
  BY <1>4, <1>11, <1>13, LeaveTraceSomehow DEF TraceLeft
<1>14. ASSUME NEW succeeds \in BOOLEAN, Export(k, succeeds) \/ Post(k, succeeds)
       PROVE  ErrorReachesTrace'
  BY <1>4, <1>14, ExportEffects DEF Exported
<1> QED
  BY <1>5, <1>6, <1>7, <1>9, <1>10, <1>12, <1>13, <1>14, KindsOfStep, ErrorReachesTraceSets

\* In a host on one thread, with a TraceContext for each trace: a failed span has failed
\* its trace once record_error is over, and no later exit takes that back.
THEOREM FailuresReachTraces ==
    ASSUME OneThread, "reuse" \notin Usage
    PROVE  Spec => []ErrorReachesTrace
<1>1. Init => ErrorReachesTrace
  BY DEF Init, ErrorReachesTrace
<1>2. TInv /\ TInv' /\ OwnTraces /\ OneCall /\ ErrorReachesTrace /\ [Next]_vars
        => ErrorReachesTrace'
  <2>1. \A k \in Strands : TInv /\ TInv' /\ OwnTraces /\ OneCall /\ ErrorReachesTrace
          /\ StrandNext(k) => ErrorReachesTrace'
    BY ErrorReachesTraceStep
  <2>2. ErrorReachesTrace /\ UNCHANGED <<trace, span, strand>> => ErrorReachesTrace'
    BY DEF ErrorReachesTrace
  <2> QED
    BY <2>1, <2>2 DEF Next, Arrive, vars
<1> QED
  BY <1>1, <1>2, TypesHold, OwnTracesHold, OneCallHolds, PTL DEF Spec
=============================================================================

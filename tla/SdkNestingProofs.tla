-------------------------- MODULE SdkNestingProofs --------------------------
(***************************************************************************)
(* Theorems of SdkTracing about a joined host: one whose traces are not    *)
(* nested in spans, whose threads and tasks are over before the trace they *)
(* were started in exits, and that enters spans where it makes them, in    *)
(* the current trace.  Any number of threads at work in one trace,         *)
(* exceptions, failed and late exports, and TraceContexts that are entered *)
(* again are all allowed.                                                  *)
(***************************************************************************)
EXTENDS SdkTracingProofs

Disjoined == {"nested", "captured", "detached", "kept", "generator", "migrate"}

-----------------------------------------------------------------------------
(* How blocks and current values fit together *)

\* The trace a strand was started in, if it can see it.
Inherits(k) == IF strand[k].kind = "thread" THEN None ELSE strand[k].under

\* What is current when the blocks down to the i-th have been left.
SpanBelow(k, i) == IF i < Depth(k) /\ strand[k].stack[i + 1].kind = "span"
                   THEN strand[k].stack[i + 1].id ELSE strand[k].base
TraceBelow(k, i) == IF i < Depth(k) THEN strand[k].stack[i + 1].id ELSE Inherits(k)

\* A strand's blocks are spans within traces, and each token holds what was current.
Chain(k) ==
    LET stack == strand[k].stack
    IN  /\ \A i, n \in 1..Depth(k) : i <= n /\ stack[i].kind = "trace" => stack[n].kind = "trace"
        /\ \A i \in 1..Depth(k) : stack[i].kind = "span" => stack[i].old = SpanBelow(k, i)
        /\ \A i \in 1..Depth(k) : stack[i].kind = "trace" =>
              /\ stack[i].old = TraceBelow(k, i)
              /\ strand[k].base = None
              /\ i = 1 \/ stack[i - 1].kind = "span" => curTrace[k] = stack[i].id
        /\ (\A i \in 1..Depth(k) : stack[i].kind = "span") => curTrace[k] = Inherits(k)
        /\ curSpan[k] = SpanBelow(k, 0)

\* The spans of a strand are of the current trace, which is open here or where the
\* strand was started.
Within(k) ==
    /\ \A i \in 1..Depth(k) : strand[k].stack[i].kind = "span" =>
          LET s == strand[k].stack[i].id
          IN  curTrace[k] # None /\ span[s].via = curTrace[k] /\ span[s].trace = made[curTrace[k]]
    /\ strand[k].at = "live" /\ strand[k].under # None =>
          /\ IsOpen("trace", strand[k].under)
          /\ \A i \in 1..Depth(k) :
                strand[k].stack[i].kind = "trace" => strand[k].stack[i].id # strand[k].under
    /\ strand[k].at = "live" /\ strand[k].base # None =>
          /\ Inherits(k) # None
          /\ span[strand[k].base] # None
          /\ span[strand[k].base].trace = made[Inherits(k)]

Hosted(k) ==
    /\ strand[k].ctx = k /\ strand[k].kind # "generator"
    /\ strand[k].at # "live" => strand[k].stack = << >>
    /\ strand[k].at = "new" => curTrace[k] = None /\ curSpan[k] = None

Nested == \A k \in Strands : Hosted(k) /\ Chain(k) /\ Within(k)

LEMMA ChainKept ==
    ASSUME NEW k \in Strands, Chain(k),
           \A f \in {"stack", "base", "under", "kind"} : strand'[k][f] = strand[k][f],
           curTrace'[k] = curTrace[k], curSpan'[k] = curSpan[k]
    PROVE  Chain(k)'
<1>1. /\ strand'[k].stack = strand[k].stack /\ strand'[k].base = strand[k].base
      /\ strand'[k].under = strand[k].under /\ strand'[k].kind = strand[k].kind
  OBVIOUS
<1>2. Inherits(k)' = Inherits(k) /\ Depth(k)' = Depth(k)
  BY <1>1 DEF Inherits, Depth
<1>3. \A i : SpanBelow(k, i)' = SpanBelow(k, i) /\ TraceBelow(k, i)' = TraceBelow(k, i)
  BY <1>1, <1>2 DEF SpanBelow, TraceBelow
<1> QED
  BY <1>1, <1>2, <1>3 DEF Chain

LEMMA ChainPushSpan ==
    ASSUME TypeOK, NEW k \in Strands, NEW b, AfterPush(k, b), Chain(k),
           b.kind = "span", b.old = curSpan[k], curSpan'[k] = b.id, curTrace'[k] = curTrace[k]
    PROVE  Chain(k)'
<1> DEFINE new == strand'[k].stack
           old == strand[k].stack
<1>1. /\ Len(new) = Depth(k) + 1 /\ Depth(k) \in Nat /\ new[1] = b
      /\ \A i \in 1..Len(new) : i # 1 => i - 1 \in 1..Depth(k) /\ new[i] = old[i - 1]
      /\ \A i \in 1..Depth(k) : new[i + 1] = old[i]
      /\ \A f \in {"base", "under", "kind"} : strand'[k][f] = strand[k][f]
  BY DEF AfterPush, Fixed
<1>2. Inherits(k)' = Inherits(k)
  BY <1>1 DEF Inherits
<1>3. ASSUME NEW i \in 0..Depth(k)
      PROVE  SpanBelow(k, i + 1)' = SpanBelow(k, i)
  <2>1. i + 1 < Len(new) <=> i < Depth(k)
    BY <1>1
  <2>2. i < Depth(k) => new[(i + 1) + 1] = old[i + 1]
    BY <1>1
  <2>3. strand'[k].base = strand[k].base
    BY <1>1
  <2> QED
    BY <2>1, <2>2, <2>3 DEF SpanBelow, Depth
<1>4. ASSUME NEW i \in 0..Depth(k)
      PROVE  TraceBelow(k, i + 1)' = TraceBelow(k, i)
  <2>1. i + 1 < Len(new) <=> i < Depth(k)
    BY <1>1
  <2>2. i < Depth(k) => new[(i + 1) + 1] = old[i + 1]
    BY <1>1
  <2> QED
    BY <1>2, <2>1, <2>2 DEF TraceBelow, Depth
<1>5. \A i \in 1..Len(new) : i # 1 => i - 1 \in 0..Depth(k) /\ (i - 1) + 1 = i
  BY <1>1
<1> HIDE DEF new, old
<1>6. \A i, n \in 1..Len(new) : i <= n /\ new[i].kind = "trace" => new[n].kind = "trace"
  <2> SUFFICES ASSUME NEW i \in 1..Len(new), NEW n \in 1..Len(new),
                      i <= n, new[i].kind = "trace"
               PROVE  new[n].kind = "trace"
    OBVIOUS
  <2>1. i # 1 /\ n # 1 /\ i - 1 <= n - 1
    BY <1>1
  <2>2. /\ i - 1 \in 1..Depth(k) /\ old[i - 1].kind = "trace"
        /\ n - 1 \in 1..Depth(k) /\ new[n] = old[n - 1]
    BY <1>1, <2>1
  <2> QED
    BY <2>1, <2>2 DEF Chain, old
<1>7. \A i \in 1..Len(new) : new[i].kind = "span" => new[i].old = SpanBelow(k, i)'
  <2>1. b.old = SpanBelow(k, 1)'
    BY <1>1, <1>3 DEF Chain
  <2>2. ASSUME NEW i \in 1..Len(new), i # 1, new[i].kind = "span"
        PROVE  new[i].old = SpanBelow(k, i)'
    <3>1. SpanBelow(k, (i - 1) + 1)' = SpanBelow(k, i - 1)
      BY <1>3, <1>5, <2>2
    <3> QED
      BY <1>1, <1>5, <2>2, <3>1 DEF Chain, old
  <2> QED
    BY <1>1, <2>1, <2>2
<1>8. \A i \in 1..Len(new) : new[i].kind = "trace" =>
         /\ new[i].old = TraceBelow(k, i)'
         /\ strand'[k].base = None
         /\ i = 1 \/ new[i - 1].kind = "span" => curTrace'[k] = new[i].id
  <2> SUFFICES ASSUME NEW i \in 1..Len(new), new[i].kind = "trace"
               PROVE  /\ new[i].old = TraceBelow(k, i)'
                      /\ strand'[k].base = None
                      /\ i = 1 \/ new[i - 1].kind = "span" => curTrace'[k] = new[i].id
    OBVIOUS
  <2>1. i # 1 /\ i - 1 \in 1..Depth(k) /\ new[i] = old[i - 1]
    BY <1>1
  <2>2. TraceBelow(k, (i - 1) + 1)' = TraceBelow(k, i - 1)
    BY <1>4, <1>5, <2>1
  <2>3. new[i].old = TraceBelow(k, i)' /\ strand'[k].base = None
    BY <1>1, <1>5, <2>1, <2>2 DEF Chain, old
  <2>4. ASSUME new[i - 1].kind = "span"
        PROVE  curTrace'[k] = new[i].id
    <3>1. i - 1 = 1 \/ old[(i - 1) - 1].kind = "span"
      BY <1>1, <2>1, <2>4
    <3> QED
      BY <2>1, <3>1 DEF Chain, old
  <2> QED
    BY <2>1, <2>3, <2>4
<1>9. (\A i \in 1..Len(new) : new[i].kind = "span") => curTrace'[k] = Inherits(k)'
  <2>1. (\A i \in 1..Len(new) : new[i].kind = "span") => \A i \in 1..Depth(k) : old[i].kind = "span"
    BY <1>1
  <2> QED
    BY <1>2, <2>1 DEF Chain, old
<1>10. curSpan'[k] = SpanBelow(k, 0)'
  BY <1>1 DEF SpanBelow, Depth, new
<1> QED
  BY <1>6, <1>7, <1>8, <1>9, <1>10 DEF Chain, Depth, new

LEMMA ChainPushTrace ==
    ASSUME TypeOK, NEW k \in Strands, NEW b, AfterPush(k, b), Chain(k),
           \A i \in 1..Depth(k) : strand[k].stack[i].kind = "trace", strand[k].base = None,
           b.kind = "trace", b.old = curTrace[k], curTrace'[k] = b.id, curSpan'[k] = curSpan[k]
    PROVE  Chain(k)'
<1> DEFINE new == strand'[k].stack
           old == strand[k].stack
<1>1. /\ Len(new) = Depth(k) + 1 /\ Depth(k) \in Nat /\ new[1] = b
      /\ \A i \in 1..Len(new) : i # 1 => i - 1 \in 1..Depth(k) /\ new[i] = old[i - 1]
      /\ \A i \in 1..Depth(k) : new[i + 1] = old[i]
      /\ \A f \in {"base", "under", "kind"} : strand'[k][f] = strand[k][f]
  BY DEF AfterPush, Fixed
<1>2. Inherits(k)' = Inherits(k)
  BY <1>1 DEF Inherits
<1>3. ASSUME NEW i \in 0..Depth(k)
      PROVE  TraceBelow(k, i + 1)' = TraceBelow(k, i)
  <2>1. i + 1 < Len(new) <=> i < Depth(k)
    BY <1>1
  <2>2. i < Depth(k) => new[(i + 1) + 1] = old[i + 1]
    BY <1>1
  <2> QED
    BY <1>2, <2>1, <2>2 DEF TraceBelow, Depth
<1>4. curTrace[k] = TraceBelow(k, 0)
  BY <1>1 DEF Chain, TraceBelow
<1>5. /\ SpanBelow(k, 0) = None /\ SpanBelow(k, 0)' = None
  BY <1>1 DEF SpanBelow, Depth
<1> HIDE DEF new, old
<1>6. \A i \in 1..Len(new) : new[i].kind = "trace"
  BY <1>1 DEF old
<1>7. \A i \in 1..Len(new) : new[i].old = TraceBelow(k, i)'
  <2>1. b.old = TraceBelow(k, 1)'
    BY <1>1, <1>3, <1>4
  <2>2. ASSUME NEW i \in 1..Len(new), i # 1
        PROVE  new[i].old = TraceBelow(k, i)'
    <3>1. i - 1 \in 0..Depth(k) /\ (i - 1) + 1 = i
      BY <1>1, <2>2
    <3>2. TraceBelow(k, (i - 1) + 1)' = TraceBelow(k, i - 1)
      BY <1>3, <3>1
    <3> QED
      BY <1>1, <2>2, <3>1, <3>2 DEF Chain, old
  <2> QED
    BY <1>1, <2>1, <2>2
<1>8. \A i \in 1..Len(new) : i = 1 \/ new[i - 1].kind = "span" => curTrace'[k] = new[i].id
  BY <1>1, <1>6
<1>9. ~(\A i \in 1..Len(new) : new[i].kind = "span")
  BY <1>1
<1> QED
  BY <1>1, <1>5, <1>6, <1>7, <1>8, <1>9 DEF Chain, Depth, new

LEMMA ChainPop ==
    ASSUME TypeOK, NEW k \in Strands, NEW raising, NEW out, AfterPop(k, raising, out), Chain(k),
           IF strand[k].stack[1].kind = "span"
           THEN curSpan'[k] = strand[k].stack[1].old /\ curTrace'[k] = curTrace[k]
           ELSE curTrace'[k] = strand[k].stack[1].old /\ curSpan'[k] = curSpan[k]
    PROVE  Chain(k)'
<1> DEFINE new == strand'[k].stack
           old == strand[k].stack
<1>1. /\ Len(new) = Depth(k) - 1 /\ Depth(k) \in Nat \ {0}
      /\ \A i \in 1..Len(new) : i + 1 \in 1..Depth(k) /\ new[i] = old[i + 1]
      /\ \A f \in {"base", "under", "kind"} : strand'[k][f] = strand[k][f]
      /\ old[1].kind \in {"span", "trace"}
  BY BlockTypes DEF AfterPop, Fixed
<1>2. Inherits(k)' = Inherits(k)
  BY <1>1 DEF Inherits
<1>3. ASSUME NEW i \in 0..Len(new)
      PROVE  SpanBelow(k, i)' = SpanBelow(k, i + 1)
  <2>1. i < Len(new) <=> i + 1 < Depth(k)
    BY <1>1
  <2>2. i < Len(new) => new[i + 1] = old[(i + 1) + 1]
    BY <1>1
  <2>3. strand'[k].base = strand[k].base
    BY <1>1
  <2> QED
    BY <2>1, <2>2, <2>3 DEF SpanBelow, Depth
<1>4. \A i \in 0..Len(new) : TraceBelow(k, i)' = TraceBelow(k, i + 1)
  BY SMTT(40), <1>1, <1>2 DEF TraceBelow, Depth
<1> HIDE DEF new, old
<1>5. \A i, n \in 1..Len(new) : i <= n /\ new[i].kind = "trace" => new[n].kind = "trace"
  BY SMTT(40), <1>1 DEF Chain, old
<1>6. \A i \in 1..Len(new) : new[i].kind = "span" => new[i].old = SpanBelow(k, i)'
  BY <1>1, <1>3 DEF Chain, old
<1>7. \A i \in 1..Len(new) : new[i].kind = "trace" =>
         new[i].old = TraceBelow(k, i)' /\ strand'[k].base = None
  BY <1>1, <1>4 DEF Chain, old
<1>8. CASE old[1].kind = "span"
  <2>1. curSpan'[k] = old[1].old /\ curTrace'[k] = curTrace[k]
    BY <1>8 DEF old
  <2>2. curSpan'[k] = SpanBelow(k, 0)'
    BY <1>1, <1>3, <1>8, <2>1 DEF Chain, old
  <2>3. \A i \in 1..Len(new) : new[i].kind = "trace" =>
           (i = 1 \/ new[i - 1].kind = "span" => curTrace'[k] = new[i].id)
    <3> SUFFICES ASSUME NEW i \in 1..Len(new), new[i].kind = "trace",
                        i = 1 \/ new[i - 1].kind = "span"
                 PROVE  curTrace'[k] = new[i].id
      OBVIOUS
    <3>1. i + 1 \in 1..Depth(k) /\ new[i] = old[i + 1] /\ old[(i + 1) - 1].kind = "span"
      BY <1>1, <1>8
    <3> QED
      BY <2>1, <3>1 DEF Chain, old
  <2>4. (\A i \in 1..Len(new) : new[i].kind = "span") => curTrace'[k] = Inherits(k)'
    <3>1. (\A i \in 1..Len(new) : new[i].kind = "span") => \A i \in 1..Depth(k) : old[i].kind = "span"
      <4>1. \A i \in 1..Depth(k) : i # 1 => i - 1 \in 1..Len(new) /\ old[i] = new[i - 1]
        BY <1>1
      <4> QED
        BY <1>8, <4>1
    <3> QED
      BY <1>2, <2>1, <3>1 DEF Chain, old
  <2> QED
    BY <1>5, <1>6, <1>7, <2>2, <2>3, <2>4 DEF Chain, Depth, new
<1>9. CASE old[1].kind = "trace"
  <2>1. curTrace'[k] = old[1].old /\ curSpan'[k] = curSpan[k]
    BY <1>9 DEF old
  <2>2. \A i \in 1..Depth(k) : old[i].kind = "trace"
    BY <1>1, <1>9 DEF Chain, old
  <2>3. curSpan'[k] = SpanBelow(k, 0)'
    BY SMTT(40), <1>1, <2>1, <2>2 DEF Chain, SpanBelow, Depth, old, new
  <2>4. curTrace'[k] = TraceBelow(k, 0)'
    BY <1>1, <1>4, <1>9, <2>1 DEF Chain, old
  <2>5. \A i \in 1..Len(new) : new[i].kind = "trace"
    BY <1>1, <2>2
  <2>6. \A i \in 1..Len(new) : i = 1 \/ new[i - 1].kind = "span" => curTrace'[k] = new[i].id
    <3>1. 1 \in 1..Len(new) => curTrace'[k] = new[1].id
      BY <1>1, <2>4 DEF TraceBelow, Depth, new
    <3>2. \A i \in 1..Len(new) : i # 1 => i - 1 \in 1..Len(new)
      BY <1>1
    <3> QED
      BY <2>5, <3>1, <3>2
  <2>7. (\A i \in 1..Len(new) : new[i].kind = "span") => curTrace'[k] = Inherits(k)'
    BY SMTT(40), <1>1, <2>4, <2>5 DEF TraceBelow, Depth, new
  <2> QED
    BY <1>5, <1>6, <1>7, <2>3, <2>6, <2>7 DEF Chain, Depth, new
<1> QED
  BY <1>1, <1>8, <1>9

-----------------------------------------------------------------------------
(* What is current *)

\* The current trace of a strand has a block of its own, or it is where the strand was
\* started.
HasBlock(k, h) == \E i \in 1..Depth(k) :
    strand[k].stack[i].kind = "trace" /\ strand[k].stack[i].id = h

LEMMA CurrentIsOwn ==
    ASSUME TInv, NEW k \in Strands, Chain(k), curTrace[k] # None
    PROVE  HasBlock(k, curTrace[k]) \/ curTrace[k] = strand[k].under
<1>1. Depth(k) \in Nat /\ \A i \in 1..Depth(k) : strand[k].stack[i].kind \in {"trace", "span"}
  BY StrandTypes, BlockTypes DEF TInv
<1>2. CASE \A i \in 1..Depth(k) : strand[k].stack[i].kind = "span"
  BY <1>2 DEF Chain, Inherits
<1>3. CASE \E i \in 1..Depth(k) : strand[k].stack[i].kind = "trace"
  <2> DEFINE T == {i \in 1..Depth(k) : strand[k].stack[i].kind = "trace"}
  <2>1. T \in SUBSET Nat /\ T # {}
    BY <1>3
  <2>2. PICK i \in T : \A n \in T : i <= n
    BY <2>1, LeastNatural
  <2>3. i \in 1..Depth(k) /\ strand[k].stack[i].kind = "trace"
    BY <2>2
  <2>4. i = 1 \/ strand[k].stack[i - 1].kind = "span"
    <3>1. ASSUME i # 1
          PROVE  i - 1 \in 1..Depth(k) /\ i - 1 \notin T
      BY <1>1, <2>2, <2>3, <3>1
    <3> QED
      BY <1>1, <3>1
  <2> QED
    BY <2>3, <2>4 DEF Chain, HasBlock
<1> QED
  BY <1>1, <1>2, <1>3

\* The current trace of a running strand has a block open somewhere.
LEMMA CurrentIsOpen ==
    ASSUME TInv, NEW k \in Strands, Chain(k), Within(k), strand[k].at = "live",
           curTrace[k] # None
    PROVE  curTrace[k] \in Contexts /\ IsOpen("trace", curTrace[k])
<1>1. curTrace[k] \in Contexts
  BY DEF TInv, TypeOK
<1>2. HasBlock(k, curTrace[k]) => IsOpen("trace", curTrace[k])
  BY DEF HasBlock, IsOpen
<1>3. curTrace[k] = strand[k].under => IsOpen("trace", curTrace[k])
  BY DEF Within
<1> QED
  BY <1>1, <1>2, <1>3, CurrentIsOwn

\* The current span of a running strand is of its current trace.
LEMMA CurrentSpanIsWithin ==
    ASSUME TInv, NEW k \in Strands, Chain(k), Within(k), strand[k].at = "live",
           curSpan[k] # None
    PROVE  /\ curTrace[k] # None /\ curSpan[k] \in Spans /\ span[curSpan[k]] # None
           /\ span[curSpan[k]].trace = made[curTrace[k]]
<1>1. Depth(k) \in Nat /\ \A i \in 1..Depth(k) : strand[k].stack[i].kind \in {"trace", "span"}
  BY StrandTypes, BlockTypes DEF TInv
<1>2. curSpan[k] \in Spans /\ curSpan[k] = SpanBelow(k, 0)
  BY DEF TInv, TypeOK, Chain
<1>3. CASE 0 < Depth(k) /\ strand[k].stack[1].kind = "span"
  <2>1. curSpan[k] = strand[k].stack[1].id /\ 1 \in 1..Depth(k)
    BY <1>1, <1>2, <1>3 DEF SpanBelow
  <2>2. IsOpen("span", curSpan[k])
    BY <1>3, <2>1 DEF IsOpen
  <2> QED
    BY <1>2, <1>3, <2>1, <2>2, OpenIsMade DEF Within
<1>4. CASE ~(0 < Depth(k) /\ strand[k].stack[1].kind = "span")
  <2>1. curSpan[k] = strand[k].base
    BY <1>1, <1>2, <1>4 DEF SpanBelow
  <2>2. \A i \in 1..Depth(k) : strand[k].stack[i].kind = "span"
    <3>1. \A i \in 1..Depth(k) : strand[k].stack[i].kind # "trace"
      BY <2>1 DEF Chain
    <3> QED
      BY <1>1, <3>1
  <2>3. curTrace[k] = Inherits(k)
    BY <2>2 DEF Chain
  <2> QED
    BY <1>2, <2>1, <2>3 DEF Within
<1> QED
  BY <1>3, <1>4

\* What a strand relies on while others step.
LEMMA WithinKept ==
    ASSUME TInv, NEW k \in Strands, Hosted(k), Chain(k), Within(k),
           \A f \in {"stack", "base", "under", "kind"} : strand'[k][f] = strand[k][f],
           strand'[k].at = "live" => strand[k].at = "live",
           curTrace'[k] = curTrace[k],
           \A s \in Spans : span[s] # None =>
              span'[s] # None /\ span'[s].via = span[s].via /\ span'[s].trace = span[s].trace,
           \A h \in Contexts : IsOpen("trace", h) => made'[h] = made[h],
           strand'[k].at = "live" /\ strand[k].under # None /\ IsOpen("trace", strand[k].under) =>
              IsOpen("trace", strand[k].under)'
    PROVE  Within(k)'
<1>1. /\ strand'[k].stack = strand[k].stack /\ strand'[k].base = strand[k].base
      /\ strand'[k].under = strand[k].under /\ strand'[k].kind = strand[k].kind
  OBVIOUS
<1>2. Inherits(k)' = Inherits(k) /\ Depth(k)' = Depth(k)
  BY <1>1 DEF Inherits, Depth
<1>3. \A i \in 1..Depth(k) : strand[k].stack[i].kind = "span" =>
         LET s == strand[k].stack[i].id
         IN  /\ s \in Spans /\ span[s] # None /\ strand[k].at = "live"
             /\ curTrace[k] # None /\ made'[curTrace[k]] = made[curTrace[k]]
  <2> SUFFICES ASSUME NEW i \in 1..Depth(k), strand[k].stack[i].kind = "span"
               PROVE  LET s == strand[k].stack[i].id
                      IN  /\ s \in Spans /\ span[s] # None /\ strand[k].at = "live"
                          /\ curTrace[k] # None /\ made'[curTrace[k]] = made[curTrace[k]]
    OBVIOUS
  <2>1. strand[k].stack[i].id \in Spans /\ IsOpen("span", strand[k].stack[i].id)
    BY StrandTypes, BlockTypes DEF TInv, IsOpen
  <2>2. strand[k].at = "live"
    BY DEF Hosted, Depth
  <2>3. curTrace[k] # None
    BY DEF Within
  <2> QED
    BY <2>1, <2>2, <2>3, OpenIsMade, CurrentIsOpen
<1>4. \A i \in 1..Depth(k) : strand[k].stack[i].kind = "span" =>
         LET s == strand[k].stack[i].id
         IN  /\ curTrace'[k] # None /\ span'[s].via = curTrace'[k]
             /\ span'[s].trace = made'[curTrace'[k]]
  BY <1>3 DEF Within
<1>5. strand'[k].at = "live" /\ strand[k].under # None =>
         /\ IsOpen("trace", strand[k].under)'
         /\ \A i \in 1..Depth(k) :
               strand[k].stack[i].kind = "trace" => strand[k].stack[i].id # strand[k].under
  BY DEF Within
<1>6. strand'[k].at = "live" /\ strand[k].base # None =>
         /\ Inherits(k) # None
         /\ span'[strand[k].base] # None
         /\ span'[strand[k].base].trace = made'[Inherits(k)]
  <2> SUFFICES ASSUME strand'[k].at = "live", strand[k].base # None
               PROVE  /\ Inherits(k) # None
                      /\ span'[strand[k].base] # None
                      /\ span'[strand[k].base].trace = made'[Inherits(k)]
    OBVIOUS
  <2>1. /\ Inherits(k) # None /\ span[strand[k].base] # None
        /\ span[strand[k].base].trace = made[Inherits(k)]
    BY DEF Within
  <2>2. strand[k].base \in Spans /\ strand[k].under \in Contexts \cup {None}
    BY StrandTypes DEF TInv, Strand
  <2>3. Inherits(k) = strand[k].under
    BY <2>1 DEF Inherits
  <2>4. IsOpen("trace", strand[k].under)
    BY <2>1, <2>3 DEF Within
  <2> QED
    BY <2>1, <2>2, <2>3, <2>4
<1> QED
  BY SMTT(40), <1>1, <1>2, <1>4, <1>5, <1>6 DEF Within

-----------------------------------------------------------------------------
(* Every step keeps them so *)

Joined == Usage \cap Disjoined = {}

\* A trace's __exit__ is under way.
Closing(k) == strand[k].step # "host" /\ strand[k].stack # << >> /\ strand[k].stack[1].kind = "trace"

HasSpan(k, s) == \E i \in 1..Depth(k) :
    strand[k].stack[i].kind = "span" /\ strand[k].stack[i].id = s

\* When a trace is being left, the strands started in it are over, and its status is what
\* has been read of it, or set.
ClosesAlone(k) ==
    LET h == strand[k].stack[1].id
    IN  /\ strand[k].failing = None
        /\ \A j \in Strands \ {k} : strand[j].under = h => strand[j].at = "over"
        /\ strand[k].step = "settle" <=> trace[made[h]].status = "UNSET"

\* A strand records the errors of its own spans.
FailsOwn(k) == strand[k].failing # None => HasSpan(k, strand[k].failing)

\* A call of the SDK is about what its strand has open.
Underway ==
    /\ \A k \in Strands : FailsOwn(k)
    /\ \A k \in Strands : Closing(k) => ClosesAlone(k)

\* What is assumed before a step, and of the types after it.
Before == TInv /\ TInv' /\ OwnContext /\ Exclusive /\ Nested /\ Underway

LEMMA NoneIsNoTrace == None \notin Contexts /\ None \notin Traces /\ None \notin Spans
BY NamesAssumption

LEMMA StacksSame ==
    ASSUME \A j \in Strands : strand'[j].stack = strand[j].stack
    PROVE  \A kind, id : IsOpen(kind, id)' <=> IsOpen(kind, id)
BY DEF IsOpen, Depth

LEMMA UnderOpen ==
    ASSUME NEW k \in Strands, NEW h, IsOpen("trace", h)', h = strand'[k].under
    PROVE  IsOpen("trace", strand[k].under)'
BY DEF IsOpen

\* A strand that runs has its own context and its variables.
LEMMA RunsInOwn ==
    ASSUME Before, NEW k \in Strands
    PROVE  /\ strand[k].ctx = k /\ Hosted(k) /\ Chain(k) /\ Within(k)
           /\ \A i \in 1..Depth(k) : strand[k].stack[i].ctx = k
BY DEF Before, Nested, Hosted, OwnContext

\* A step that changes neither blocks nor what is current.
LEMMA NestedKept ==
    ASSUME Before,
           \A j \in Strands : \A f \in {"stack", "base", "under", "kind", "ctx"} :
              strand'[j][f] = strand[j][f],
           \A j \in Strands : strand'[j].at = strand[j].at
                              \/ (strand'[j].at = "over" /\ strand[j].stack = << >>),
           made' = made, curTrace' = curTrace, curSpan' = curSpan,
           \A s \in Spans : span[s] # None =>
              span'[s] # None /\ span'[s].via = span[s].via /\ span'[s].trace = span[s].trace
    PROVE  Nested'
<1> SUFFICES ASSUME NEW k \in Strands
             PROVE  Hosted(k)' /\ Chain(k)' /\ Within(k)'
  BY DEF Nested
<1>1. Hosted(k) /\ Chain(k) /\ Within(k) /\ TInv
  BY DEF Before, Nested
<1>2. \A id : IsOpen("trace", id)' <=> IsOpen("trace", id)
  BY StacksSame
<1>3. /\ strand'[k].stack = strand[k].stack /\ strand'[k].kind = strand[k].kind
      /\ strand'[k].ctx = strand[k].ctx
  OBVIOUS
<1>4. /\ strand'[k].at = "live" => strand[k].at = "live"
      /\ strand'[k].at # "live" => strand[k].at # "live" \/ strand[k].stack = << >>
      /\ strand'[k].at = "new" => strand[k].at = "new"
  OBVIOUS
<1>5. Hosted(k)'
  BY <1>1, <1>3, <1>4 DEF Hosted
<1>6. \A f \in {"stack", "base", "under", "kind"} : strand'[k][f] = strand[k][f]
  OBVIOUS
<1>7. Chain(k)' /\ Within(k)'
  BY <1>1, <1>2, <1>4, <1>6, ChainKept, WithinKept
<1> QED
  BY <1>5, <1>7

LEMMA NestedHost ==
    ASSUME Joined, Before, NEW k \in Strands, HostStep(k)
    PROVE  Nested'
<1>1. ASSUME NEW c \in Strands
      PROVE  ~Migrate(k, c)
  BY RunsInOwn DEF Migrate, Hosted
<1>2. /\ UNCHANGED <<made, trace, span, curTrace, curSpan>>
      /\ \A j \in Strands : \A f \in {"stack", "base", "under", "kind"} : strand'[j][f] = strand[j][f]
      /\ \A j \in Strands \ {k} : strand'[j] = strand[j]
  BY HostEffects DEF Before, Keeps
<1>3. /\ strand'[k].ctx = strand[k].ctx
      /\ strand'[k].at = strand[k].at \/ (strand'[k].at = "over" /\ strand[k].stack = << >>)
  <2>1. strand \in [Strands -> Strand] /\ strand[k] \in Strand
    BY DEF Before, TInv, TypeOK
  <2> QED
    BY <1>1, <2>1 DEF HostStep, Raise, Catch, Finish, SpanOutsideTrace, Strand
<1>4. \A j \in Strands : /\ strand'[j].ctx = strand[j].ctx
                         /\ strand'[j].at = strand[j].at
                            \/ (strand'[j].at = "over" /\ strand[j].stack = << >>)
  BY <1>2, <1>3
<1>5. \A j \in Strands : \A f \in {"stack", "base", "under", "kind", "ctx"} :
         strand'[j][f] = strand[j][f]
  BY <1>2, <1>4
<1> QED
  BY <1>2, <1>4, <1>5, NestedKept

LEMMA NestedExport ==
    ASSUME Before, NEW k \in Strands, NEW succeeds \in BOOLEAN,
           Export(k, succeeds) \/ Post(k, succeeds)
    PROVE  Nested'
<1>1. Exported(k) /\ UNCHANGED <<made, span, curTrace, curSpan>>
  BY ExportEffects DEF Before, Export, Post
<1>2. \A j \in Strands : \A f \in {"stack", "base", "under", "kind", "ctx", "at"} :
         strand'[j][f] = strand[j][f]
  BY <1>1 DEF Exported, Fixed
<1>3. \A j \in Strands : strand'[j].at = strand[j].at
  BY <1>2
<1> QED
  BY <1>1, <1>2, <1>3, NestedKept

LEMMA NestedRestating ==
    ASSUME Before, NEW k \in Strands, Restating(k)
    PROVE  Nested'
<1>1. Restated(k)
  BY RestatingEffects DEF Before
<1>2. \A x \in Spans : span[x] # None =>
         span'[x] # None /\ span'[x].via = span[x].via /\ span'[x].trace = span[x].trace
  BY <1>1 DEF Restated
<1>3. \A j \in Strands : \A f \in {"stack", "base", "under", "kind", "ctx", "at"} :
         strand'[j][f] = strand[j][f]
  BY <1>1 DEF Restated, Fixed
<1>4. \A j \in Strands : strand'[j].at = strand[j].at
  BY <1>3
<1> QED
  BY <1>1, <1>2, <1>3, <1>4, NestedKept DEF Restated

LEMMA NestedStart ==
    ASSUME Joined, Before, NEW k \in Strands, NEW j \in Strands,
           NEW kind \in Kinds, Start(k, j, kind)
    PROVE  Nested'
<1>1. TInv /\ TypeOK /\ strand[k].ctx = k /\ Hosted(k) /\ Chain(k) /\ Within(k)
  BY RunsInOwn DEF Before, TInv
<1>2. kind \in Kinds /\ kind # "generator" /\ strand[k].at = "live" /\ strand[j].at = "new"
  BY DEF Start, Joined, Disjoined, Running, Live
<1>3. /\ \A g \in Strands \ {j} : strand'[g] = strand[g]
      /\ strand'[j].stack = << >> /\ strand'[j].at = "live" /\ strand'[j].kind = kind
      /\ strand'[j].under = curTrace[k] /\ strand'[j].ctx = j
      /\ strand'[j].base = IF kind = "thread" THEN None ELSE curSpan[k]
      /\ UNCHANGED <<made, trace, span>>
  BY <1>1, <1>2, StartEffects
<1>4. /\ curTrace'[j] = IF kind = "thread" THEN None ELSE curTrace[k]
      /\ curSpan'[j] = IF kind = "thread" THEN None ELSE curSpan[k]
      /\ \A g \in Strands \ {j} : curTrace'[g] = curTrace[g] /\ curSpan'[g] = curSpan[g]
      /\ strand[j].stack = << >>
  BY <1>1, <1>2, RunsInOwn DEF Start, Hosted, TypeOK
<1>5. \A g \in Strands : strand'[g].stack = strand[g].stack
  BY <1>3, <1>4
<1>6. \A id : IsOpen("trace", id)' <=> IsOpen("trace", id)
  BY <1>5, StacksSame
<1>7. ASSUME NEW g \in Strands \ {j}
      PROVE  Hosted(g)' /\ Chain(g)' /\ Within(g)'
  <2>1. Hosted(g) /\ Chain(g) /\ Within(g) /\ strand'[g] = strand[g]
    BY <1>3, RunsInOwn
  <2>2. Hosted(g)'
    BY <1>4, <2>1 DEF Hosted
  <2>3. Chain(g)'
    BY <1>4, <2>1, ChainKept
  <2>4. Within(g)'
    BY <1>1, <1>3, <1>4, <1>6, <2>1, WithinKept
  <2> QED
    BY <2>2, <2>3, <2>4
<1>8. Depth(j)' = 0
  BY <1>3 DEF Depth
<1>9. Inherits(j)' = curTrace'[j]
  BY <1>2, <1>3, <1>4 DEF Inherits
<1>10. Hosted(j)'
  BY <1>2, <1>3 DEF Hosted
<1>11. Chain(j)'
  BY <1>3, <1>4, <1>8, <1>9 DEF Chain, SpanBelow
<1>12. Within(j)'
  <2>1. strand'[j].under # None => IsOpen("trace", strand[j].under)'
    BY <1>1, <1>2, <1>3, <1>6, CurrentIsOpen, UnderOpen
  <2>2. strand'[j].base # None =>
           /\ Inherits(j)' # None /\ span'[strand'[j].base] # None
           /\ span'[strand'[j].base].trace = made'[Inherits(j)']
    BY <1>1, <1>2, <1>3, <1>4, <1>9, CurrentSpanIsWithin
  <2> QED
    BY <1>3, <1>8, <2>1, <2>2 DEF Within
<1> QED
  BY <1>7, <1>10, <1>11, <1>12 DEF Nested

\* A trace's block is entered: no span is current, so the strand has only traces open.
LEMMA NestedEnterTrace ==
    ASSUME Joined, Before, NEW k \in Strands, NEW h \in Contexts, NEW t \in Traces,
           EnterTrace(k, h, t)
    PROVE  Nested'
<1> DEFINE b == TraceBlockOf(k, h)
<1>1. TInv /\ TypeOK /\ strand[k].ctx = k /\ Hosted(k) /\ Chain(k) /\ Within(k)
  BY RunsInOwn DEF Before, TInv
<1>2. AfterPush(k, b) /\ b.kind = "trace" /\ b.id = h /\ b.old = curTrace[k]
  BY <1>1, EnterTraceEffects DEF TraceBlockOf
<1> HIDE DEF b
<1>3. /\ strand[k].at = "live" /\ curSpan[k] = None
      /\ made' = [made EXCEPT ![h] = t] /\ curTrace' = [curTrace EXCEPT ![k] = h]
      /\ UNCHANGED <<span, curSpan>>
  BY <1>1 DEF EnterTrace, Running, Live, Joined, Disjoined
<1>4. ~IsOpen("trace", h)
  <2>1. made[h] = None \/ ~IsOpen("trace", h)
    BY DEF EnterTrace
  <2> QED
    BY <1>1, <2>1, OpenIsMade, NoneIsNoTrace
<1>5. \A id : IsOpen("trace", id)' <=> IsOpen("trace", id) \/ id = h
  BY <1>1, <1>2, OpenAfterPush
<1>6. \A g \in Contexts : IsOpen("trace", g) => made'[g] = made[g]
  BY <1>1, <1>3, <1>4 DEF TypeOK
<1>7. ASSUME NEW j \in Strands \ {k}
      PROVE  Hosted(j)' /\ Chain(j)' /\ Within(j)'
  <2>1. Hosted(j) /\ Chain(j) /\ Within(j) /\ strand'[j] = strand[j]
    BY <1>2, RunsInOwn DEF AfterPush
  <2>2. curTrace'[j] = curTrace[j] /\ curSpan'[j] = curSpan[j]
    BY <1>1, <1>3 DEF TypeOK
  <2>3. Hosted(j)'
    BY <2>1, <2>2 DEF Hosted
  <2>4. Chain(j)'
    BY <2>1, <2>2, ChainKept
  <2>5. Within(j)'
    BY <1>1, <1>3, <1>5, <1>6, <2>1, <2>2, WithinKept
  <2> QED
    BY <2>3, <2>4, <2>5
<1>8. Depth(k) \in Nat /\ \A i \in 1..Depth(k) : strand[k].stack[i] \in Block
                          /\ strand[k].stack[i].kind \in {"trace", "span"}
  BY <1>1, StrandTypes, BlockTypes
<1>9. strand[k].base = None /\ \A i \in 1..Depth(k) : strand[k].stack[i].kind = "trace"
  <2>1. SpanBelow(k, 0) = None
    BY <1>1, <1>3 DEF Chain
  <2>2. ~(0 < Depth(k) /\ strand[k].stack[1].kind = "span")
    <3>1. 0 < Depth(k) /\ strand[k].stack[1].kind = "span" => strand[k].stack[1].id \in Spans
      BY <1>8, BlockTypes
    <3> QED
      BY <1>8, <2>1, <3>1, NamesAssumption DEF SpanBelow
  <2>3. strand[k].base = None
    BY <1>8, <2>1, <2>2 DEF SpanBelow
  <2>4. \A i \in 1..Depth(k) : strand[k].stack[i].kind = "trace"
    BY <1>1, <1>8, <2>2 DEF Chain
  <2> QED
    BY <2>3, <2>4
<1>10. strand'[k].ctx = k /\ strand'[k].kind = strand[k].kind /\ strand'[k].at = "live"
       /\ strand'[k].base = None /\ strand'[k].under = strand[k].under
  BY <1>1, <1>2, <1>3, <1>9 DEF AfterPush, Fixed
<1>11. Hosted(k)'
  BY <1>1, <1>10 DEF Hosted
<1>12. Chain(k)'
  <2>1. curTrace'[k] = b.id /\ curSpan'[k] = curSpan[k]
    BY <1>1, <1>2, <1>3 DEF TypeOK
  <2> QED
    BY <1>1, <1>2, <1>9, <2>1, ChainPushTrace
<1>13. Within(k)'
  <2>1. \A i \in 1..Len(strand'[k].stack) :
           /\ strand'[k].stack[i].kind = "trace"
           /\ strand'[k].stack[i].id = h \/ \E n \in 1..Depth(k) : strand'[k].stack[i] = strand[k].stack[n]
    BY <1>2, <1>9, BlocksBeforePush
  <2>2. strand[k].under # None =>
           /\ IsOpen("trace", strand[k].under) /\ strand[k].under # h
           /\ \A i \in 1..Depth(k) : strand[k].stack[i].id # strand[k].under
    BY <1>1, <1>3, <1>4, <1>9 DEF Within
  <2>3. strand'[k].under # None => IsOpen("trace", strand[k].under)'
    BY <1>5, <1>10, <2>2, UnderOpen
  <2> QED
    BY <1>10, <2>1, <2>2, <2>3 DEF Within, Depth
<1> QED
  BY <1>7, <1>11, <1>12, <1>13 DEF Nested

\* A span's block is entered, in the current trace.
LEMMA NestedEnterSpan ==
    ASSUME Joined, Before, NEW k \in Strands, NEW h \in Contexts, NEW s \in Spans,
           EnterSpan(k, h, s)
    PROVE  Nested'
<1> DEFINE b == SpanBlockOf(k, s)
<1>1. TInv /\ TypeOK /\ strand[k].ctx = k /\ Hosted(k) /\ Chain(k) /\ Within(k)
  BY RunsInOwn DEF Before, TInv
<1>2. AfterPush(k, b) /\ b.kind = "span" /\ b.id = s /\ b.old = curSpan[k]
  <2>1. OpenSpan(k, s)
    BY DEF EnterSpan
  <2> QED
    BY <1>1, <2>1, OpenSpanEffects
<1> HIDE DEF b
<1>3. /\ strand[k].at = "live" /\ curTrace[k] = h /\ span[s] = None
      /\ curSpan' = [curSpan EXCEPT ![k] = s]
      /\ UNCHANGED <<made, curTrace>>
      /\ \A x \in Spans \ {s} : span'[x] = span[x]
      /\ span'[s].via = h /\ span'[s].trace = made[h]
  <2>1. MakeSpan(k, h, s) /\ OpenSpan(k, s) /\ UNCHANGED <<made, curTrace>>
    BY DEF EnterSpan
  <2>2. SpanMade(h, s)
    BY <1>1, <2>1, MakeSpanEffects
  <2>3. strand[k].at = "live" /\ curTrace[k] = h
    BY <1>1, <2>1 DEF MakeSpan, Running, Live, Joined, Disjoined
  <2>4. curSpan' = [curSpan EXCEPT ![k] = s]
    BY <1>1, <2>1, OpenSpanEffects
  <2> QED
    BY <2>1, <2>2, <2>3, <2>4 DEF SpanMade
<1>4. \A id : IsOpen("trace", id)' <=> IsOpen("trace", id)
  BY <1>1, <1>2, OpenAfterPush
<1>5. \A x \in Spans : span[x] # None =>
         span'[x] # None /\ span'[x].via = span[x].via /\ span'[x].trace = span[x].trace
  BY <1>3
<1>6. ASSUME NEW j \in Strands \ {k}
      PROVE  Hosted(j)' /\ Chain(j)' /\ Within(j)'
  <2>1. Hosted(j) /\ Chain(j) /\ Within(j) /\ strand'[j] = strand[j]
    BY <1>2, RunsInOwn DEF AfterPush
  <2>2. curTrace'[j] = curTrace[j] /\ curSpan'[j] = curSpan[j]
    BY <1>1, <1>3 DEF TypeOK
  <2>3. Hosted(j)'
    BY <2>1, <2>2 DEF Hosted
  <2>4. Chain(j)'
    BY <2>1, <2>2, ChainKept
  <2>5. Within(j)'
    BY <1>1, <1>3, <1>4, <1>5, <2>1, <2>2, WithinKept
  <2> QED
    BY <2>3, <2>4, <2>5
<1>7. /\ strand'[k].ctx = k /\ strand'[k].kind = strand[k].kind /\ strand'[k].at = "live"
      /\ strand'[k].base = strand[k].base /\ strand'[k].under = strand[k].under
  BY <1>1, <1>2, <1>3 DEF AfterPush, Fixed
<1>8. Hosted(k)'
  BY <1>1, <1>7 DEF Hosted
<1>9. Chain(k)'
  <2>1. curSpan'[k] = b.id /\ curTrace'[k] = curTrace[k]
    BY <1>1, <1>2, <1>3 DEF TypeOK
  <2> QED
    BY <1>1, <1>2, <2>1, ChainPushSpan
<1>10. Within(k)'
  <2>1. ASSUME NEW i \in 1..Len(strand'[k].stack)
        PROVE  LET x == strand'[k].stack[i]
               IN  /\ x.kind = "span" => /\ curTrace[k] # None /\ span'[x.id].via = curTrace[k]
                                         /\ span'[x.id].trace = made[curTrace[k]]
                   /\ x.kind = "trace" => \E n \in 1..Depth(k) : x = strand[k].stack[n]
    <3>1. \/ strand'[k].stack[i] = b
          \/ \E n \in 1..Depth(k) : strand'[k].stack[i] = strand[k].stack[n]
      BY <1>2, BlocksBeforePush
    <3>2. ASSUME NEW n \in 1..Depth(k), strand[k].stack[n].kind = "span"
          PROVE  LET x == strand[k].stack[n].id
                 IN  /\ curTrace[k] # None /\ span'[x].via = curTrace[k]
                     /\ span'[x].trace = made[curTrace[k]]
      <4>1. strand[k].stack[n].id \in Spans /\ IsOpen("span", strand[k].stack[n].id)
        BY <1>1, <3>2, StrandTypes, BlockTypes DEF IsOpen
      <4> QED
        BY <1>1, <1>5, <3>2, <4>1, OpenIsMade DEF Within
    <3>3. curTrace[k] # None
      BY <1>3, NamesAssumption
    <3> QED
      BY <1>2, <1>3, <3>1, <3>2, <3>3
  <2>2. strand[k].under # None =>
           /\ IsOpen("trace", strand[k].under)
           /\ \A i \in 1..Depth(k) :
                 strand[k].stack[i].kind = "trace" => strand[k].stack[i].id # strand[k].under
    BY <1>1, <1>3 DEF Within
  <2>3. strand'[k].under # None => IsOpen("trace", strand[k].under)'
    BY <1>4, <1>7, <2>2, UnderOpen
  <2>4. strand[k].base # None =>
           /\ Inherits(k) # None /\ span'[strand[k].base] # None
           /\ span'[strand[k].base].trace = made[Inherits(k)]
    <3>1. strand[k].base \in Spans \cup {None}
      BY <1>1, StrandTypes DEF Strand
    <3> QED
      BY <1>1, <1>3, <1>5, <3>1 DEF Within
  <2>5. Inherits(k)' = Inherits(k)
    BY <1>7 DEF Inherits
  <2> QED
    BY <1>3, <1>7, <2>1, <2>2, <2>3, <2>4, <2>5 DEF Within, Depth
<1> QED
  BY <1>6, <1>8, <1>9, <1>10 DEF Nested

\* A block is left: what is left of the strand is as it was below it.
LEMMA NestedPop ==
    ASSUME Before, NEW k \in Strands, NEW raising, NEW out, AfterPop(k, raising, out),
           UNCHANGED made,
           \A s \in Spans : span[s] # None =>
              span'[s] # None /\ span'[s].via = span[s].via /\ span'[s].trace = span[s].trace,
           \A j \in Strands \ {k} : curTrace'[j] = curTrace[j] /\ curSpan'[j] = curSpan[j],
           IF strand[k].stack[1].kind = "span"
           THEN curSpan'[k] = strand[k].stack[1].old /\ curTrace'[k] = curTrace[k]
           ELSE curTrace'[k] = strand[k].stack[1].old /\ curSpan'[k] = curSpan[k],
           strand[k].stack[1].kind = "trace" =>
              \A j \in Strands \ {k} : strand[j].under = strand[k].stack[1].id =>
                 strand[j].at = "over"
    PROVE  Nested'
<1> DEFINE b == strand[k].stack[1]
<1>1. TInv /\ TypeOK /\ strand[k].ctx = k /\ Hosted(k) /\ Chain(k) /\ Within(k)
  BY RunsInOwn DEF Before, TInv
<1>2. 1 \in 1..Depth(k) /\ Depth(k) \in Nat /\ b \in Block /\ b.kind \in {"trace", "span"}
  BY BlockTypes DEF AfterPop
<1>3. strand[k].at = "live"
  BY <1>1, <1>2 DEF Hosted, Depth
<1>4. ASSUME NEW j \in Strands, strand[j].at = "live", strand[j].under # None
      PROVE  IsOpen("trace", strand[j].under) /\ (b.kind = "trace" => b.id # strand[j].under)
  <2>1. Within(j)
    BY RunsInOwn
  <2> QED
    BY <1>1, <1>2, <1>4, <2>1 DEF Within
<1>5. \A id : IsOpen("trace", id) /\ ~(b.kind = "trace" /\ b.id = id) => IsOpen("trace", id)'
  BY <1>1, OpenAfterPop
<1>6. ASSUME NEW j \in Strands, strand[j].at = "live", strand[j].under # None
      PROVE  IsOpen("trace", strand[j].under)'
  <2>1. strand'[j].under = strand[j].under
    BY DEF AfterPop, Fixed
  <2> QED
    BY <1>4, <1>5, <1>6, <2>1, UnderOpen
<1> HIDE DEF b
<1>7. ASSUME NEW j \in Strands \ {k}
      PROVE  Hosted(j)' /\ Chain(j)' /\ Within(j)'
  <2>1. Hosted(j) /\ Chain(j) /\ Within(j) /\ strand'[j] = strand[j]
    BY RunsInOwn DEF AfterPop
  <2>2. Hosted(j)'
    BY <2>1 DEF Hosted
  <2>3. Chain(j)'
    BY <2>1, ChainKept
  <2>4. Within(j)'
    BY <1>1, <1>6, <2>1, WithinKept
  <2> QED
    BY <2>2, <2>3, <2>4
<1>8. /\ strand'[k].ctx = k /\ strand'[k].kind = strand[k].kind /\ strand'[k].at = "live"
      /\ strand'[k].base = strand[k].base /\ strand'[k].under = strand[k].under
  BY <1>1, <1>3 DEF AfterPop, Fixed
<1>9. Hosted(k)'
  BY <1>1, <1>8 DEF Hosted
<1>10. Chain(k)'
  BY <1>1, ChainPop
<1>11. Within(k)'
  <2>1. ASSUME NEW i \in 1..Len(strand'[k].stack), strand'[k].stack[i].kind = "span"
        PROVE  LET s == strand'[k].stack[i].id
               IN  curTrace'[k] # None /\ span'[s].via = curTrace'[k]
                   /\ span'[s].trace = made[curTrace'[k]]
    <3>1. i + 1 \in 1..Depth(k) /\ strand'[k].stack[i] = strand[k].stack[i + 1]
      BY DEF AfterPop
    <3>2. b.kind # "trace"
      <4>1. b.kind = "trace" => strand[k].stack[i + 1].kind = "trace"
        BY <1>1, <1>2, <3>1 DEF Chain, b
      <4> QED
        BY <2>1, <3>1, <4>1
    <3>3. curTrace'[k] = curTrace[k]
      BY <1>2, <3>2 DEF b
    <3>4. strand[k].stack[i + 1].id \in Spans /\ IsOpen("span", strand[k].stack[i + 1].id)
      BY <1>1, <2>1, <3>1, StrandTypes, BlockTypes DEF IsOpen
    <3> QED
      BY SMTT(40), <1>1, <2>1, <3>1, <3>3, <3>4, OpenIsMade DEF Within
  <2>2. strand[k].under # None =>
           /\ IsOpen("trace", strand[k].under)'
           /\ \A i \in 1..Len(strand'[k].stack) :
                 strand'[k].stack[i].kind = "trace" => strand'[k].stack[i].id # strand[k].under
    <3>1. \A i \in 1..Len(strand'[k].stack) :
             i + 1 \in 1..Depth(k) /\ strand'[k].stack[i] = strand[k].stack[i + 1]
      BY DEF AfterPop
    <3> QED
      BY SMTT(40), <1>1, <1>3, <1>6, <3>1 DEF Within
  <2>3. strand[k].base # None =>
           /\ Inherits(k) # None /\ span'[strand[k].base] # None
           /\ span'[strand[k].base].trace = made[Inherits(k)]
    <3>1. strand[k].base \in Spans \cup {None}
      BY <1>1, StrandTypes DEF Strand
    <3> QED
      BY <1>1, <1>3, <3>1 DEF Within
  <2>4. Inherits(k)' = Inherits(k)
    BY <1>8 DEF Inherits
  <2> QED
    BY <1>8, <2>1, <2>2, <2>3, <2>4 DEF Within, Depth
<1> QED
  BY <1>7, <1>9, <1>10, <1>11 DEF Nested

LEMMA NestedLeaveSpan ==
    ASSUME Before, NEW k \in Strands, LeaveSpan(k)
    PROVE  Nested'
<1> DEFINE b == strand[k].stack[1]
<1>1. PICK s \in Spans, t \in Traces, resets \in BOOLEAN : SpanLeft(k, s, t, resets)
  BY LeaveSpanSomehow DEF Before
<1>2. PICK raising : AfterPop(k, raising, strand[k].out)
  BY <1>1 DEF SpanLeft
<1>3. b.kind = "span" /\ Head(strand[k].stack) = b /\ b.ctx = k /\ strand[k].ctx = k
  BY SMTT(40), <1>1, <1>2, RunsInOwn DEF SpanLeft, AfterPop
<1>4. UNCHANGED <<made, span, curTrace>> /\ curSpan' = [curSpan EXCEPT ![k] = b.old]
  BY <1>3 DEF LeaveSpan, ResetSpan
<1>5. /\ curSpan'[k] = b.old /\ curTrace'[k] = curTrace[k]
      /\ \A j \in Strands \ {k} : curTrace'[j] = curTrace[j] /\ curSpan'[j] = curSpan[j]
  BY <1>4 DEF Before, TInv, TypeOK
<1> QED
  BY <1>2, <1>3, <1>4, <1>5, NestedPop

LEMMA NestedLeaveTrace ==
    ASSUME Before, NEW k \in Strands, LeaveTrace(k)
    PROVE  Nested'
<1> DEFINE b == strand[k].stack[1]
<1>1. PICK h \in Contexts, t \in Traces, resets \in BOOLEAN : TraceLeft(k, h, t, resets)
  BY LeaveTraceSomehow DEF Before
<1>2. PICK raising, out : AfterPop(k, raising, out)
  BY <1>1 DEF TraceLeft
<1>3. /\ b.kind = "trace" /\ Head(strand[k].stack) = b /\ b.ctx = k /\ strand[k].ctx = k
      /\ Closing(k)
  BY <1>1, <1>2, RunsInOwn DEF TraceLeft, AfterPop, Closing
<1>4. UNCHANGED <<made, span, curSpan>> /\ curTrace' = [curTrace EXCEPT ![k] = b.old]
  BY <1>3 DEF LeaveTrace
<1>5. \A j \in Strands \ {k} : strand[j].under = b.id => strand[j].at = "over"
  BY <1>3 DEF Before, Underway, ClosesAlone
<1>6. /\ curTrace'[k] = b.old /\ curSpan'[k] = curSpan[k]
      /\ \A j \in Strands \ {k} : curTrace'[j] = curTrace[j] /\ curSpan'[j] = curSpan[j]
  BY <1>4 DEF Before, TInv, TypeOK
<1> QED
  BY <1>2, <1>3, <1>4, <1>5, <1>6, NestedPop

\* No other strand that is alive has a trace for its current one that is being left.
LEMMA ClosingIsOwn ==
    ASSUME Before, NEW j \in Strands, Closing(j)
    PROVE  LET h == strand[j].stack[1].id
           IN  /\ h \in Contexts /\ IsOpen("trace", h)
               /\ made[h] \in Traces /\ trace[made[h]] # None /\ made[h] \notin Sent
               /\ \A k \in Strands \ {j} : strand[k].at = "live" => curTrace[k] # h
               /\ \A k \in Strands \ {j} : ~HasBlock(k, h)
<1> DEFINE h == strand[j].stack[1].id
<1>1. TInv /\ Exclusive /\ Depth(j) \in Nat /\ 1 \in 1..Depth(j)
  <2>1. strand[j].stack \in Seq(Block) /\ strand[j].stack # << >>
    BY StrandTypes DEF Before, TInv, Closing
  <2> QED
    BY <2>1 DEF Depth, Before
<1>2. h \in Contexts /\ strand[j].stack[1].kind = "trace"
  BY <1>1, StrandTypes, BlockTypes DEF Closing, TInv
<1>3. IsOpen("trace", h)
  BY <1>1, <1>2 DEF IsOpen
<1>4. ASSUME NEW k \in Strands \ {j}
      PROVE  ~HasBlock(k, h)
  BY <1>1, <1>2 DEF Exclusive, Distinct, HasBlock
<1>5. ASSUME NEW k \in Strands \ {j}, strand[k].at = "live"
      PROVE  curTrace[k] # h
  <2>1. strand[k].under # h
    BY <1>5 DEF Before, Underway, ClosesAlone
  <2>2. Chain(k) /\ h # None
    BY <1>2, RunsInOwn, NoneIsNoTrace
  <2> QED
    BY <1>1, <1>4, <2>1, <2>2, CurrentIsOwn
<1> QED
  BY <1>1, <1>2, <1>3, <1>4, <1>5, OpenIsMade DEF Exclusive

\* A strand whose trace is being left, while others step.
LEMMA ClosingKept ==
    ASSUME Before, NEW j \in Strands, Closing(j), strand'[j] = strand[j],
           \A g \in Strands \ {j} : strand[g].at # "new" =>
              strand'[g].under = strand[g].under /\ (strand[g].at = "over" => strand'[g].at = "over"),
           \A g \in Strands \ {j} : strand[g].at = "new" /\ strand'[g].at # "over" =>
              strand'[g].under # strand[j].stack[1].id,
           made'[strand[j].stack[1].id] = made[strand[j].stack[1].id],
           trace'[made[strand[j].stack[1].id]].status = trace[made[strand[j].stack[1].id]].status
    PROVE  ClosesAlone(j)'
<1>1. ClosesAlone(j)
  BY DEF Before, Underway
<1>2. \A g \in Strands \ {j} : strand'[g].under = strand[j].stack[1].id => strand'[g].at = "over"
  BY <1>1 DEF ClosesAlone
<1> QED
  BY <1>1, <1>2 DEF ClosesAlone

LEMMA FailsOwnKept ==
    ASSUME NEW k \in Strands, FailsOwn(k), strand'[k] = strand[k]
    PROVE  FailsOwn(k)'
BY DEF FailsOwn, HasSpan, Depth

\* It is enough to look at the strand that moves.
LEMMA UnderwayMoves ==
    ASSUME Before, NEW k \in Strands, \A j \in Strands \ {k} : strand'[j] = strand[j],
           strand'[k].under = strand[k].under, strand[k].at # "over", strand[k].at # "new",
           \A j \in Strands \ {k} : Closing(j) =>
              /\ made'[strand[j].stack[1].id] = made[strand[j].stack[1].id]
              /\ trace'[made[strand[j].stack[1].id]].status
                   = trace[made[strand[j].stack[1].id]].status,
           FailsOwn(k)',
           Closing(k)' => ClosesAlone(k)'
    PROVE  Underway'
<1>1. ASSUME NEW j \in Strands \ {k}
      PROVE  FailsOwn(j)'
  BY FailsOwnKept DEF Before, Underway
<1>2. ASSUME NEW j \in Strands \ {k}, Closing(j)'
      PROVE  ClosesAlone(j)'
  <2>1. strand'[j] = strand[j] /\ Closing(j)
    BY <1>2 DEF Closing
  <2>2. \A g \in Strands \ {j} : strand[g].at # "new" =>
           strand'[g].under = strand[g].under /\ (strand[g].at = "over" => strand'[g].at = "over")
    OBVIOUS
  <2>3. ASSUME NEW g \in Strands \ {j}, strand[g].at = "new"
        PROVE  strand'[g].under # strand[j].stack[1].id
    <3>1. g # k /\ strand'[g] = strand[g]
      BY <2>3
    <3>2. ClosesAlone(j)
      BY <2>1 DEF Before, Underway
    <3> QED
      BY <2>3, <3>1, <3>2 DEF ClosesAlone
  <2> QED
    BY <2>1, <2>2, <2>3, ClosingKept
<1> QED
  BY <1>1, <1>2 DEF Underway

LEMMA UnderwayHost ==
    ASSUME Before, NEW k \in Strands, HostStep(k)
    PROVE  Underway'
<1>1. /\ UNCHANGED <<made, trace>> /\ \A j \in Strands \ {k} : strand'[j] = strand[j]
      /\ Keeps("under") /\ Keeps("failing") /\ Keeps("step") /\ Idle(k)
  BY HostEffects DEF Before
<1>2. strand[k].at = "live"
  BY DEF HostStep, Migrate, Raise, Catch, Finish, SpanOutsideTrace, Running, Live
<1>3. strand'[k].under = strand[k].under /\ strand'[k].failing = None /\ strand'[k].step = "host"
  BY <1>1 DEF Keeps, Idle
<1> QED
  BY <1>1, <1>2, <1>3, UnderwayMoves DEF Closing, FailsOwn

LEMMA UnderwayStart ==
    ASSUME Joined, Before, NEW k \in Strands, NEW j \in Strands, NEW kind \in Kinds, Start(k, j, kind)
    PROVE  Underway'
<1>1. /\ \A g \in Strands \ {j} : strand'[g] = strand[g]
      /\ strand'[j].step = "host" /\ strand'[j].failing = None /\ strand'[j].at = "live"
      /\ strand'[j].under = curTrace[k] /\ UNCHANGED <<made, trace>>
      /\ strand[j].at = "new" /\ Running(k)
  BY StartEffects, RunsInOwn DEF Before
<1>2. ASSUME NEW g \in Strands
      PROVE  FailsOwn(g)'
  <2>1. CASE g = j
    BY <1>1, <2>1 DEF FailsOwn
  <2>2. CASE g # j
    BY <1>1, <2>2, FailsOwnKept DEF Before, Underway
  <2> QED
    BY <2>1, <2>2
<1>3. ASSUME NEW g \in Strands, Closing(g)'
      PROVE  ClosesAlone(g)'
  <2>1. g # j /\ strand'[g] = strand[g] /\ Closing(g)
    BY <1>1, <1>3 DEF Closing
  <2>2. g # k /\ strand[k].at = "live"
    BY <1>1, <2>1 DEF Closing, Running, Live, Idle
  <2>3. curTrace[k] # strand[g].stack[1].id
    BY <2>1, <2>2, ClosingIsOwn
  <2>4. \A i \in Strands \ {g} : strand[i].at # "new" =>
           strand'[i].under = strand[i].under /\ (strand[i].at = "over" => strand'[i].at = "over")
    BY <1>1
  <2>5. ASSUME NEW i \in Strands \ {g}, strand[i].at = "new", strand'[i].at # "over"
        PROVE  strand'[i].under # strand[g].stack[1].id
    <3>1. CASE i = j
      BY <1>1, <2>3, <3>1
    <3>2. CASE i # j
      BY <1>1, <2>1, <2>5, <3>2 DEF Before, Underway, ClosesAlone
    <3> QED
      BY <3>1, <3>2
  <2> QED
    BY <1>1, <2>1, <2>4, <2>5, ClosingKept
<1> QED
  BY <1>2, <1>3 DEF Underway

\* A block is entered by a strand that is in no call.
LEMMA UnderwayPush ==
    ASSUME Before, NEW k \in Strands, NEW b, AfterPush(k, b), Running(k),
           \A h \in Contexts : IsOpen("trace", h) => made'[h] = made[h],
           \A t \in Traces : trace[t] # None => trace'[t] = trace[t]
    PROVE  Underway'
<1>1. /\ strand'[k].step = "host" /\ strand'[k].failing = None /\ strand[k].at = "live"
      /\ strand'[k].under = strand[k].under
  BY DEF AfterPush, Fixed, Calls, Running, Live, Idle
<1>2. \A j \in Strands \ {k} : Closing(j) =>
         /\ made'[strand[j].stack[1].id] = made[strand[j].stack[1].id]
         /\ trace'[made[strand[j].stack[1].id]] = trace[made[strand[j].stack[1].id]]
  BY ClosingIsOwn
<1>3. \A j \in Strands \ {k} : strand'[j] = strand[j]
  BY DEF AfterPush
<1> QED
  BY <1>1, <1>2, <1>3, UnderwayMoves DEF Closing, FailsOwn

LEMMA UnderwayEnterTrace ==
    ASSUME Before, NEW k \in Strands, NEW h \in Contexts, NEW t \in Traces, EnterTrace(k, h, t)
    PROVE  Underway'
<1>1. TInv /\ TypeOK
  BY DEF Before, TInv
<1>2. AfterPush(k, TraceBlockOf(k, h)) /\ Running(k)
  BY <1>1, EnterTraceEffects DEF EnterTrace
<1>3. made' = [made EXCEPT ![h] = t] /\ trace[t] = None
      /\ \A x \in Traces \ {t} : trace'[x] = trace[x]
  BY <1>1 DEF EnterTrace, TypeOK
<1>4. ~IsOpen("trace", h)
  <2>1. made[h] = None \/ ~IsOpen("trace", h)
    BY DEF EnterTrace
  <2> QED
    BY <1>1, <2>1, OpenIsMade, NoneIsNoTrace
<1>5. \A g \in Contexts : IsOpen("trace", g) => made'[g] = made[g]
  BY <1>1, <1>3, <1>4 DEF TypeOK
<1>6. \A x \in Traces : trace[x] # None => trace'[x] = trace[x]
  BY <1>3
<1> QED
  BY <1>2, <1>5, <1>6, UnderwayPush

LEMMA UnderwayEnterSpan ==
    ASSUME Before, NEW k \in Strands, NEW h \in Contexts, NEW s \in Spans, EnterSpan(k, h, s)
    PROVE  Underway'
<1>1. OpenSpan(k, s) /\ UNCHANGED <<made, trace>> /\ Running(k)
  BY DEF EnterSpan, OpenSpan
<1>2. AfterPush(k, SpanBlockOf(k, s))
  BY <1>1, OpenSpanEffects DEF Before
<1> QED
  BY <1>1, <1>2, UnderwayPush

\* A block is left by a strand whose span has no failure to pass on.
LEMMA UnderwayPop ==
    ASSUME Before, NEW k \in Strands, NEW raising, NEW out, AfterPop(k, raising, out),
           strand[k].failing = None, UNCHANGED made,
           \A t \in Traces : trace[t] # None => trace'[t].status = trace[t].status
    PROVE  Underway'
<1>1. /\ strand'[k].step = "host" /\ strand'[k].failing = None
      /\ strand'[k].under = strand[k].under
  BY DEF AfterPop, Fixed
<1>2. strand[k].at = "live"
  <2>1. Hosted(k) /\ Depth(k) # 0
    BY RunsInOwn DEF AfterPop
  <2> QED
    BY <2>1 DEF Hosted, Depth
<1>3. \A j \in Strands \ {k} : Closing(j) =>
         trace'[made[strand[j].stack[1].id]].status = trace[made[strand[j].stack[1].id]].status
  BY ClosingIsOwn
<1>4. \A j \in Strands \ {k} : strand'[j] = strand[j]
  BY DEF AfterPop
<1> QED
  BY <1>1, <1>2, <1>3, <1>4, UnderwayMoves DEF Closing, FailsOwn

LEMMA UnderwayLeave ==
    ASSUME Before, NEW k \in Strands, LeaveSpan(k) \/ LeaveTrace(k)
    PROVE  Underway'
<1>1. CASE LeaveSpan(k)
  <2>1. PICK s \in Spans, t \in Traces, resets \in BOOLEAN : SpanLeft(k, s, t, resets)
    BY <1>1, LeaveSpanSomehow DEF Before
  <2>2. PICK raising : AfterPop(k, raising, strand[k].out)
    BY <2>1 DEF SpanLeft
  <2>3. strand[k].failing = None /\ UNCHANGED made
        /\ \A x \in Traces : trace[x] # None => trace'[x].status = trace[x].status
    BY <2>1 DEF SpanLeft
  <2> QED
    BY <2>2, <2>3, UnderwayPop
<1>2. CASE LeaveTrace(k)
  <2>1. PICK h \in Contexts, t \in Traces, resets \in BOOLEAN : TraceLeft(k, h, t, resets)
    BY <1>2, LeaveTraceSomehow DEF Before
  <2>2. PICK raising, out : AfterPop(k, raising, out)
    BY <2>1 DEF TraceLeft
  <2>3. Closing(k) /\ UNCHANGED <<made, trace>>
    BY <2>1 DEF TraceLeft, Closing
  <2>4. strand[k].failing = None
    BY <2>3 DEF Before, Underway, ClosesAlone
  <2> QED
    BY <2>2, <2>3, <2>4, UnderwayPop
<1> QED
  BY <1>1, <1>2

\* A trace that another strand is leaving is none that a strand can reach.
LEMMA ClosingIsOther ==
    ASSUME Before, NEW j \in Strands, Closing(j), NEW k \in Strands \ {j}, strand[k].at = "live",
           NEW g \in Contexts, made[g] # None, g = curTrace[k] \/ HasBlock(k, g)
    PROVE  made[g] # made[strand[j].stack[1].id]
<1> DEFINE h == strand[j].stack[1].id
<1>1. h \in Contexts /\ made[h] \in Traces /\ g # h
  BY ClosingIsOwn
<1> QED
  BY <1>1 DEF Before, Exclusive

\* What a strand with a failed span reaches is its current trace.
LEMMA FailsCurrent ==
    ASSUME Before, NEW k \in Strands, FailTrace(k)
    PROVE  LET s == strand[k].failing
           IN  /\ strand[k].at = "live" /\ s \in Spans /\ IsOpen("span", s)
               /\ span[s].via = curTrace[k] /\ curTrace[k] \in Contexts
               /\ span[s].trace = made[curTrace[k]] /\ made[curTrace[k]] # None
<1> DEFINE s == strand[k].failing
<1>1. HasSpan(k, s) /\ s # None /\ TInv
  BY DEF FailTrace, Before, Underway, FailsOwn
<1>2. PICK i \in 1..Depth(k) : strand[k].stack[i].kind = "span" /\ strand[k].stack[i].id = s
  BY <1>1 DEF HasSpan
<1>3. strand[k].at = "live" /\ Chain(k) /\ Within(k)
  BY <1>2, RunsInOwn DEF Hosted, Depth
<1>4. curTrace[k] # None /\ span[s].via = curTrace[k] /\ span[s].trace = made[curTrace[k]]
  BY <1>2, <1>3 DEF Within
<1>5. s \in Spans /\ IsOpen("span", s)
  BY <1>1, <1>2, StrandTypes DEF IsOpen, TInv
<1>6. curTrace[k] \in Contexts /\ made[curTrace[k]] \in Traces
  BY <1>1, <1>3, <1>4, CurrentIsOpen, OpenIsMade
<1> QED
  BY <1>3, <1>4, <1>5, <1>6, NoneIsNoTrace

\* The traces that other strands are leaving keep their status.
LEMMA ClosingKeepsStatus ==
    ASSUME Before, NEW k \in Strands, Restating(k), strand[k].at = "live",
           NEW j \in Strands \ {k}, Closing(j)
    PROVE  LET t == made[strand[j].stack[1].id]
           IN  trace'[t].status = trace[t].status
<1> DEFINE t == made[strand[j].stack[1].id]
<1>0. TInv /\ t \in Traces
  BY ClosingIsOwn DEF Before
<1>1. CASE (\E s \in Spans : RecordError(k, s)) \/ ExitSpan(k) \/ SettleSpan(k)
  BY <1>1 DEF RecordError, ExitSpan, SettleSpan
<1>2. CASE FailTrace(k)
  <2>1. made[span[strand[k].failing].via] # t
    BY <1>2, FailsCurrent, ClosingIsOther
  <2> QED
    BY <1>0, <1>2, <2>1, FailTraceEffects DEF TraceSet
<1>3. CASE ExitTrace(k) \/ SettleTrace(k)
  <2> DEFINE h == strand[k].stack[1].id
  <2>1. h \in Contexts /\ made[h] \in Traces /\ HasBlock(k, h)
    BY <1>0, <1>3, HeadTypes DEF ExitTrace, SettleTrace, HasBlock
  <2>2. made[h] # t
    BY <2>1, ClosingIsOther, NoneIsNoTrace
  <2>3. trace' = trace \/ \E status : TraceSet(made[h], status)
    BY <1>0, <1>3, ExitTraceEffects, SettleTraceEffects
  <2> QED
    BY <1>0, <2>2, <2>3 DEF TraceSet
<1> QED
  BY <1>1, <1>2, <1>3 DEF Restating

LEMMA UnderwayRestating ==
    ASSUME Joined, Before, NEW k \in Strands, Restating(k)
    PROVE  Underway'
<1>0. TInv /\ TypeOK /\ Restated(k) /\ Hosted(k)
  BY RestatingEffects, RunsInOwn DEF Before, TInv
<1>1. strand[k].at = "live"
  <2>1. CASE FailTrace(k)
    BY <2>1, FailsCurrent
  <2>2. CASE ~FailTrace(k)
    BY <1>0, <2>2 DEF Restating, RecordError, ExitSpan, SettleSpan, ExitTrace, SettleTrace, Running,
       Live, InBlock, Hosted
  <2> QED
    BY <2>1, <2>2
<1>2. /\ \A j \in Strands \ {k} : strand'[j] = strand[j]
      /\ strand'[k].under = strand[k].under /\ strand'[k].stack = strand[k].stack
      /\ UNCHANGED made
  BY <1>0 DEF Restated, Fixed
<1>3. Depth(k)' = Depth(k)
  BY <1>2 DEF Depth
<1>4. FailsOwn(k)'
  <2>1. ASSUME NEW s, strand'[k].failing = s, HasSpan(k, s)
        PROVE  FailsOwn(k)'
    BY <1>2, <1>3, <2>1 DEF FailsOwn, HasSpan
  <2>2. ASSUME strand'[k].failing = strand[k].failing
        PROVE  FailsOwn(k)'
    BY <1>2, <1>3, <2>2 DEF Before, Underway, FailsOwn, HasSpan
  <2>3. CASE \E s \in Spans : RecordError(k, s)
    <3>1. PICK s \in Spans : RecordError(k, s)
      BY <2>3
    <3>2. HasSpan(k, s) /\ strand'[k].failing = s
      BY <1>0, <3>1, RecordErrorEffects DEF RecordError, Joined, Disjoined, HasSpan, GoesOn
    <3> QED
      BY <2>1, <3>2
  <2>4. CASE FailTrace(k)
    BY <1>0, <2>4, FailTraceEffects DEF GoesOn, FailsOwn
  <2>5. CASE ExitSpan(k)
    <3>1. PICK s : s = strand[k].stack[1].id
      OBVIOUS
    <3>2. HasSpan(k, s)
      BY <1>0, <2>5, <3>1, HeadTypes DEF ExitSpan, HasSpan
    <3>3. strand'[k].failing = s \/ strand'[k].failing = strand[k].failing
      BY <1>0, <2>5, <3>1, ExitSpanEffects DEF GoesOn
    <3> QED
      BY <2>1, <2>2, <3>2, <3>3
  <2>6. CASE SettleSpan(k) \/ ExitTrace(k) \/ SettleTrace(k)
    <3>1. strand'[k].failing = strand[k].failing
      BY <1>0, <2>6, SettleSpanEffects, ExitTraceEffects, SettleTraceEffects DEF GoesOn
    <3> QED
      BY <2>2, <3>1
  <2> QED
    BY <2>3, <2>4, <2>5, <2>6 DEF Restating
<1>5. ASSUME Closing(k)'
      PROVE  ClosesAlone(k)'
  <2>0. /\ strand[k].stack # << >> /\ strand[k].stack[1].kind = "trace"
        /\ strand'[k].step # "host"
    BY <1>2, <1>5 DEF Closing
  <2> DEFINE h == strand[k].stack[1].id
  <2>1. CASE \E s \in Spans : RecordError(k, s)
    BY <1>0, <2>0, <2>1, RecordErrorEffects DEF GoesOn
  <2>2. CASE FailTrace(k)
    <3>1. Closing(k)
      BY <1>0, <2>0, <2>2, FailTraceEffects DEF GoesOn, Closing
    <3> QED
      BY <2>2, <3>1 DEF FailTrace, Before, Underway, ClosesAlone
  <2>3. CASE ExitSpan(k) \/ SettleSpan(k)
    BY <1>0, <2>0, <2>3, InBlockHead DEF ExitSpan, SettleSpan
  <2>4. CASE ExitTrace(k)
    <3>1. \A j \in Strands \ {k} : strand'[j].under = h => strand'[j].at = "over"
      BY <1>0, <1>2, <2>4, HeadTypes DEF ExitTrace, Joined, Disjoined
    <3>2. strand'[k].failing = None
      BY <1>0, <2>4, ExitTraceEffects DEF ExitTrace, Live, Idle, GoesOn
    <3>3. strand'[k].step = "settle" <=> trace'[made[h]].status = "UNSET"
      BY <1>0, <2>4, ExitTraceEffects DEF GoesOn, TraceSet, StepAfter
    <3> QED
      BY <1>2, <3>1, <3>2, <3>3 DEF ClosesAlone
  <2>5. CASE SettleTrace(k)
    <3>1. ClosesAlone(k)
      BY <2>0, <2>5 DEF SettleTrace, Closing, Before, Underway
    <3>2. strand'[k].failing = None /\ strand'[k].step = "leave" /\ trace'[made[h]].status = "OK"
      BY <1>0, <2>5, <3>1, SettleTraceEffects DEF ClosesAlone, GoesOn, TraceSet
    <3> QED
      BY <1>2, <3>1, <3>2 DEF ClosesAlone
  <2> QED
    BY <2>1, <2>2, <2>3, <2>4, <2>5 DEF Restating
<1>6. \A j \in Strands \ {k} : Closing(j) =>
         trace'[made[strand[j].stack[1].id]].status = trace[made[strand[j].stack[1].id]].status
  BY <1>1, ClosingKeepsStatus
<1> QED
  BY <1>1, <1>2, <1>4, <1>5, <1>6, UnderwayMoves

LEMMA UnderwayExport ==
    ASSUME Before, NEW k \in Strands, NEW succeeds \in BOOLEAN,
           Export(k, succeeds) \/ Post(k, succeeds)
    PROVE  Underway'
<1>1. Exported(k) /\ UNCHANGED <<made, trace>>
  BY ExportEffects DEF Before
<1>2. \A j \in Strands : \A f \in {"at", "under", "stack", "step", "failing"} : strand'[j][f] = strand[j][f]
  BY <1>1 DEF Exported, Fixed
<1>3. \A j \in Strands : /\ strand'[j].at = strand[j].at /\ strand'[j].under = strand[j].under
                         /\ strand'[j].stack = strand[j].stack /\ strand'[j].step = strand[j].step
                         /\ strand'[j].failing = strand[j].failing
  BY <1>2
<1>4. \A j \in Strands : FailsOwn(j)'
  BY <1>3 DEF Before, Underway, FailsOwn, HasSpan, Depth
<1>5. \A j \in Strands : Closing(j)' => ClosesAlone(j)'
  BY <1>1, <1>3 DEF Before, Underway, Closing, ClosesAlone
<1> QED
  BY <1>4, <1>5 DEF Underway

\* What a strand of a joined host does, by kinds of step.
LEMMA KindsOfJoinedStep ==
    ASSUME Joined, NEW k \in Strands, StrandNext(k)
    PROVE  \/ \E j \in Strands, kind \in Kinds : Start(k, j, kind)
           \/ HostStep(k)
           \/ \E h \in Contexts, t \in Traces : EnterTrace(k, h, t)
           \/ \E h \in Contexts, s \in Spans : EnterSpan(k, h, s)
           \/ Restating(k)
           \/ LeaveSpan(k) \/ LeaveTrace(k)
           \/ \E succeeds \in BOOLEAN : Export(k, succeeds) \/ Post(k, succeeds)
<1>1. \A s \in Spans : ~EnterKept(k, s) /\ \A h \in Contexts : ~KeepSpan(k, h, s)
  BY DEF KeepSpan, EnterKept, Joined, Disjoined
<1> QED
  BY <1>1, KindsOfStep

LEMMA NestedStep ==
    ASSUME Joined, Before, NEW k \in Strands, StrandNext(k)
    PROVE  Nested' /\ Underway'
BY KindsOfJoinedStep, NestedStart, NestedHost, NestedEnterTrace, NestedEnterSpan, NestedRestating,
   NestedLeaveSpan, NestedLeaveTrace, NestedExport, UnderwayStart, UnderwayHost,
   UnderwayEnterTrace, UnderwayEnterSpan, UnderwayRestating, UnderwayLeave, UnderwayExport

LEMMA NestedHolds ==
    ASSUME Joined
    PROVE  Spec => [](OwnContext /\ Exclusive /\ Nested /\ Underway)
<1>1. Init => Nested /\ Underway
  <2> SUFFICES ASSUME Init, NEW k \in Strands
               PROVE  /\ Hosted(k) /\ Chain(k) /\ Within(k)
                      /\ FailsOwn(k) /\ ~Closing(k)
    BY DEF Nested, Underway
  <2>1. /\ strand[k].stack = << >> /\ strand[k].ctx = k /\ strand[k].kind = "thread"
        /\ strand[k].under = None /\ strand[k].base = None /\ strand[k].failing = None
        /\ curTrace[k] = None /\ curSpan[k] = None
    BY DEF Init, NewStrand
  <2> QED
    BY <2>1 DEF Hosted, Chain, Within, SpanBelow, Inherits, Depth, FailsOwn, Closing
<1>2. TInv /\ TInv' /\ OwnContext /\ Exclusive /\ Nested /\ Underway /\ [Next]_vars
        => Nested' /\ Underway'
  <2> SUFFICES ASSUME Before, [Next]_vars
               PROVE  Nested' /\ Underway'
    BY DEF Before
  <2>1. ASSUME NEW k \in Strands, StrandNext(k)
        PROVE  Nested' /\ Underway'
    BY <2>1, NestedStep
  <2>2. ASSUME UNCHANGED <<made, trace, span, curTrace, curSpan, strand>>
        PROVE  Nested' /\ Underway'
    <3>1. Nested'
      BY <2>2, NestedKept
    <3>2. Underway'
      BY <2>2 DEF Before, Underway, FailsOwn, HasSpan, Closing, ClosesAlone, Depth
    <3> QED
      BY <3>1, <3>2
  <2> QED
    BY <2>1, <2>2 DEF Next, Arrive, vars
<1>3. "migrate" \notin Usage
  BY DEF Joined, Disjoined
<1> QED
  BY <1>1, <1>2, <1>3, TypesHold, OwnContextHolds, ExclusiveHolds, PTL DEF Spec

\* For a host of this kind, whatever is raised and caught, a strand's current span is its
\* innermost open one, or the one it was started under.
THEOREM CurrentSpanIsInnermost ==
    ASSUME Joined
    PROVE  Spec => []ContextFollowsBlocks
<1>1. TInv /\ Nested => ContextFollowsBlocks
  <2> SUFFICES ASSUME TInv, Nested, NEW k \in Strands
               PROVE  LET stack == strand[k].stack
                          open  == {i \in 1..Depth(k) : stack[i].kind = "span"}
                      IN  IF open = {} THEN curSpan[k] = strand[k].base
                          ELSE \E i \in open : curSpan[k] = stack[i].id /\ \A j \in open : i <= j
    BY DEF ContextFollowsBlocks
  <2>1. Chain(k) /\ Depth(k) \in Nat
        /\ \A i \in 1..Depth(k) : strand[k].stack[i].kind \in {"trace", "span"}
    BY StrandTypes, BlockTypes DEF Nested, TInv
  <2>2. CASE 0 < Depth(k) /\ strand[k].stack[1].kind = "span"
    <3>1. 1 \in 1..Depth(k) /\ curSpan[k] = strand[k].stack[1].id
      BY <2>1, <2>2 DEF Chain, SpanBelow
    <3> QED
      BY <2>2, <3>1
  <2>3. CASE ~(0 < Depth(k) /\ strand[k].stack[1].kind = "span")
    <3>1. curSpan[k] = strand[k].base
      BY <2>1, <2>3 DEF Chain, SpanBelow
    <3>2. \A i \in 1..Depth(k) : strand[k].stack[i].kind # "span"
      BY <2>1, <2>3 DEF Chain
    <3> QED
      BY <3>1, <3>2
  <2> QED
    BY <2>2, <2>3
<1> QED
  BY <1>1, TypesHold, NestedHolds, PTL

-----------------------------------------------------------------------------
(* What is exported *)

\* Every span is open or in the list of its trace, which has only its own; a parent is of
\* the same trace; a trace to be exported has the status it is exported with.
Placed == \A s \in Spans : span[s] # None => s \in Listed(span[s].trace) \/ IsOpen("span", s)

Rooted == \A s \in Spans : span[s] # None /\ span[s].parent # None =>
    span[span[s].parent] # None /\ span[span[s].parent].trace = span[s].trace

Owned == \A t \in Traces : trace[t] # None => \A s \in Listed(t) : span[s].trace = t

Outgoing == \A k \in Strands : strand[k].out # None =>
    strand[k].out.status # "UNSET" /\ strand[k].out.status = trace[strand[k].out.trace].status

\* A document has the whole trace and nothing else, and its statuses agree.
GoodDoc(t, d) ==
    /\ d.status # "UNSET"
    /\ \A x \in d.spans : x.trace = t
    /\ \A x \in d.spans : x.status # "UNSET" /\ (x.status = "ERROR" => d.status = "ERROR")
    /\ \A x \in d.spans : x.parent # None => \E y \in d.spans : y.span = x.parent
    /\ \A s \in Spans : span[s] # None /\ span[s].trace = t => \E x \in d.spans : x.span = s

Documented == \A t \in Traces : \A d \in Document :
    d \in {posted[t], stored[t]} => GoodDoc(t, d)

Whole == Placed /\ Rooted /\ Owned /\ ErrorReachesTrace /\ Outgoing /\ Documented

WBefore == Before /\ ListsApart /\ ListsApart' /\ Whole

\* A span that is open is of a trace that is open, and so not yet sent.
LEMMA OpenSpanIsWithin ==
    ASSUME Before, NEW s \in Spans, IsOpen("span", s)
    PROVE  /\ span[s] # None /\ span[s].trace = made[span[s].via]
           /\ span[s].trace \in Traces \ Sent /\ trace[span[s].trace] # None
<1>1. PICK k \in Strands : \E i \in 1..Depth(k) :
         strand[k].stack[i].kind = "span" /\ strand[k].stack[i].id = s
  BY DEF IsOpen
<1>2. PICK i \in 1..Depth(k) : strand[k].stack[i].kind = "span" /\ strand[k].stack[i].id = s
  BY <1>1
<1>3. Hosted(k) /\ Chain(k) /\ Within(k) /\ TInv
  BY RunsInOwn DEF Before
<1>4. strand[k].at = "live"
  BY <1>2, <1>3 DEF Hosted, Depth
<1>5. curTrace[k] # None /\ span[s].via = curTrace[k] /\ span[s].trace = made[curTrace[k]]
  BY <1>2, <1>3 DEF Within
<1>6. curTrace[k] \in Contexts /\ IsOpen("trace", curTrace[k])
  BY <1>3, <1>4, <1>5, CurrentIsOpen
<1>7. span[s] # None
  BY <1>3, OpenIsMade
<1>8. made[curTrace[k]] \in Traces \ Sent /\ trace[made[curTrace[k]]] # None
  BY <1>3, <1>6, OpenIsMade DEF Before, Exclusive
<1> QED
  BY <1>5, <1>7, <1>8

\* Documents stay good while no span is added to a trace that was sent.
LEMMA DocumentsKept ==
    ASSUME Documented, TypeOK,
           \A t \in Traces : posted'[t] = posted[t] /\ stored'[t] = stored[t],
           \A s \in Spans : span'[s] # None =>
              \/ span[s] # None /\ span'[s].trace = span[s].trace
              \/ span'[s].trace \notin Sent
    PROVE  Documented'
<1> SUFFICES ASSUME NEW t \in Traces, NEW d \in Document, d \in {posted[t], stored[t]}
             PROVE  GoodDoc(t, d)'
  BY DEF Documented
<1>1. GoodDoc(t, d) /\ t \in Sent
  BY NoneAssumption DEF Documented, Sent
<1> QED
  BY <1>1 DEF GoodDoc

\* A step of the host or of the exporter's server that leaves traces and spans alone.
LEMMA WholeIdle ==
    ASSUME WBefore, UNCHANGED <<trace, span, posted, stored>>,
           \A j \in Strands : strand'[j].stack = strand[j].stack,
           \A j \in Strands : strand'[j].failing = strand[j].failing,
           \A j \in Strands : strand'[j].out = strand[j].out \/ strand'[j].out = None
    PROVE  Whole'
<1>1. \A s : IsOpen("span", s)' <=> IsOpen("span", s)
  BY StacksSame
<1>2. \A t : Listed(t)' = Listed(t)
  BY DEF Listed
<1>3. Placed'
  BY <1>1, <1>2 DEF WBefore, Whole, Placed, Listed
<1>4. Rooted' /\ Owned' /\ ErrorReachesTrace'
  BY <1>2 DEF WBefore, Whole, Rooted, Owned, ErrorReachesTrace
<1>5. Outgoing'
  BY DEF WBefore, Whole, Outgoing
<1>6. Documented'
  BY DocumentsKept DEF WBefore, Before, TInv, Whole
<1> QED
  BY <1>3, <1>4, <1>5, <1>6 DEF Whole

LEMMA WholeStart ==
    ASSUME WBefore, NEW k \in Strands, NEW j \in Strands, NEW kind \in Kinds, Start(k, j, kind)
    PROVE  Whole'
<1>1. strand[j].stack = << >> /\ strand[j].failing = None
  <2>1. Hosted(j) /\ FailsOwn(j) /\ strand[j].at = "new"
    BY RunsInOwn DEF WBefore, Before, Underway, Start
  <2> QED
    BY <2>1 DEF Hosted, FailsOwn, HasSpan, Depth
<1>2. /\ \A g \in Strands \ {j} : strand'[g] = strand[g]
      /\ strand'[j].stack = << >> /\ strand'[j].out = None /\ strand'[j].failing = None
      /\ UNCHANGED <<trace, span, posted, stored>>
  BY StartEffects DEF WBefore, Before
<1> QED
  BY <1>1, <1>2, WholeIdle

LEMMA WholeHost ==
    ASSUME WBefore, NEW k \in Strands, HostStep(k)
    PROVE  Whole'
BY HostEffects, WholeIdle DEF WBefore, Before, Keeps

LEMMA WholeEnterTrace ==
    ASSUME WBefore, NEW k \in Strands, NEW h \in Contexts, NEW t \in Traces, EnterTrace(k, h, t)
    PROVE  Whole'
<1> DEFINE b == TraceBlockOf(k, h)
<1>0. TInv /\ TypeOK
  BY DEF WBefore, Before, TInv
<1>1. AfterPush(k, b) /\ b.kind = "trace"
  BY <1>0, EnterTraceEffects DEF TraceBlockOf
<1> HIDE DEF b
<1>2. /\ trace[t] = None /\ UNCHANGED <<span, posted, stored>>
      /\ \A x \in Traces \ {t} : trace'[x] = trace[x]
      /\ trace'[t].spans = << >>
  BY <1>0 DEF EnterTrace, TypeOK
<1>3. \A s : IsOpen("span", s)' <=> IsOpen("span", s)
  BY <1>0, <1>1, OpenAfterPush
<1>4. Listed(t)' = {} /\ \A x \in Traces \ {t} : Listed(x)' = Listed(x)
  BY <1>2 DEF Listed
<1>5. \A s \in Spans : span[s] # None => span[s].trace \in Traces \ {t}
  BY <1>0, <1>2 DEF TInv, Known, TypeOK, SpanRec
<1>6. Placed'
  <2>1. \A s \in Spans : span[s] # None => Listed(span[s].trace)' = Listed(span[s].trace)
    BY <1>2, <1>5 DEF Listed
  <2> QED
    BY <1>2, <1>3, <2>1 DEF WBefore, Whole, Placed
<1>7. Rooted' /\ Owned' /\ ErrorReachesTrace'
  <2>1. \A j \in Strands : strand'[j].failing = strand[j].failing
    BY <1>1 DEF AfterPush, Calls
  <2> QED
    BY <1>2, <1>4, <1>5, <2>1 DEF WBefore, Whole, Rooted, Owned, ErrorReachesTrace
<1>8. Outgoing'
  <2>1. \A j \in Strands : strand'[j].out = strand[j].out
    BY <1>1 DEF AfterPush, Calls
  <2>2. \A j \in Strands : strand[j].out # None => strand[j].out.trace \in Traces \ {t}
    BY <1>0, <1>2, StrandTypes DEF TInv, Known, Strand, Out
  <2> QED
    BY <1>2, <2>1, <2>2 DEF WBefore, Whole, Outgoing
<1>9. Documented'
  BY <1>0, <1>2, DocumentsKept DEF WBefore, Whole
<1> QED
  BY <1>6, <1>7, <1>8, <1>9 DEF Whole

LEMMA WholeEnterSpan ==
    ASSUME Joined, WBefore, NEW k \in Strands, NEW h \in Contexts, NEW s \in Spans,
           EnterSpan(k, h, s)
    PROVE  Whole'
<1> DEFINE b == SpanBlockOf(k, s)
<1>0. /\ Before /\ TInv /\ TypeOK /\ strand[k].ctx = k
      /\ Hosted(k) /\ Chain(k) /\ Within(k) /\ strand[k].at = "live"
  BY RunsInOwn DEF WBefore, Before, TInv, EnterSpan, OpenSpan, Running, Live
<1>1. AfterPush(k, b) /\ b.kind = "span" /\ b.id = s
  BY <1>0, OpenSpanEffects DEF EnterSpan
<1> HIDE DEF b
<1>2. /\ span[s] = None /\ curTrace[k] = h /\ UNCHANGED <<trace, posted, stored>>
      /\ \A x \in Spans \ {s} : span'[x] = span[x]
      /\ span'[s].trace = made[h] /\ span'[s].parent = curSpan[k] /\ span'[s].status = "UNSET"
      /\ span'[s] # None
  <2>1. MakeSpan(k, h, s) /\ UNCHANGED <<trace, posted, stored>>
    BY DEF EnterSpan
  <2>2. SpanMade(h, s) /\ span'[s].parent = curSpan[k]
    BY <1>0, <2>1, MakeSpanEffects DEF ParentIn
  <2>3. curTrace[k] = h
    BY <1>0, <2>1 DEF MakeSpan, Joined, Disjoined
  <2> QED
    BY <2>1, <2>2, <2>3 DEF SpanMade
<1>3. h \in Contexts /\ IsOpen("trace", h)
  BY <1>0, <1>2, NamesAssumption, CurrentIsOpen
<1>4. made[h] \in Traces \ Sent
  BY <1>0, <1>3, OpenIsMade DEF Before, Exclusive
<1>5. \A x : IsOpen("span", x)' <=> IsOpen("span", x) \/ x = s
  BY <1>0, <1>1, OpenAfterPush
<1>6. \A x \in Traces : /\ Listed(x)' = Listed(x)
                        /\ trace[x] # None => s \notin Listed(x)
  BY <1>0, <1>2, ListedIsMade DEF Listed
<1>7. Placed'
  <2>1. \A x \in Spans \ {s} : span'[x] # None => Listed(span[x].trace)' = Listed(span[x].trace)
    BY <1>2 DEF Listed
  <2> QED
    BY <1>2, <1>5, <2>1 DEF WBefore, Whole, Placed
<1>8. Rooted'
  <2>1. curSpan[k] # None => /\ curSpan[k] \in Spans \ {s} /\ span[curSpan[k]] # None
                             /\ span[curSpan[k]].trace = made[h]
    BY <1>0, <1>2, CurrentSpanIsWithin
  <2>2. \A x \in Spans : span[x] # None => span[x].parent \in Spans \cup {None}
    BY <1>0 DEF TypeOK, SpanRec
  <2> QED
    BY <1>2, <2>1, <2>2 DEF WBefore, Whole, Rooted
<1>9. Owned'
  BY <1>0, <1>2, <1>6, ListedIsMade DEF WBefore, Whole, Owned
<1>10. ErrorReachesTrace' /\ Outgoing'
  <2>1. \A j \in Strands : strand'[j].failing = strand[j].failing /\ strand'[j].out = strand[j].out
    BY <1>1 DEF AfterPush, Calls
  <2> QED
    BY <1>2, <2>1 DEF WBefore, Whole, ErrorReachesTrace, Outgoing
<1>11. Documented'
  <2>1. \A x \in Spans : span'[x] # None =>
           \/ span[x] # None /\ span'[x].trace = span[x].trace
           \/ span'[x].trace \notin Sent
    BY <1>2, <1>4
  <2> QED
    BY <1>0, <1>2, <2>1, DocumentsKept DEF WBefore, Whole
<1> QED
  BY <1>7, <1>8, <1>9, <1>10, <1>11 DEF Whole
LEMMA PlacedNext ==
    ASSUME \A x \in Spans : span'[x] # None => span'[x].trace \in Traces,
           \A x \in Spans, u \in Traces : span'[x] # None /\ span'[x].trace = u =>
              x \in Listed(u)' \/ IsOpen("span", x)'
    PROVE  Placed'
BY DEF Placed, Listed

\* A trace that was sent changes no more.
LEMMA SentStays ==
    ASSUME Before, NEW k \in Strands, Restating(k), NEW t \in Sent
    PROVE  trace'[t] = trace[t]
<1>0. TInv /\ Exclusive /\ t \in Traces
  BY DEF Before, Sent
<1>1. CASE (\E s \in Spans : RecordError(k, s)) \/ ExitSpan(k) \/ SettleSpan(k)
  BY <1>1 DEF RecordError, ExitSpan, SettleSpan
<1>2. CASE FailTrace(k)
  <2> DEFINE s == strand[k].failing
  <2>1. s \in Spans /\ IsOpen("span", s) /\ span[s].trace = made[span[s].via]
    BY <1>2, FailsCurrent
  <2>2. made[span[s].via] # t
    BY <2>1, OpenSpanIsWithin
  <2> QED
    BY <1>0, <1>2, <2>2, FailTraceEffects DEF TraceSet
<1>3. CASE ExitTrace(k) \/ SettleTrace(k)
  <2> DEFINE h == strand[k].stack[1].id
  <2>1. h \in Contexts /\ IsOpen("trace", h)
    BY <1>0, <1>3, HeadTypes DEF ExitTrace, SettleTrace, IsOpen
  <2>2. made[h] # t
    BY <1>0, <2>1 DEF Exclusive
  <2>3. trace' = trace \/ \E status : TraceSet(made[h], status)
    BY <1>0, <1>3, ExitTraceEffects, SettleTraceEffects
  <2> QED
    BY <1>0, <2>2, <2>3 DEF TraceSet
<1> QED
  BY <1>1, <1>2, <1>3 DEF Restating

\* A failure is passed on, and OK is set for a trace without one.
LEMMA ErrorsRestated ==
    ASSUME Before, ErrorReachesTrace, NEW k \in Strands, Restating(k)
    PROVE  ErrorReachesTrace'
<1>0. TInv /\ TInv' /\ \A s \in Spans : span[s] # None => span[s].trace \in Traces
  BY DEF Before, TInv, TypeOK, SpanRec
<1>1. CASE \E s \in Spans : RecordError(k, s)
  <2>1. PICK s \in Spans : RecordError(k, s)
    BY <1>1
  <2>2. /\ SpanSet(s, "ERROR") /\ GoesOn(k, "host", s) /\ UNCHANGED trace
        /\ strand[k].failing = None
    BY <1>0, <2>1, RecordErrorEffects DEF RecordError, Running, Live, Idle
  <2>3. \A x \in Spans \ {s} : span'[x] = span[x]
    BY <2>2 DEF SpanSet
  <2>4. strand'[k].failing = s /\ \A j \in Strands \ {k} : strand'[j] = strand[j]
    BY <2>2 DEF GoesOn
  <2> QED
    BY <2>2, <2>3, <2>4, NoneIsNoTrace DEF ErrorReachesTrace
<1>2. CASE ExitSpan(k)
  <2> DEFINE s == strand[k].stack[1].id
  <2>1. /\ strand[k].failing = None /\ UNCHANGED trace
        /\ \/ SpanSet(s, "ERROR") /\ GoesOn(k, "leave", s)
           \/ span' = span /\ \E step : GoesOn(k, step, strand[k].failing)
    BY <1>0, <1>2, ExitSpanEffects DEF ExitSpan, Live, Idle
  <2>2. CASE SpanSet(s, "ERROR") /\ GoesOn(k, "leave", s)
    <3>1. \A x \in Spans \ {s} : span'[x] = span[x]
      BY <2>2 DEF SpanSet
    <3>2. strand'[k].failing = s /\ \A j \in Strands \ {k} : strand'[j] = strand[j]
      BY <2>2 DEF GoesOn
    <3> QED
      BY <2>1, <3>1, <3>2, NoneIsNoTrace DEF ErrorReachesTrace
  <2>3. CASE span' = span /\ \E step : GoesOn(k, step, strand[k].failing)
    <3>1. \A j \in Strands : strand'[j].failing = strand[j].failing
      BY <2>3 DEF GoesOn
    <3> QED
      BY <2>1, <2>3, <3>1 DEF ErrorReachesTrace
  <2> QED
    BY <2>1, <2>2, <2>3
<1>3. CASE FailTrace(k)
  <2> DEFINE s == strand[k].failing
             t == made[span[s].via]
  <2>1. t = span[s].trace
    BY <1>3, FailsCurrent
  <2>2. UNCHANGED span /\ TraceSet(t, "ERROR") /\ s \in Spans
    BY <1>0, <1>3, FailTraceEffects
  <2>3. \A j \in Strands \ {k} : strand'[j] = strand[j]
    BY <1>0, <1>3, FailTraceEffects DEF GoesOn
  <2>4. trace'[t].status = "ERROR" /\ \A x \in Traces \ {t} : trace'[x] = trace[x]
    BY <2>2 DEF TraceSet
  <2>5. ASSUME NEW x \in Spans, span[x] # None, span[x].status = "ERROR"
        PROVE  \/ trace'[span[x].trace].status = "ERROR"
               \/ \E j \in Strands : strand'[j].failing = x
    <3>1. CASE trace[span[x].trace].status = "ERROR" \/ span[x].trace = t
      BY <1>0, <2>4, <2>5, <3>1
    <3>2. CASE \E j \in Strands : strand[j].failing = x
      <4>1. PICK j \in Strands : strand[j].failing = x
        BY <3>2
      <4>2. CASE j = k
        BY <2>1, <2>4, <4>1, <4>2
      <4>3. CASE j # k
        BY <2>3, <4>1, <4>3
      <4> QED
        BY <4>2, <4>3
    <3> QED
      BY <2>5, <3>1, <3>2 DEF ErrorReachesTrace
  <2> QED
    BY <2>2, <2>5 DEF ErrorReachesTrace
<1>4. CASE SettleSpan(k)
  <2> DEFINE s == strand[k].stack[1].id
  <2>1. SpanSet(s, "OK") /\ UNCHANGED trace /\ GoesOn(k, "leave", strand[k].failing)
    BY <1>0, <1>4, SettleSpanEffects
  <2>2. \A j \in Strands : strand'[j].failing = strand[j].failing
    BY <2>1 DEF GoesOn
  <2>3. span'[s].status = "OK" /\ \A x \in Spans \ {s} : span'[x] = span[x]
    BY <2>1 DEF SpanSet
  <2> QED
    BY <2>1, <2>2, <2>3 DEF ErrorReachesTrace
<1>5. CASE ExitTrace(k) \/ SettleTrace(k)
  <2> DEFINE t == made[strand[k].stack[1].id]
  <2>1. UNCHANGED span /\ \E step : GoesOn(k, step, strand[k].failing)
    BY <1>0, <1>5, ExitTraceEffects, SettleTraceEffects
  <2>2. \A j \in Strands : strand'[j].failing = strand[j].failing
    BY <2>1 DEF GoesOn
  <2>3. trace' = trace \/ TraceSet(t, "ERROR") \/ (TraceSet(t, "OK") /\ SettleTrace(k))
    BY <1>0, <1>5, ExitTraceEffects, SettleTraceEffects
  <2>4. CASE trace' = trace \/ TraceSet(t, "ERROR")
    BY <1>0, <2>1, <2>2, <2>4 DEF ErrorReachesTrace, TraceSet
  <2>5. CASE TraceSet(t, "OK") /\ SettleTrace(k)
    <3>1. strand[k].step = "settle" /\ Closing(k)
      BY <1>0, <2>5, HeadTypes DEF SettleTrace, Closing
    <3>2. trace[t].status = "UNSET"
      BY <3>1 DEF Before, Underway, ClosesAlone
    <3> QED
      BY <1>0, <2>1, <2>2, <2>5, <3>2 DEF ErrorReachesTrace, TraceSet
  <2> QED
    BY <2>3, <2>4, <2>5
<1> QED
  BY <1>1, <1>2, <1>3, <1>4, <1>5 DEF Restating

\* Steps that set statuses.
LEMMA WholeRestating ==
    ASSUME WBefore, NEW k \in Strands, Restating(k)
    PROVE  Whole'
<1>0. Before /\ TInv /\ TypeOK /\ Restated(k) /\ UNCHANGED <<posted, stored>>
  BY RestatingEffects DEF WBefore, Before, TInv, Restated
<1>1. \A j \in Strands : strand'[j].stack = strand[j].stack /\ strand'[j].out = strand[j].out
  BY <1>0 DEF Restated
<1>2. \A s : IsOpen("span", s)' <=> IsOpen("span", s)
  BY <1>1, StacksSame
<1>3. \A s \in Spans : /\ span'[s] = None <=> span[s] = None
                       /\ span[s] # None => span'[s].trace = span[s].trace
                       /\ span[s] # None => span'[s].parent = span[s].parent
  BY <1>0 DEF Restated
<1>4. \A t \in Traces : /\ trace'[t] = None <=> trace[t] = None
                        /\ trace[t] # None => Listed(t)' = Listed(t)
  BY <1>0 DEF Restated, Listed
<1>5. \A s \in Spans : span[s] # None =>
         span[s].trace \in Traces /\ trace[span[s].trace] # None /\ span[s].parent \in Spans \cup {None}
  BY <1>0 DEF TypeOK, SpanRec, TInv, Known
<1>6. Placed'
  <2>1. \A s \in Spans : span'[s] # None => span'[s].trace \in Traces
    BY <1>3, <1>5
  <2>2. \A s \in Spans, u \in Traces : span'[s] # None /\ span'[s].trace = u =>
           s \in Listed(u)' \/ IsOpen("span", s)'
    BY <1>2, <1>3, <1>4, <1>5 DEF WBefore, Whole, Placed
  <2> QED
    BY <2>1, <2>2, PlacedNext
<1>7. Rooted'
  BY <1>3, <1>5 DEF WBefore, Whole, Rooted
<1>8. Owned'
  BY <1>0, <1>3, <1>4, ListedIsMade DEF WBefore, Whole, Owned
<1>9. ErrorReachesTrace'
  BY <1>0, ErrorsRestated DEF WBefore, Whole
<1>10. Outgoing'
  <2>1. \A j \in Strands : strand[j].out # None => strand[j].out.trace \in Sent
    BY <1>0, StrandTypes DEF Sent, Strand, Out
  <2>2. \A j \in Strands : strand[j].out # None =>
           trace'[strand[j].out.trace] = trace[strand[j].out.trace]
    BY <1>0, <2>1, SentStays
  <2> QED
    BY <1>1, <2>2 DEF WBefore, Whole, Outgoing
<1>11. Documented'
  BY <1>0, <1>3, DocumentsKept DEF WBefore, Whole
<1> QED
  BY <1>6, <1>7, <1>8, <1>9, <1>10, <1>11 DEF Whole

\* The span is listed where it was open.
LEMMA WholeLeaveSpan ==
    ASSUME WBefore, NEW k \in Strands, LeaveSpan(k)
    PROVE  Whole'
<1>0. Before /\ TInv /\ TypeOK
  BY DEF WBefore, Before, TInv
<1>1. PICK s \in Spans, t \in Traces, resets \in BOOLEAN :
         SpanLeft(k, s, t, resets) /\ resets = TRUE
  <2> DEFINE b == strand[k].stack[1]
             own == b.ctx = strand[k].ctx
  <2>1. SpanLeft(k, b.id, made[span[b.id].via], own)
    BY <1>0, LeaveSpanEffects
  <2>2. b.id \in Spans /\ made[span[b.id].via] \in Traces
    BY <2>1 DEF SpanLeft
  <2>3. 1 \in 1..Depth(k)
    <3>1. PICK raising : AfterPop(k, raising, strand[k].out)
      BY <2>1 DEF SpanLeft
    <3>2. Depth(k) \in Nat \ {0}
      BY <3>1 DEF AfterPop
    <3> QED
      BY <3>2
  <2>4. own = TRUE
    BY <1>0, <2>3, RunsInOwn
  <2> QED
    BY <2>1, <2>2, <2>4
<1>2. PICK raising : AfterPop(k, raising, strand[k].out)
  BY <1>1 DEF SpanLeft
<1>3. /\ strand[k].stack[1].kind = "span" /\ strand[k].stack[1].id = s /\ t = made[span[s].via]
      /\ UNCHANGED <<span, posted, stored>>
      /\ \A x \in Traces : trace'[x].status = trace[x].status /\ (trace'[x] # None => trace[x] # None)
  BY <1>1 DEF SpanLeft
<1>4. IsOpen("span", s)
  <2>1. 1 \in 1..Depth(k)
    BY <1>2 DEF AfterPop
  <2> QED
    BY <1>3, <2>1 DEF IsOpen
<1>5. t = span[s].trace
  BY <1>0, <1>3, <1>4, OpenSpanIsWithin
<1>6. \A x : IsOpen("span", x) /\ x # s => IsOpen("span", x)'
  BY <1>0, <1>2, <1>3, OpenAfterPop
<1>7. /\ \A x \in Traces \ {t} : Listed(x)' = Listed(x)
      /\ Listed(t)' = Listed(t) \cup {s}
  <2>1. SpanLeft(k, s, t, resets)
    BY <1>1
  <2>2. /\ \A x \in Traces \ {t} : Listed(x)' = Listed(x)
        /\ Listed(t)' = IF resets THEN Listed(t) \cup {s} ELSE Listed(t)
    BY <1>0, <2>1, ListedAfterLeave
  <2> QED
    BY <1>1, <2>2
<1>8. \A x \in Spans : span[x] # None => span[x].trace \in Traces
  BY <1>0 DEF TypeOK, SpanRec
<1>9. Placed'
  <2>1. \A x \in Spans : span'[x] # None => span'[x].trace \in Traces
    BY <1>3, <1>8
  <2>2. \A x \in Spans, u \in Traces : span'[x] # None /\ span'[x].trace = u =>
           x \in Listed(u)' \/ IsOpen("span", x)'
    <3> SUFFICES ASSUME NEW x \in Spans, NEW u \in Traces, span[x] # None, span[x].trace = u
                 PROVE  x \in Listed(u)' \/ IsOpen("span", x)'
      BY <1>3
    <3>1. x \in Listed(u) \/ IsOpen("span", x)
      BY DEF WBefore, Whole, Placed
    <3> QED
      BY <1>5, <1>6, <1>7, <3>1
  <2> QED
    BY <2>1, <2>2, PlacedNext
<1>10. Rooted'
  BY <1>3 DEF WBefore, Whole, Rooted
<1>11. Owned'
  BY <1>3, <1>5, <1>7 DEF WBefore, Whole, Owned
<1>12. \A j \in Strands : strand'[j].failing = strand[j].failing /\ strand'[j].out = strand[j].out
  BY <1>2 DEF AfterPop
<1>13. ErrorReachesTrace'
  BY <1>3, <1>8, <1>12 DEF WBefore, Whole, ErrorReachesTrace
<1>14. Outgoing'
  <2>1. \A j \in Strands : strand[j].out # None => strand[j].out.trace \in Traces
    BY <1>0, StrandTypes DEF Strand, Out
  <2> QED
    BY <1>3, <1>12, <2>1 DEF WBefore, Whole, Outgoing
<1>15. Documented'
  BY <1>0, <1>3, DocumentsKept DEF WBefore, Whole
<1> QED
  BY <1>9, <1>10, <1>11, <1>13, <1>14, <1>15 DEF Whole

\* The trace is given to the exporter with the status it has.
LEMMA WholeLeaveTrace ==
    ASSUME WBefore, NEW k \in Strands, LeaveTrace(k)
    PROVE  Whole'
<1>0. Before /\ TInv /\ TypeOK
  BY DEF WBefore, Before, TInv
<1>1. PICK h \in Contexts, t \in Traces, resets \in BOOLEAN : TraceLeft(k, h, t, resets)
  BY <1>0, LeaveTraceSomehow
<1> DEFINE out == IF resets THEN [trace |-> t, status |-> trace[t].status] ELSE None
<1>2. PICK raising : AfterPop(k, raising, out)
  BY <1>1 DEF TraceLeft
<1>3. out # None => out.trace = t /\ out.status = trace[t].status
  OBVIOUS
<1> HIDE DEF out
<1>4. /\ UNCHANGED <<trace, span, posted, stored>>
      /\ strand[k].stack[1].kind = "trace" /\ strand[k].stack[1].id = h /\ t = made[h]
      /\ Closing(k) /\ strand[k].step = "leave"
  BY <1>1 DEF TraceLeft, Closing
<1>5. trace[t].status # "UNSET"
  BY <1>0, <1>4 DEF Before, Underway, ClosesAlone
<1>6. \A x : IsOpen("span", x) => IsOpen("span", x)'
  BY <1>0, <1>2, <1>4, OpenAfterPop
<1>7. \A j \in Strands : /\ strand'[j].failing = strand[j].failing
                         /\ strand'[j].out = IF j = k THEN out ELSE strand[j].out
  BY <1>2 DEF AfterPop
<1>8. Placed' /\ Rooted' /\ Owned'
  BY <1>4, <1>6 DEF WBefore, Whole, Placed, Rooted, Owned, Listed
<1>9. ErrorReachesTrace' /\ Outgoing'
  BY <1>3, <1>4, <1>5, <1>7 DEF WBefore, Whole, ErrorReachesTrace, Outgoing
<1>10. Documented'
  BY <1>0, <1>4, DocumentsKept DEF WBefore, Whole
<1> QED
  BY <1>8, <1>9, <1>10 DEF Whole

\* The document of a trace that is exported is good.
LEMMA ExportIsGood ==
    ASSUME WBefore, NEW k \in Strands, strand[k].out # None
    PROVE  LET t == strand[k].out.trace
               d == [status |-> strand[k].out.status, spans |-> Written(trace[t].spans)]
           IN  /\ t \in Traces /\ strand[k].out.status = trace[t].status
               /\ GoodDoc(t, d) /\ d \in Document /\ stored[t] = None
<1> DEFINE t == strand[k].out.trace
           list == trace[t].spans
           d == [status |-> strand[k].out.status, spans |-> Written(list)]
<1>0. Before /\ TInv /\ TypeOK
  BY DEF WBefore, Before, TInv
<1>1. /\ t \in Traces /\ trace[t] # None
      /\ strand[k].out.status = trace[t].status /\ strand[k].out.status # "UNSET"
  BY <1>0, StrandTypes DEF TInv, Known, Strand, Out, WBefore, Whole, Outgoing
<1>2. t \in Sent
  BY <1>1 DEF Sent
<1>3. \A s \in Spans : span[s] # None /\ span[s].trace = t => s \in Listed(t)
  BY <1>0, <1>2, OpenSpanIsWithin DEF WBefore, Whole, Placed
<1> HIDE DEF t
<1>4. \A s \in Listed(t) : /\ s \in Spans /\ span[s] # None /\ span[s].trace = t
                           /\ span[s].status # "UNSET"
                           /\ span[s].status = "ERROR" => trace[t].status = "ERROR"
  <2> SUFFICES ASSUME NEW s \in Listed(t)
               PROVE  /\ s \in Spans /\ span[s] # None /\ span[s].trace = t
                      /\ span[s].status # "UNSET"
                      /\ span[s].status = "ERROR" => trace[t].status = "ERROR"
    OBVIOUS
  <2>1. s \in Spans /\ span[s] # None /\ span[s].trace = t /\ span[s].status # "UNSET"
    BY <1>0, <1>1, ListedIsMade DEF WBefore, Whole, Owned, ListsApart
  <2>2. ~IsOpen("span", s)
    BY <1>1, <2>1 DEF WBefore, ListsApart
  <2>3. ASSUME NEW j \in Strands, strand[j].failing = s
        PROVE  FALSE
    <3>1. HasSpan(j, s)
      BY <1>0, <2>1, <2>3, NoneIsNoTrace DEF Before, Underway, FailsOwn
    <3> QED
      BY <2>2, <3>1 DEF HasSpan, IsOpen
  <2> QED
    BY <2>1, <2>3 DEF WBefore, Whole, ErrorReachesTrace
<1>5. d.spans = {Shown(s) : s \in Listed(t)}
  BY DEF Written, Listed
<1>6. \A s : /\ Shown(s).span = s /\ Shown(s).parent = span[s].parent
             /\ Shown(s).status = span[s].status /\ Shown(s).trace = span[s].trace
  BY DEF Shown
<1>7. d.status = strand[k].out.status
  OBVIOUS
<1> HIDE DEF d
<1>8. \A x \in d.spans : /\ x.trace = t /\ x.status # "UNSET"
                         /\ x.status = "ERROR" => d.status = "ERROR"
  BY <1>1, <1>4, <1>5, <1>6, <1>7
<1>9. \A s \in Spans : span[s] # None /\ span[s].trace = t => \E x \in d.spans : x.span = s
  BY <1>3, <1>5, <1>6
<1>10. \A x \in d.spans : x.parent # None => \E y \in d.spans : y.span = x.parent
  <2> SUFFICES ASSUME NEW s \in Listed(t), span[s].parent # None
               PROVE  \E y \in d.spans : y.span = span[s].parent
    BY <1>5, <1>6
  <2>1. s \in Spans /\ span[s] # None /\ span[s].trace = t
    BY <1>4
  <2>2. span[s].parent \in Spans
    BY <1>0, <2>1 DEF TypeOK, SpanRec
  <2>3. span[span[s].parent] # None /\ span[span[s].parent].trace = t
    BY <2>1 DEF WBefore, Whole, Rooted
  <2> QED
    BY <1>9, <2>2, <2>3
<1>11. GoodDoc(t, d)
  BY <1>1, <1>7, <1>8, <1>9, <1>10 DEF GoodDoc
<1>12. d \in Document /\ stored[t] = None
  BY <1>0, ExportedDocument DEF Before, Exclusive, t, d
<1> QED
  BY <1>1, <1>11, <1>12 DEF t, d

\* A document that is of one trace is saved as its row, and under no other.
LEMMA SavedAlone ==
    ASSUME TypeOK, NEW t \in Traces, NEW d \in Document, \A x \in d.spans : x.trace = t,
           stored[t] = None
    PROVE  \A u \in Traces : Saved(t, d)[u] = IF u = t THEN d ELSE stored[u]
<1> SUFFICES ASSUME NEW u \in Traces
             PROVE  Saved(t, d)[u] = IF u = t THEN d ELSE stored[u]
  OBVIOUS
<1>1. CASE u = t
  <2>1. Saved(t, d)[t] = [status |-> d.status,
                          spans |-> Merged({}, {x \in d.spans : x.trace = t})]
    BY DEF Saved
  <2>2. Merged({}, {x \in d.spans : x.trace = t}) = d.spans
    BY DEF Merged
  <2>3. d = [status |-> d.status, spans |-> d.spans]
    BY DEF Document
  <2> QED
    BY <1>1, <2>1, <2>2, <2>3
<1>2. CASE u # t /\ stored[u] = None
  BY <1>2, SavedDocuments
<1>3. CASE u # t /\ stored[u] # None
  BY <1>3, SavedOwn
<1> QED
  BY <1>1, <1>2, <1>3

LEMMA WholeExport ==
    ASSUME WBefore, NEW k \in Strands, NEW succeeds \in BOOLEAN,
           Export(k, succeeds) \/ Post(k, succeeds)
    PROVE  Whole'
<1> DEFINE t == strand[k].out.trace
           d == [status |-> strand[k].out.status, spans |-> Written(trace[t].spans)]
<1>0. Before /\ TInv /\ TypeOK
  BY DEF WBefore, Before, TInv
<1>1. /\ Exported(k) /\ UNCHANGED <<trace, span>> /\ strand[k].out # None
  BY <1>0, ExportEffects DEF Export, Post
<1>2. /\ t \in Traces /\ strand[k].out.status = trace[t].status
      /\ GoodDoc(t, d) /\ d \in Document /\ stored[t] = None
  BY <1>1, ExportIsGood
<1>3. \/ UNCHANGED <<posted, stored>>
      \/ posted' = posted /\ stored' = Saved(t, d)
      \/ stored' = stored /\ posted' = [posted EXCEPT ![t] = d]
  BY <1>2 DEF Export, Post
<1> HIDE DEF t, d
<1>4. \A x \in Traces : /\ posted'[x] = posted[x] \/ (x = t /\ posted'[x] = d)
                        /\ stored'[x] = stored[x] \/ (x = t /\ stored'[x] = d)
  <2>1. \A x \in Traces : Saved(t, d)[x] = IF x = t THEN d ELSE stored[x]
    BY <1>0, <1>2, SavedAlone DEF GoodDoc
  <2> QED
    BY <1>0, <1>2, <1>3, <2>1 DEF TypeOK
<1>5. \A j \in Strands : /\ strand'[j].stack = strand[j].stack
                         /\ strand'[j].failing = strand[j].failing
                         /\ strand'[j].out = strand[j].out \/ strand'[j].out = None
  BY <1>1 DEF Exported
<1>6. /\ \A s : IsOpen("span", s)' <=> IsOpen("span", s)
      /\ \A x : Listed(x)' = Listed(x)
  BY <1>1, <1>5, StacksSame DEF Listed
<1>7. Placed'
  BY <1>1, <1>6 DEF WBefore, Whole, Placed, Listed
<1>8. Rooted' /\ Owned' /\ ErrorReachesTrace' /\ Outgoing'
  BY <1>1, <1>5, <1>6 DEF WBefore, Whole, Rooted, Owned, ErrorReachesTrace, Outgoing
<1>9. Documented'
  <2> SUFFICES ASSUME NEW x \in Traces, NEW e \in Document, e \in {posted'[x], stored'[x]}
               PROVE  GoodDoc(x, e)'
    BY DEF Documented
  <2>1. GoodDoc(x, e)
    BY <1>2, <1>4 DEF WBefore, Whole, Documented
  <2> QED
    BY <1>1, <2>1 DEF GoodDoc
<1> QED
  BY <1>7, <1>8, <1>9 DEF Whole

LEMMA WholeArrive ==
    ASSUME WBefore, NEW t \in Traces, Arrive(t)
    PROVE  Whole'
<1>0. TypeOK /\ Exclusive /\ Documented
  BY DEF WBefore, Before, TInv, Whole
<1>1. UNCHANGED <<trace, span, strand>>
  BY DEF Arrive
<1>2. Placed' /\ Rooted' /\ Owned' /\ ErrorReachesTrace' /\ Outgoing'
  BY <1>1 DEF WBefore, Whole, Placed, Rooted, Owned, ErrorReachesTrace, Outgoing, Listed, IsOpen, Depth
<1>3. Documented'
  <2> SUFFICES ASSUME NEW x \in Traces, NEW e \in Document, e \in {posted'[x], stored'[x]}
               PROVE  GoodDoc(x, e)'
    BY DEF Documented
  <2>1. posted[t] \in Document /\ GoodDoc(t, posted[t]) /\ stored[t] = None
    BY <1>0 DEF Arrive, TypeOK, Documented, Exclusive
  <2>2. \A u \in Traces : Saved(t, posted[t])[u] = IF u = t THEN posted[t] ELSE stored[u]
    BY <1>0, <2>1, SavedAlone DEF GoodDoc
  <2>3. /\ stored'[x] = stored[x] \/ (x = t /\ stored'[x] = posted[t])
        /\ posted'[x] = posted[x] \/ posted'[x] = None
    BY <1>0, <2>2 DEF Arrive, TypeOK
  <2>4. GoodDoc(x, e)
    BY <1>0, <2>1, <2>3, NoneAssumption DEF Documented
  <2> QED
    BY <1>1, <2>4 DEF GoodDoc
<1> QED
  BY <1>2, <1>3 DEF Whole

LEMMA WholeHolds ==
    ASSUME Joined
    PROVE  Spec => []Whole
<1>1. Init => Whole
  <2> SUFFICES ASSUME Init
               PROVE  Whole
    OBVIOUS
  <2>1. \A k \in Strands : strand[k].out = None
    BY DEF Init, NewStrand
  <2>2. \A t \in Traces : \A d \in Document : d \notin {posted[t], stored[t]}
    BY NoneAssumption DEF Init
  <2> QED
    BY <2>1, <2>2 DEF Init, Whole, Placed, Rooted, Owned, ErrorReachesTrace, Outgoing, Documented
<1>2. TInv /\ TInv' /\ OwnContext /\ Exclusive /\ Nested /\ Underway /\ ListsApart /\ ListsApart'
        /\ Whole /\ [Next]_vars => Whole'
  <2> SUFFICES ASSUME WBefore, [Next]_vars
               PROVE  Whole'
    BY DEF WBefore, Before
  <2>1. ASSUME NEW k \in Strands, StrandNext(k)
        PROVE  Whole'
    BY <2>1, KindsOfJoinedStep, WholeStart, WholeHost, WholeEnterTrace, WholeEnterSpan,
       WholeRestating, WholeLeaveSpan, WholeLeaveTrace, WholeExport
  <2>2. CASE UNCHANGED vars
    BY <2>2, WholeIdle DEF vars
  <2> QED
    BY <2>1, <2>2, WholeArrive DEF Next
<1>3. "kept" \notin Usage
  BY DEF Joined, Disjoined
<1> QED
  BY <1>1, <1>2, <1>3, TypesHold, NestedHolds, ListsHold, PTL DEF Spec

\* For a host of this kind, a stored document has a status and hides no failure.
THEOREM StoredStatusIsHonest ==
    ASSUME Joined
    PROVE  Spec => []StatusIsHonest
<1>1. TInv /\ Whole => StatusIsHonest
  <2>1. TInv => \A t \in Traces : stored[t] # None => stored[t] \in Document
    BY DEF TInv, TypeOK
  <2> QED
    BY <2>1 DEF Whole, Documented, GoodDoc, StatusIsHonest
<1> QED
  BY <1>1, TypesHold, WholeHolds, PTL

\* For a host of this kind, on any number of threads, a failed span has failed its trace
\* once record_error is over, and no exit takes that back.
THEOREM JoinedFailuresReachTraces ==
    ASSUME Joined
    PROVE  Spec => []ErrorReachesTrace
<1>1. Whole => ErrorReachesTrace
  BY DEF Whole
<1> QED
  BY <1>1, WholeHolds, PTL

\* For a host of this kind, no span is missing from the stored document of its trace,
\* neither when it is written nor from then on.
THEOREM StoredTracesAreComplete ==
    ASSUME Joined
    PROVE  Spec => []StoredIsComplete
<1>1. TInv /\ Whole => StoredIsComplete
  <2>1. TInv => \A t \in Traces : stored[t] # None => stored[t] \in Document
    BY DEF TInv, TypeOK
  <2> QED
    BY <2>1 DEF Whole, Documented, GoodDoc, StoredIsComplete
<1> QED
  BY <1>1, TypesHold, WholeHolds, PTL

\* For a host of this kind, the spans of a stored document form a tree of their own.
THEOREM StoredParentsAreThere ==
    ASSUME Joined
    PROVE  Spec => []ParentIsStored
<1>1. TInv /\ Whole => ParentIsStored
  <2>1. TInv => \A t \in Traces : stored[t] # None => stored[t] \in Document
    BY DEF TInv, TypeOK
  <2> QED
    BY <2>1 DEF Whole, Documented, GoodDoc, ParentIsStored
<1> QED
  BY <1>1, TypesHold, WholeHolds, PTL

\* For a host of this kind, on any number of threads and with TraceContexts that are
\* entered again, a span is listed once, by its own trace, and with a status.
THEOREM JoinedSpansListedOnce ==
    ASSUME Joined
    PROVE  Spec => []ListedOnce
<1>1. TInv /\ ListsApart /\ Whole => ListedOnce
  <2> SUFFICES ASSUME TInv, ListsApart, Whole, NEW t \in Traces, trace[t] # None,
                      NEW i \in 1..Len(trace[t].spans), NEW j \in 1..Len(trace[t].spans)
               PROVE  LET s == trace[t].spans[i]
                      IN  /\ span[s] # None /\ span[s].trace = t /\ span[s].status # "UNSET"
                          /\ s = trace[t].spans[j] => i = j
    BY DEF ListedOnce
  <2>1. trace[t].spans[i] \in Listed(t)
    BY DEF Listed
  <2>2. span[trace[t].spans[i]] # None
    BY <2>1, ListedIsMade
  <2>3. span[trace[t].spans[i]].trace = t /\ span[trace[t].spans[i]].status # "UNSET"
    BY <2>1 DEF Whole, Owned, ListsApart
  <2>4. trace[t].spans[i] = trace[t].spans[j] => i = j
    BY DEF ListsApart
  <2> QED
    BY <2>2, <2>3, <2>4
<1>2. "kept" \notin Usage
  BY DEF Joined, Disjoined
<1> QED
  BY <1>1, <1>2, TypesHold, ListsHold, WholeHolds, PTL
=============================================================================

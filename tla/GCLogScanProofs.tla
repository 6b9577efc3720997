--------------------------- MODULE GCLogScanProofs ---------------------------
(***************************************************************************)
(* Proofs about parse_gc_log(): the dict's counters and timestamps always *)
(* describe exactly the lines read so far, for every log.                 *)
(***************************************************************************)
EXTENDS GCLogScan, PositionsProofs, SequenceTheorems, TLAPS

\* Reading line n + 1 appends its timestamp, if it has one.
LEMMA TimesStep ==
    ASSUME NEW ls, NEW n \in Nat
    PROVE  TimesIn(ls, n + 1) = IF ls[n + 1].time # NoTime
                                THEN Append(TimesIn(ls, n), ls[n + 1].time)
                                ELSE TimesIn(ls, n)
<1> DEFINE T == {k \in Nat : ls[k].time # NoTime}
           ks == Ordered(TimedIn(ls, n))
           ks1 == Ordered(TimedIn(ls, n + 1))
           c == Cardinality(TimedIn(ls, n))
<1>1. /\ TimedIn(ls, n) = T \cap 1..n
      /\ TimedIn(ls, n + 1) = T \cap 1..n + 1
      /\ (n + 1 \in T) <=> ls[n + 1].time # NoTime
  BY DEF TimedIn
<1>2. /\ IsFiniteSet(TimedIn(ls, n)) /\ c \in Nat
      /\ ks1 = IF n + 1 \in T THEN Append(ks, n + 1) ELSE ks
  <2>1. /\ IsFiniteSet(T \cap 1..n) /\ Cardinality(T \cap 1..n) \in Nat
        /\ Ordered(T \cap 1..n + 1) =
              IF n + 1 \in T THEN Append(Ordered(T \cap 1..n), n + 1)
                             ELSE Ordered(T \cap 1..n)
    BY PrefixStep
  <2>2. QED
    BY <1>1, <2>1
<1>3. /\ ks \in Seq({ks[j] : j \in 1..c} \cup {n + 1})
      /\ Len(ks) = c
  BY <1>2 DEF Ordered
<1>4. CASE ls[n + 1].time # NoTime
  <2> DEFINE tn == TimesIn(ls, n)
             t == ls[n + 1].time
  <2>1. ks1 = Append(ks, n + 1)
    BY <1>1, <1>2, <1>4
  <2>2. /\ DOMAIN ks1 = 1..c + 1
        /\ \A j \in 1..c : ks1[j] = ks[j]
        /\ ks1[c + 1] = n + 1
    BY <1>2, <1>3, <2>1, AppendProperties
  <2>3. /\ tn = [j \in 1..c |-> ls[ks[j]].time]
        /\ tn \in Seq({tn[j] : j \in 1..c} \cup {t})
        /\ Len(tn) = c
    BY <1>2, <1>3 DEF TimesIn
  <2>4. /\ DOMAIN Append(tn, t) = 1..c + 1
        /\ \A j \in 1..c : Append(tn, t)[j] = tn[j]
        /\ Append(tn, t)[c + 1] = t
    BY <1>2, <2>3, AppendProperties
  <2>5. TimesIn(ls, n + 1) = [j \in 1..c + 1 |-> ls[ks1[j]].time]
    BY <2>2 DEF TimesIn
  <2>6. Append(tn, t) = [j \in 1..c + 1 |-> Append(tn, t)[j]]
    BY <1>2, <2>3, AppendProperties
  <2>7. QED
    BY <1>2, <1>4, <2>2, <2>3, <2>4, <2>5, <2>6
<1>5. CASE ~(ls[n + 1].time # NoTime)
  BY <1>1, <1>2, <1>5 DEF TimesIn
<1>6. QED
  BY <1>4, <1>5

-----------------------------------------------------------------------------
(* The inductive invariant.                                                *)

\* The patterns dict: four counters and two lists.
PatternsOK(p) ==
    /\ DOMAIN p = {"full_gc_count", "concurrent_failure", "promotion_failure",
                   "allocation_failure", "gc_times", "heap_sizes"}
    /\ p.full_gc_count \in Nat /\ p.concurrent_failure \in Nat
    /\ p.promotion_failure \in Nat /\ p.allocation_failure \in Nat
    /\ p.gc_times \in Seq(Times) /\ p.heap_sizes \in Seq({Triple})

\* CountsMatchLinesRead with what it needs to be inductive: the dict keeps
\* its shape, the line index stays within the file, and nothing is
\* returned before the scan ends, after which the dict no longer changes.
GInv ==
    /\ log \in Logs
    /\ phase \in {"open", "scan", "done"}
    /\ li \in 1..Len(log.lines) + 1
    /\ PatternsOK(patterns)
    /\ phase \in {"open", "scan"} => result = Unset
    /\ phase = "open" => li = 1
    /\ phase = "done" => result \in {EmptyDict, patterns}
    /\ CountsMatchLinesRead
\* What one examined line does to the dict: each counter goes up by one
\* when the line has its substring, its timestamp is appended if it has
\* one, and the dict keeps its shape.
LEMMA LineEffect ==
    ASSUME NEW pat, PatternsOK(pat), NEW l \in LineSet
    PROVE  LET p == HeapOf(TimeOf(CountLine(pat, l), l), l)
           IN  /\ PatternsOK(p)
               /\ p.full_gc_count = pat.full_gc_count + (IF l.fullGC THEN 1 ELSE 0)
               /\ p.concurrent_failure = pat.concurrent_failure + (IF l.concurrent THEN 1 ELSE 0)
               /\ p.promotion_failure = pat.promotion_failure + (IF l.promotion THEN 1 ELSE 0)
               /\ p.allocation_failure = pat.allocation_failure + (IF l.allocation THEN 1 ELSE 0)
               /\ p.gc_times = IF l.time # NoTime THEN Append(pat.gc_times, l.time)
                               ELSE pat.gc_times
<1> DEFINE p1 == CountLine(pat, l)
           p2 == TimeOf(p1, l)
<1>1. /\ l.time # NoTime => l.time \in Times
      /\ l.fullGC \in BOOLEAN /\ l.concurrent \in BOOLEAN
      /\ l.promotion \in BOOLEAN /\ l.allocation \in BOOLEAN
  BY DEF LineSet
<1>2. /\ PatternsOK(p1)
      /\ p1.full_gc_count = pat.full_gc_count + (IF l.fullGC THEN 1 ELSE 0)
      /\ p1.concurrent_failure = pat.concurrent_failure + (IF l.concurrent THEN 1 ELSE 0)
      /\ p1.promotion_failure = pat.promotion_failure + (IF l.promotion THEN 1 ELSE 0)
      /\ p1.allocation_failure = pat.allocation_failure + (IF l.allocation THEN 1 ELSE 0)
      /\ p1.gc_times = pat.gc_times
  BY <1>1 DEF CountLine, PatternsOK
<1>3. /\ PatternsOK(p2)
      /\ p2.full_gc_count = p1.full_gc_count
      /\ p2.concurrent_failure = p1.concurrent_failure
      /\ p2.promotion_failure = p1.promotion_failure
      /\ p2.allocation_failure = p1.allocation_failure
      /\ p2.gc_times = IF l.time # NoTime THEN Append(p1.gc_times, l.time) ELSE p1.gc_times
  BY <1>1, <1>2 DEF TimeOf, PatternsOK
<1>4. /\ PatternsOK(HeapOf(p2, l))
      /\ HeapOf(p2, l).full_gc_count = p2.full_gc_count
      /\ HeapOf(p2, l).concurrent_failure = p2.concurrent_failure
      /\ HeapOf(p2, l).promotion_failure = p2.promotion_failure
      /\ HeapOf(p2, l).allocation_failure = p2.allocation_failure
      /\ HeapOf(p2, l).gc_times = p2.gc_times
  <2>1. Append(p2.heap_sizes, Triple) \in Seq({Triple})
    <3>1. p2.heap_sizes \in Seq({Triple}) /\ Triple \in {Triple}
      BY <1>3 DEF PatternsOK
    <3>2. QED
      BY <3>1, AppendProperties
  <2>2. CASE l.heap = "chained"
    BY <1>3, <2>1, <2>2 DEF HeapOf, PatternsOK
  <2>3. CASE l.heap # "chained"
    BY <1>3, <2>3 DEF HeapOf
  <2>4. QED
    BY <2>2, <2>3
<1>5. QED
  BY <1>2, <1>3, <1>4

LEMMA InitGInv == Init => GInv
<1> SUFFICES ASSUME Init PROVE GInv
  OBVIOUS
<1>1. TimesIn(log.lines, 0) = << >>
  <2>1. TimedIn(log.lines, 0) = {}
    BY DEF TimedIn
  <2>2. Ordered(TimedIn(log.lines, 0)) = << >>
    BY <2>1, OrderedEmpty
  <2>3. QED
    BY <2>2 DEF TimesIn
<1>2. ASSUME NEW f PROVE Cardinality({k \in 1..0 : log.lines[k][f]}) = 0
  <2>1. {k \in 1..0 : log.lines[k][f]} = {}
    OBVIOUS
  <2>2. QED
    BY <2>1, FS_EmptySet
<1>3. log.lines \in Seq(LineSet)
  BY LogsAssumption DEF Init
<1>4. QED
  BY <1>1, <1>2, <1>3 DEF Init, GInv, Fresh, PatternsOK, CountsMatchLinesRead, CountIn

LEMMA NextGInv == GInv /\ [Next]_vars => GInv'
<1> SUFFICES ASSUME GInv, [Next]_vars PROVE GInv'
  OBVIOUS
<1> DEFINE ls == log.lines
<1>1. ls \in Seq(LineSet)
  BY LogsAssumption DEF GInv
<1>2. CASE ScanLine
  <2> DEFINE l == ls[li]
             n == li - 1
  <2>1. li \in 1..Len(ls) /\ l \in LineSet /\ n \in Nat /\ li = n + 1
    BY <1>1, <1>2 DEF ScanLine, GInv
  <2>2. LET p == HeapOf(TimeOf(CountLine(patterns, l), l), l)
        IN  /\ PatternsOK(p)
            /\ p.full_gc_count = patterns.full_gc_count + (IF l.fullGC THEN 1 ELSE 0)
            /\ p.concurrent_failure = patterns.concurrent_failure + (IF l.concurrent THEN 1 ELSE 0)
            /\ p.promotion_failure = patterns.promotion_failure + (IF l.promotion THEN 1 ELSE 0)
            /\ p.allocation_failure = patterns.allocation_failure + (IF l.allocation THEN 1 ELSE 0)
            /\ p.gc_times = IF l.time # NoTime THEN Append(patterns.gc_times, l.time)
                            ELSE patterns.gc_times
    BY <2>1, LineEffect DEF GInv
  <2>3. ASSUME NEW f
        PROVE  Cardinality({k \in 1..n + 1 : ls[k][f]}) =
                  Cardinality({k \in 1..n : ls[k][f]}) + (IF ls[n + 1][f] THEN 1 ELSE 0)
    <3> DEFINE T == {k \in Nat : ls[k][f]}
    <3>1. /\ {k \in 1..n : ls[k][f]} = T \cap 1..n
          /\ {k \in 1..n + 1 : ls[k][f]} = T \cap 1..n + 1
          /\ (n + 1 \in T) <=> ls[n + 1][f]
      BY <2>1
    <3>2. Cardinality(T \cap 1..n + 1) =
             Cardinality(T \cap 1..n) + (IF n + 1 \in T THEN 1 ELSE 0)
      BY <2>1, PrefixStep
    <3>3. QED
      BY <3>1, <3>2
  <2>4. TimesIn(ls, n + 1) = IF ls[n + 1].time # NoTime
                             THEN Append(TimesIn(ls, n), ls[n + 1].time)
                             ELSE TimesIn(ls, n)
    BY <2>1, TimesStep
  <2>5. CountsMatchLinesRead'
    <3>1. patterns' = HeapOf(TimeOf(CountLine(patterns, l), l), l) /\ li' = n + 2
          /\ log' = log
      BY <1>2, <2>1 DEF ScanLine
    <3>2. (n + 2) - 1 = n + 1
      BY <2>1
    <3>3. CountsMatchLinesRead
      BY DEF GInv
    <3>4. QED
      BY <2>1, <2>2, <2>3, <2>4, <3>1, <3>2, <3>3 DEF CountsMatchLinesRead, CountIn
  <2>6. QED
    BY <1>2, <2>1, <2>2, <2>5 DEF ScanLine, GInv
<1>3. CASE Missing \/ Open \/ OpenFails \/ ReadError \/ Return
  <2>1. UNCHANGED <<log, li, patterns>>
    BY <1>3 DEF Missing, Open, OpenFails, ReadError, Return
  <2>2. CountsMatchLinesRead'
    BY <2>1 DEF GInv, CountsMatchLinesRead, CountIn, TimesIn, TimedIn
  <2>3. QED
    BY <1>3, <2>1, <2>2 DEF Missing, Open, OpenFails, ReadError, Return, GInv
<1>4. CASE UNCHANGED vars
  BY <1>4 DEF vars, GInv, CountsMatchLinesRead, CountIn, TimesIn, TimedIn
<1>5. QED
  BY <1>2, <1>3, <1>4 DEF Next

\* The type invariant, for every set of timestamps and logs.
THEOREM TypeCorrect == Spec => []TypeOK
<1>1. GInv => TypeOK
  BY DEF GInv, TypeOK, PatternsOK
<1>2. QED
  BY <1>1, InitGInv, NextGInv, PTL DEF Spec

\* Spec 4.2 for every log: at every point of parse_gc_log()'s pass each
\* counter is the number of lines read so far that contain its substring,
\* and the timestamps are those of the lines read so far, in file order.
THEOREM CountsMatchLinesReadHolds == Spec => []CountsMatchLinesRead
<1>1. GInv => CountsMatchLinesRead
  BY DEF GInv
<1>2. QED
  BY <1>1, InitGInv, NextGInv, PTL DEF Spec
=============================================================================

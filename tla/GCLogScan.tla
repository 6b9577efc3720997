------------------------------ MODULE GCLogScan ------------------------------
(***************************************************************************)
(* parse_gc_log() of memory_leak_detector.py (lines 192-233): one pass     *)
(* over a GC log that counts full GCs, concurrent mode failures,          *)
(* promotion failures and allocation failures, and collects the [t.t]     *)
(* timestamps and the heap transitions it finds, in file order.           *)
(*                                                                         *)
(* A line is abstracted to what the tests of the loop see in it: the four *)
(* substrings, a bracketed timestamp (its value, or none), and the shape  *)
(* of a heap transition in it: none, "plain" (512K->128K(1024K), the      *)
(* shape the spec and the JDK print) or "chained" (->512K->128K(1024K),   *)
(* an arrow before the first number, which is what the code's regex       *)
(* needs).  Reading a line can raise (undecodable bytes, I/O error).      *)
(***************************************************************************)
EXTENDS Naturals, Sequences, FiniteSets, Positions

CONSTANTS
    Times,      \* the timestamps a line may carry
    Logs        \* the GC logs parsed

NoTime == "none"
Shapes == {"none", "plain", "chained"}

\* The triple the example of spec 7 parses: 512K->128K(1024K).
Triple == [before |-> 512, after |-> 128, max |-> 1024]

LineSet == [fullGC : BOOLEAN, concurrent : BOOLEAN, promotion : BOOLEAN,
            allocation : BOOLEAN, time : Times \cup {NoTime}, heap : Shapes,
            readable : BOOLEAN]

ASSUME TimesAssumption == NoTime \notin Times
ASSUME LogsAssumption ==
    Logs \subseteq [exists : BOOLEAN, openable : BOOLEAN, lines : Seq(LineSet)]

\* The dict of lines 197-204 with its counters at 0 and its lists empty.
Fresh == [full_gc_count |-> 0, concurrent_failure |-> 0, promotion_failure |-> 0,
          allocation_failure |-> 0, gc_times |-> <<>>, heap_sizes |-> <<>>]

\* The empty dict `{}` returned for a missing file.
EmptyDict == [missing |-> TRUE]

\* Mutant: the four tests as an if/elif chain, one counter per line.
CountLineElif(pat, l) ==
    IF l.fullGC THEN [pat EXCEPT !.full_gc_count = @ + 1]
    ELSE IF l.concurrent THEN [pat EXCEPT !.concurrent_failure = @ + 1]
    ELSE IF l.promotion THEN [pat EXCEPT !.promotion_failure = @ + 1]
    ELSE IF l.allocation THEN [pat EXCEPT !.allocation_failure = @ + 1]
    ELSE pat

\* Lines 209-216: four independent tests; a line can raise several counters.
CountLine(pat, l) ==
    [pat EXCEPT !.full_gc_count = @ + (IF l.fullGC THEN 1 ELSE 0),
                !.concurrent_failure = @ + (IF l.concurrent THEN 1 ELSE 0),
                !.promotion_failure = @ + (IF l.promotion THEN 1 ELSE 0),
                !.allocation_failure = @ + (IF l.allocation THEN 1 ELSE 0)]

\* Mutant: the group appended without testing that the search matched.
TimeOfUnguarded(pat, l) == [pat EXCEPT !.gc_times = Append(@, l.time)]

\* Lines 218-220: the first \[(\d+\.\d+)\] of the line, as a float.
TimeOf(pat, l) ==
    IF l.time # NoTime THEN [pat EXCEPT !.gc_times = Append(@, l.time)] ELSE pat

\* Lines 222-228: ->(\d+)K->(\d+)K\((\d+)K\) only matches a transition
\* with an arrow before its first number.
HeapOf(pat, l) ==
    IF l.heap = "chained" THEN [pat EXCEPT !.heap_sizes = Append(@, Triple)] ELSE pat

-----------------------------------------------------------------------------
VARIABLES
    log,        \* the file at log_path
    phase,      \* "open", "scan", "done"
    li,         \* the next line of the file
    patterns,   \* the patterns dict
    result      \* the return value, once returned

vars == <<log, phase, li, patterns, result>>

Unset == [unset |-> TRUE]

Init ==
    /\ log \in Logs
    /\ phase = "open"
    /\ li = 1
    /\ patterns = Fresh
    /\ result = Unset

\* Lines 194-195: a missing file gives {}.
Missing ==
    /\ phase = "open" /\ ~log.exists
    /\ result' = EmptyDict
    /\ phase' = "done"
    /\ UNCHANGED <<log, li, patterns>>

\* Lines 206-207: the file is opened.
Open ==
    /\ phase = "open" /\ log.exists /\ log.openable
    /\ phase' = "scan"
    /\ UNCHANGED <<log, li, patterns, result>>

\* Lines 206-207 and 230-233: open() raises (permission, the file removed
\* after the exists() test); the dict is returned with nothing counted.
OpenFails ==
    /\ phase = "open" /\ log.exists /\ ~log.openable
    /\ result' = patterns
    /\ phase' = "done"
    /\ UNCHANGED <<log, li, patterns>>

\* Lines 208-228: one line read and examined.
ScanLine ==
    /\ phase = "scan" /\ li <= Len(log.lines)
    /\ log.lines[li].readable
    /\ patterns' = HeapOf(TimeOf(CountLine(patterns, log.lines[li]), log.lines[li]),
                          log.lines[li])
    /\ li' = li + 1
    /\ UNCHANGED <<log, phase, result>>

\* Lines 230-233: reading the line raised; the exception is printed and
\* the dict is returned as it stands.
ReadError ==
    /\ phase = "scan" /\ li <= Len(log.lines)
    /\ ~log.lines[li].readable
    /\ result' = patterns
    /\ phase' = "done"
    /\ UNCHANGED <<log, li, patterns>>

\* Line 233: the end of the file.
Return ==
    /\ phase = "scan" /\ li > Len(log.lines)
    /\ result' = patterns
    /\ phase' = "done"
    /\ UNCHANGED <<log, li, patterns>>

Next == Missing \/ Open \/ OpenFails \/ ScanLine \/ ReadError \/ Return

Spec == Init /\ [][Next]_vars

-----------------------------------------------------------------------------
(* Properties.                                                             *)

\* The type invariant.
TypeOK ==
    /\ phase \in {"open", "scan", "done"}
    /\ li \in 1..Len(log.lines) + 1
    /\ patterns.full_gc_count \in Nat /\ patterns.concurrent_failure \in Nat
    /\ patterns.promotion_failure \in Nat /\ patterns.allocation_failure \in Nat
    /\ patterns.gc_times \in Seq(Times)
    /\ patterns.heap_sizes \in Seq({Triple})
    /\ result \in {Unset, EmptyDict, patterns}

\* The number of lines among the first n that have a property.
CountIn(ls, n, test(_)) == Cardinality({k \in 1..n : test(ls[k])})

\* The positions among the first n lines that carry a timestamp.
TimedIn(ls, n) == {k \in 1..n : ls[k].time # NoTime}

\* The timestamps of the first n lines, in file order.
TimesIn(ls, n) ==
    LET ks == Ordered(TimedIn(ls, n))
    IN  [j \in DOMAIN ks |-> ls[ks[j]].time]

\* Spec 4.2 and its example (line 84): at every point of the pass, each
\* counter is the number of lines read so far that contain its substring
\* (a line raises every counter whose substring it contains) and the
\* timestamps are those of the lines read so far, in file order.
CountsMatchLinesRead ==
    LET ls == log.lines
        n == li - 1
    IN  /\ patterns.full_gc_count = CountIn(ls, n, LAMBDA l : l.fullGC)
        /\ patterns.concurrent_failure = CountIn(ls, n, LAMBDA l : l.concurrent)
        /\ patterns.promotion_failure = CountIn(ls, n, LAMBDA l : l.promotion)
        /\ patterns.allocation_failure = CountIn(ls, n, LAMBDA l : l.allocation)
        /\ patterns.gc_times = TimesIn(ls, n)

\* Spec 7: a heap transition shaped 512K->128K(1024K) parses to
\* {before: 512, after: 128, max: 1024}: once the whole file is read, it
\* has one triple per line that shows a transition.
HeapTransitionsParsed ==
    phase = "done" /\ result # EmptyDict /\ li > Len(log.lines) =>
       Len(result.heap_sizes) = CountIn(log.lines, Len(log.lines),
                                        LAMBDA l : l.heap # "none")

=============================================================================

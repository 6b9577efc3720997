----------------------------- MODULE MonitorLoop -----------------------------
(***************************************************************************)
(* The monitoring path of memory_leak_detector.py: main() with --monitor   *)
(* (the CSV header write), monitor_memory() (mode probe, the sampling      *)
(* loop, the CSV appends) and analyze_trend() (first-vs-last verdict).     *)
(*                                                                         *)
(* The monitored router JVM is a separate process: its heap, RSS, old-gen *)
(* collection counter, whether jstat can attach to it and whether it is   *)
(* still running change between any two steps of the tool.  The adapters  *)
(* get_jstat_memory() and get_memory_from_proc() are modelled by when they *)
(* return data (JstatOK, ProcOK) and by what they read; how jstat's report *)
(* is parsed is the subject of module JstatParse.                          *)
(*                                                                         *)
(* Data abstraction: a reading is in whole MB from the small set MemVals,  *)
(* printing is left out, a CSV line is its column count and the sample it  *)
(* encodes, and the time.sleep() between iterations changes no state (the  *)
(* target's steps interleave anywhere).                                    *)
(***************************************************************************)
EXTENDS Naturals, Sequences

CONSTANTS
    Count,      \* --count: iterations of the loop
    MemVals,    \* possible MB readings of heap_used_mb / rss_mb
    MaxGC,      \* bound on the target's old-generation collection counter
    Output,     \* TRUE iff --output was given
    Prior       \* content of the --output file before the run

Modes == {"jstat", "proc"}

\* A collected sample: the field the trend uses (heap_used_mb in jstat
\* mode, rss in /proc mode) and old_gc_count (absent in /proc mode: 0).
Samples == [mode : Modes, mem : MemVals, oldgc : 0..MaxGC]

\* Lines that encode no sample: the CSV header, and what an earlier run
\* left in the file.
Mark(kind) == [mode |-> kind, mem |-> 0, oldgc |-> 0]

\* A CSV line: its column count and the sample it encodes.
Rows == [cols : {3, 9}, sample : Samples \cup {Mark("header"), Mark("earlier")}]

ASSUME CountAssumption == Count \in Nat
ASSUME MemAssumption == MemVals \subseteq Nat /\ MemVals # {}
ASSUME MaxGCAssumption == MaxGC \in Nat
ASSUME OutputAssumption == Output \in BOOLEAN
ASSUME PriorAssumption == Prior \in Seq(Rows)

Verdicts == {"none", "stable", "moderate", "significant"}

VARIABLES
    \* the monitored router process
    alive,      \* the PID still exists
    jstatUp,    \* jstat can attach within its 10 s timeout
    heap,       \* heap used (MB) as jstat would report it
    rss,        \* VmRSS (MB) as /proc/<pid>/status would report it
    oldgc,      \* old-generation collections so far
    \* the tool
    pc,         \* "main", "probe", "loop", "done", "aborted"
    i,          \* loop index of range(count)
    useProc,    \* use_proc
    snapshots,  \* snapshots
    file,       \* lines of the --output file
    verdict,    \* classification printed by analyze_trend, "none" if not run
    oldWarn     \* the old-generation warning was printed

targetVars == <<alive, jstatUp, heap, rss, oldgc>>
toolVars == <<pc, i, useProc, snapshots, file, verdict, oldWarn>>
vars == <<targetVars, toolVars>>

-----------------------------------------------------------------------------
(* The adapters.                                                           *)

\* get_jstat_memory() returns a MemorySnapshot (lines 98-149); otherwise
\* non-zero exit, timeout or exception give None (107-108, 150-152).
JstatOK == alive /\ jstatUp

\* get_memory_from_proc() returns a non-empty dict (73-93); a vanished PID
\* raises and gives None (94-95).
ProcOK == alive

GetJstatMemory == [mode |-> "jstat", mem |-> heap, oldgc |-> oldgc]

GetMemoryFromProc == [mode |-> "proc", mem |-> rss, oldgc |-> 0]

\* What an adapter returns when it returns None.
NoSample == Mark("none")

\* Mutant: fall back to /proc on every failed jstat call, not only at the
\* probe, without relabelling the session.
AcquireFallback ==
    IF ~useProc /\ JstatOK THEN GetJstatMemory
    ELSE IF ProcOK THEN GetMemoryFromProc ELSE NoSample

\* The acquisition of one iteration, lines 276-278 and 289-290: only the
\* adapter of the mode chosen by the probe is called.
Acquire ==
    IF useProc THEN (IF ProcOK THEN GetMemoryFromProc ELSE NoSample)
               ELSE (IF JstatOK THEN GetJstatMemory ELSE NoSample)

\* The CSV lines: the header main() writes, and one line per sample.
Header == [cols |-> 9, sample |-> Mark("header")]
CsvRow(s) == [cols |-> IF s.mode = "jstat" THEN 9 ELSE 3, sample |-> s]

\* analyze_trend(): growth_pct = growth / first * 100, 0 when first is 0,
\* compared with strict thresholds 20 and 10 (exact in whole MB).
GrowthPctAbove(first, last, t) == first > 0 /\ (last - first) * 100 > t * first

\* Mutant: thresholds compared with >= instead of >.
TrendVerdictInclusive(first, last) ==
    IF first > 0 /\ (last - first) * 100 >= 20 * first THEN "significant"
    ELSE IF first > 0 /\ (last - first) * 100 >= 10 * first THEN "moderate"
    ELSE "stable"

TrendVerdict(first, last) ==
    IF GrowthPctAbove(first, last, 20) THEN "significant"
    ELSE IF GrowthPctAbove(first, last, 10) THEN "moderate"
    ELSE "stable"

\* The old-generation warning: jstat mode only, last.old_gc > first.old_gc.
OldGenWarning(s) == ~useProc /\ s[Len(s)].oldgc > s[1].oldgc

-----------------------------------------------------------------------------
Init ==
    /\ alive = TRUE
    /\ jstatUp \in BOOLEAN
    /\ heap \in MemVals
    /\ rss \in MemVals
    /\ oldgc = 0
    /\ pc = "main"
    /\ i = 0
    /\ useProc = FALSE
    /\ snapshots = <<>>
    /\ file = Prior
    /\ verdict = "none"
    /\ oldWarn = FALSE

\* Mutant: the file opened with 'a' and the header written only to an
\* empty file, as a "resume the previous CSV" change would do.
WriteHeaderIfNew ==
    /\ pc = "main"
    /\ file' = IF Output /\ file = <<>> THEN <<Header>> ELSE file
    /\ pc' = "probe"
    /\ UNCHANGED <<targetVars, i, useProc, snapshots, verdict, oldWarn>>

(* main(), lines 591-595: with --output the file is opened with 'w' and   *)
(* the nine-column header written, then monitor_memory() is called.       *)
WriteHeader ==
    /\ pc = "main"
    /\ file' = IF Output THEN <<Header>> ELSE file
    /\ pc' = "probe"
    /\ UNCHANGED <<targetVars, i, useProc, snapshots, verdict, oldWarn>>

(* monitor_memory(), lines 256-262: one trial get_jstat_memory() fixes the *)
(* mode for the whole run; its snapshot is discarded.                     *)
Probe ==
    /\ pc = "probe"
    /\ useProc' = ~JstatOK
    /\ pc' = "loop"
    /\ i' = 0
    /\ UNCHANGED <<targetVars, snapshots, file, verdict, oldWarn>>

\* Mutant: the loop runs count + 1 times.
SampleOKOffByOne ==
    /\ pc = "loop"
    /\ i <= Count
    /\ Acquire # NoSample
    /\ snapshots' = Append(snapshots, Acquire)
    /\ file' = IF Output THEN Append(file, CsvRow(Acquire)) ELSE file
    /\ i' = i + 1
    /\ UNCHANGED <<targetVars, pc, useProc, verdict, oldWarn>>

(* One iteration, lines 273-305: acquire with the mode's adapter; on data *)
(* append the sample, and with --output append its CSV line.              *)
SampleOK ==
    /\ pc = "loop"
    /\ i < Count
    /\ Acquire # NoSample
    /\ snapshots' = Append(snapshots, Acquire)
    /\ file' = IF Output THEN Append(file, CsvRow(Acquire)) ELSE file
    /\ i' = i + 1
    /\ UNCHANGED <<targetVars, pc, useProc, verdict, oldWarn>>

\* Mutant: a failed acquisition retries the same iteration.
SampleMissedRetry ==
    /\ pc = "loop"
    /\ i < Count
    /\ Acquire = NoSample
    /\ UNCHANGED <<targetVars, pc, i, useProc, snapshots, file, verdict, oldWarn>>

(* The adapter returned None: the iteration is skipped, nothing recorded. *)
SampleMissed ==
    /\ pc = "loop"
    /\ i < Count
    /\ Acquire = NoSample
    /\ i' = i + 1
    /\ UNCHANGED <<targetVars, pc, useProc, snapshots, file, verdict, oldWarn>>

(* open(output_file, 'a') or write() raises (lines 286-287, 297-302): the  *)
(* sample was already appended in memory, the exception is not caught and *)
(* the tool exits with a traceback before the analysis.                   *)
SampleWriteFails ==
    /\ pc = "loop"
    /\ i < Count
    /\ Acquire # NoSample
    /\ Output
    /\ snapshots' = Append(snapshots, Acquire)
    /\ pc' = "aborted"
    /\ UNCHANGED <<targetVars, i, useProc, file, verdict, oldWarn>>

(* After the loop, lines 307-308 and analyze_trend() 311-360: with two or *)
(* more samples the first and last are compared.                          *)
Finish ==
    /\ pc = "loop"
    /\ i >= Count
    /\ pc' = "done"
    /\ IF Len(snapshots) >= 2
         THEN /\ verdict' = TrendVerdict(snapshots[1].mem,
                                         snapshots[Len(snapshots)].mem)
              /\ oldWarn' = OldGenWarning(snapshots)
         ELSE UNCHANGED <<verdict, oldWarn>>
    /\ UNCHANGED <<targetVars, i, useProc, snapshots, file>>

ToolNext == WriteHeader \/ Probe \/ SampleOK \/ SampleMissed
              \/ SampleWriteFails \/ Finish

-----------------------------------------------------------------------------
(* The router process, while the tool runs.                               *)

\* Allocation and collection change heap use and RSS arbitrarily.
TargetAllocates ==
    /\ alive
    /\ pc \notin {"done", "aborted"}
    /\ heap' \in MemVals
    /\ rss' \in MemVals
    /\ UNCHANGED <<alive, jstatUp, oldgc, toolVars>>

\* An old-generation (full) collection.
TargetOldGC ==
    /\ alive
    /\ pc \notin {"done", "aborted"}
    /\ oldgc < MaxGC
    /\ oldgc' = oldgc + 1
    /\ UNCHANGED <<alive, jstatUp, heap, rss, toolVars>>

\* jstat starts or stops answering (attach failure, 10 s timeout).
JstatFlaps ==
    /\ alive
    /\ pc \notin {"done", "aborted"}
    /\ jstatUp' = ~jstatUp
    /\ UNCHANGED <<alive, heap, rss, oldgc, toolVars>>

\* The router exits; its PID and /proc entry disappear.
TargetExits ==
    /\ alive
    /\ pc \notin {"done", "aborted"}
    /\ alive' = FALSE
    /\ UNCHANGED <<jstatUp, heap, rss, oldgc, toolVars>>

TargetNext == TargetAllocates \/ TargetOldGC \/ JstatFlaps \/ TargetExits

Next == ToolNext \/ TargetNext

\* The tool is single-threaded and every call it makes is bounded by a
\* timeout, so it keeps taking steps; the router owes it nothing.
Spec == Init /\ [][Next]_vars /\ WF_vars(ToolNext)


-----------------------------------------------------------------------------
(* Properties.                                                             *)

\* The type invariant.
TypeOK ==
    /\ alive \in BOOLEAN
    /\ jstatUp \in BOOLEAN
    /\ heap \in MemVals
    /\ rss \in MemVals
    /\ oldgc \in 0..MaxGC
    /\ pc \in {"main", "probe", "loop", "done", "aborted"}
    /\ i \in 0..Count
    /\ useProc \in BOOLEAN
    /\ snapshots \in Seq(Samples)
    /\ file \in Seq(Rows)
    /\ verdict \in Verdicts
    /\ oldWarn \in BOOLEAN

\* The mode of the session: the probe's choice, fixed for the run.
SessionMode == IF useProc THEN "proc" ELSE "jstat"

\* Spec 4.1 and 9: the two acquisition modes are never mixed within one
\* trend computation.  Every sample monitor_memory() collects comes from
\* the adapter the probe chose, whatever jstat and the router do later.
ModeNeverMixed ==
    \A k \in 1..Len(snapshots) : snapshots[k].mode = SessionMode

\* Spec 4.3, "partial runs leave partial data": whenever the tool is
\* stopped (killed between iterations, or dead of a write error), the
\* --output file ends with this run's header followed by one line per
\* collected sample, in order, and nothing after them; only the sample
\* whose write raised is missing.  What precedes the header (an earlier
\* run's data, if it were kept) is not constrained here.
RunLines == Len(snapshots) + (IF pc = "aborted" THEN 0 ELSE 1)

FileMirrorsSamples ==
    Output /\ pc # "main" =>
        LET base == Len(file) - RunLines
        IN  /\ base >= 0
            /\ file[base + 1] = Header
            /\ \A k \in 1..RunLines - 1 : file[base + 1 + k] = CsvRow(snapshots[k])

\* Spec 4.3: the tool "appends to the output file ... never overwrites
\* existing content": once monitoring has started, the lines the file
\* held before the run are still its first lines.  main() opens the file
\* with 'w' (line 593) before writing the header.
NeverOverwrites ==
    Output /\ pc # "main" =>
        /\ Len(file) >= Len(Prior)
        /\ \A k \in 1..Len(Prior) : file[k] = Prior[k]

\* The classification of spec 4.4, from its words: growthPct is
\* growth / first * 100, taken as 0 when first is 0; above 20 is a
\* possible leak, above 10 is moderate, anything else is stable.
SpecVerdict(first, last) ==
    IF first = 0 THEN "stable"
    ELSE IF 5 * (last - first) > first THEN "significant"
    ELSE IF 10 * (last - first) > first THEN "moderate"
    ELSE "stable"

\* Spec 4.3, 4.4 and 8: when monitor_memory() returns, the trend was
\* analysed exactly when two or more samples were collected (a 1-sample
\* or all-failed run reports nothing), the verdict is the spec's
\* classification of the first and last collected samples, and the
\* old-generation warning was printed exactly when, in jstat mode, the
\* last sample counts more old-generation collections than the first.
AnalysisMatchesSpec ==
    pc = "done" =>
        IF Len(snapshots) >= 2
        THEN LET first == snapshots[1]
                 last == snapshots[Len(snapshots)]
             IN  /\ verdict = SpecVerdict(first.mem, last.mem)
                 /\ oldWarn = (SessionMode = "jstat" /\ last.oldgc > first.oldgc)
        ELSE verdict = "none" /\ ~oldWarn

\* Every monitoring run ends: range(count) is finite and a failed
\* acquisition skips its iteration instead of retrying it, even when the
\* router stays unreachable.
Terminates == <>(pc \in {"done", "aborted"})



\* Spec 6: the coarse (/proc) mode writes its two-column body "without a
\* pre-written header", so a file never announces columns its lines do
\* not have.  Stated: every line after the first has the first line's
\* column count.  main() writes the nine-column header before the probe
\* has chosen the mode (lines 592-595), and /proc rows have three fields.
CsvHeaderMatchesRows ==
    Output /\ pc # "main" =>
        \A k \in 2..Len(file) : file[k].cols = file[1].cols

-----------------------------------------------------------------------------
(* The monitoring path implements the abstract session of MonitorSession.  *)

\* The session's phase: the header write and the probe are its setup.
SessionPhase ==
    CASE pc \in {"main", "probe"} -> "setup"
      [] pc = "loop"             -> "sampling"
      [] OTHER                   -> pc

Session == INSTANCE MonitorSession
               WITH phase <- SessionPhase, mode <- SessionMode, taken <- snapshots

\* Spec 4.1, 4.3, 4.4 and 8 together: every run of monitor_memory(), with
\* the router doing anything, is a session of MonitorSession: one mode
\* settled by the probe, at most --count samples all of that mode, and an
\* end by a write error or by the analysis the spec defines of the first
\* and last samples (the code's integer thresholds, its skipped
\* iterations and its old-gen test included), reached in every run.
ImplementsSession == Session!Spec

=============================================================================

-------------------------- MODULE MonitorLoopProofs --------------------------
(***************************************************************************)
(* Proofs about MonitorLoop for every value of its constants: the type     *)
(* invariant, and that the --output file always mirrors the collected     *)
(* samples and that the samples never mix modes.                          *)
(***************************************************************************)
EXTENDS MonitorLoop, TLAPS

\* The facts every step needs about the constants.
LEMMA ConstantsOK ==
    /\ Count \in Nat
    /\ MemVals \subseteq Nat
    /\ MaxGC \in Nat
    /\ Output \in BOOLEAN
    /\ Prior \in Seq(Rows)
BY CountAssumption, MemAssumption, MaxGCAssumption, OutputAssumption,
   PriorAssumption

\* What one iteration's acquisition returns: a sample of the session's
\* mode, or NoSample, which is no sample at all.
LEMMA AcquireType ==
    ASSUME TypeOK
    PROVE  /\ Acquire # NoSample => Acquire \in Samples
           /\ Acquire # NoSample => Acquire.mode = SessionMode
<1>1. CASE useProc
  <2>1. CASE ProcOK
    BY <1>1, <2>1, MaxGCAssumption DEF TypeOK, Acquire, GetMemoryFromProc,
                                    Samples, SessionMode, Modes
  <2>2. CASE ~ProcOK
    BY <1>1, <2>2 DEF Acquire
  <2>3. QED
    BY <2>1, <2>2
<1>2. CASE ~useProc
  <2>1. CASE JstatOK
    BY <1>2, <2>1 DEF TypeOK, Acquire, GetJstatMemory, Samples, SessionMode,
                      Modes
  <2>2. CASE ~JstatOK
    BY <1>2, <2>2 DEF Acquire
  <2>3. QED
    BY <2>1, <2>2
<1>3. QED
  BY <1>1, <1>2

-----------------------------------------------------------------------------
(* The type invariant.                                                     *)

\* The initial states are well typed.
LEMMA InitTypeOK == Init => TypeOK
<1> SUFFICES ASSUME Init PROVE TypeOK
  OBVIOUS
<1>1. <<>> \in Seq(Samples)
  OBVIOUS
<1>2. 0 \in 0..MaxGC /\ 0 \in 0..Count
  BY CountAssumption, MaxGCAssumption
<1>3. QED
  BY <1>1, <1>2, PriorAssumption DEF Init, TypeOK, Verdicts

\* Every step, of the tool or of the router, keeps the state well typed.
LEMMA NextTypeOK == TypeOK /\ [Next]_vars => TypeOK'
  <2> SUFFICES ASSUME TypeOK, [Next]_vars PROVE TypeOK'
    OBVIOUS
  <2>0. USE ConstantsOK
  <2>1. CASE WriteHeader
    <3>1. Header \in Rows
      BY DEF Header, Rows, Mark
    <3>2. QED
      BY <2>1, <3>1 DEF WriteHeader, TypeOK, targetVars, toolVars
  <2>2. CASE Probe
    BY <2>2 DEF Probe, TypeOK, targetVars, toolVars
  <2>3. CASE SampleOK
    <3>1. Acquire \in Samples
      BY <2>3, AcquireType DEF SampleOK
    <3>2. CsvRow(Acquire) \in Rows
      BY <3>1 DEF CsvRow, Rows
    <3>3. QED
      BY <2>3, <3>1, <3>2 DEF SampleOK, TypeOK, targetVars, toolVars
  <2>4. CASE SampleMissed
    BY <2>4 DEF SampleMissed, TypeOK, targetVars, toolVars
  <2>5. CASE SampleWriteFails
    <3>1. Acquire \in Samples
      BY <2>5, AcquireType DEF SampleWriteFails
    <3>2. QED
      BY <2>5, <3>1 DEF SampleWriteFails, TypeOK, targetVars, toolVars
  <2>6. CASE Finish
    <3>1. \A f, l : TrendVerdict(f, l) \in Verdicts
      BY DEF TrendVerdict, Verdicts
    <3>2. QED
      BY <2>6, <3>1 DEF Finish, TypeOK, targetVars, toolVars, OldGenWarning
  <2>7. CASE TargetAllocates
    BY <2>7 DEF TargetAllocates, TypeOK, targetVars, toolVars
  <2>8. CASE TargetOldGC
    BY <2>8 DEF TargetOldGC, TypeOK, targetVars, toolVars
  <2>9. CASE JstatFlaps
    BY <2>9 DEF JstatFlaps, TypeOK, targetVars, toolVars
  <2>10. CASE TargetExits
    BY <2>10 DEF TargetExits, TypeOK, targetVars, toolVars
  <2>11. CASE UNCHANGED vars
    BY <2>11 DEF vars, targetVars, toolVars, TypeOK
  <2>12. QED
    BY <2>1, <2>2, <2>3, <2>4, <2>5, <2>6, <2>7, <2>8, <2>9, <2>10, <2>11
       DEF Next, ToolNext, TargetNext

\* Every reachable state is well typed: readings stay in MemVals, the
\* old-gen counter within MaxGC, the loop index within range(count), and
\* the sample list and the output file hold samples and CSV lines.
THEOREM TypeCorrect == Spec => []TypeOK
BY InitTypeOK, NextTypeOK, PTL DEF Spec

(* The output file mirrors the samples.                                    *)

\* The inductive strengthening: before the loop starts no sample exists,
\* so the header write and the probe cannot break the correspondence.
NoSampleBeforeLoop == pc \in {"main", "probe"} => snapshots = <<>>

\* main() truncates the file (open 'w', line 593), so the run's lines are
\* the whole file: the suffix FileMirrorsSamples speaks of starts at 1.
FileIsThisRun ==
    Output /\ pc # "main" =>
        /\ Len(file) >= 1
        /\ file[1] = Header
        /\ Len(file) = RunLines
        /\ \A k \in 1..Len(file) - 1 : file[k + 1] = CsvRow(snapshots[k])

IInv ==
    /\ TypeOK
    /\ ModeNeverMixed
    /\ FileIsThisRun
    /\ NoSampleBeforeLoop

\* A file that is exactly this run's lines ends with them.
LEMMA WholeFileIsSuffix == TypeOK /\ FileIsThisRun => FileMirrorsSamples
BY DEF TypeOK, FileIsThisRun, FileMirrorsSamples

\* A step that appends a to the sample list and CsvRow(a) to a file that
\* mirrored the list keeps it mirrored.
LEMMA AppendMirror ==
    ASSUME NEW s \in Seq(Samples), NEW f \in Seq(Rows), NEW a \in Samples,
           Len(f) = Len(s) + 1,
           \A k \in 1..Len(f) - 1 : f[k + 1] = CsvRow(s[k])
    PROVE  /\ Len(Append(f, CsvRow(a))) = Len(Append(s, a)) + 1
           /\ \A k \in 1..Len(Append(f, CsvRow(a))) - 1 :
                 Append(f, CsvRow(a))[k + 1] = CsvRow(Append(s, a)[k])
<1>1. CsvRow(a) \in Rows
  BY DEF CsvRow, Rows
<1>2. QED
  BY <1>1

\* A sample appended to the list but not to the file (the write raised)
\* leaves the file mirroring all but the last sample.
LEMMA AppendLost ==
    ASSUME NEW s \in Seq(Samples), NEW f \in Seq(Rows), NEW a \in Samples,
           Len(f) = Len(s) + 1,
           \A k \in 1..Len(f) - 1 : f[k + 1] = CsvRow(s[k])
    PROVE  /\ Len(f) = Len(Append(s, a))
           /\ \A k \in 1..Len(f) - 1 : f[k + 1] = CsvRow(Append(s, a)[k])
OBVIOUS

\* Spec 4.3 and 4.1 for every instance: at every point of a run (so also
\* wherever the tool is killed or dies of a write error) the --output file
\* ends with the header and one line per collected sample, and all samples come
\* from the adapter the probe chose.
THEOREM FileMirrorsSamplesHolds == Spec => [](FileMirrorsSamples /\ ModeNeverMixed)
<1>1. Init => IInv
  <2> SUFFICES ASSUME Init PROVE IInv
    OBVIOUS
  <2>1. TypeOK
    BY InitTypeOK
  <2>2. QED
    BY <2>1 DEF Init, IInv, ModeNeverMixed, FileIsThisRun,
                NoSampleBeforeLoop
<1>2. IInv /\ [Next]_vars => IInv'
  <2> SUFFICES ASSUME IInv, [Next]_vars
               PROVE  (ModeNeverMixed /\ FileIsThisRun
                                      /\ NoSampleBeforeLoop)'
    BY NextTypeOK DEF IInv
  <2>0. TypeOK /\ TypeOK'
    BY NextTypeOK DEF IInv
  <2> USE DEF IInv, ModeNeverMixed, FileIsThisRun, NoSampleBeforeLoop, RunLines
  <2>1. CASE WriteHeader
    <3>1. CASE Output
      BY <2>1, <3>1 DEF WriteHeader
    <3>2. CASE ~Output
      BY <2>1, <3>2 DEF WriteHeader
    <3>3. QED
      BY <3>1, <3>2
  <2>2. CASE Probe
    BY <2>2 DEF Probe, targetVars
  <2>3. CASE SampleOK
    <3>1. Acquire \in Samples /\ Acquire.mode = SessionMode
      BY <2>0, <2>3, AcquireType DEF SampleOK
    <3>2. ModeNeverMixed'
      BY <2>0, <2>3, <3>1 DEF SampleOK, SessionMode, TypeOK
    <3>3. FileIsThisRun'
      <4>1. CASE Output
        BY <2>0, <2>3, <3>1, <4>1, AppendMirror DEF SampleOK, TypeOK
      <4>2. CASE ~Output
        BY <2>3, <4>2 DEF SampleOK
      <4>3. QED
        BY <4>1, <4>2
    <3>4. QED
      BY <2>3, <3>2, <3>3 DEF SampleOK
  <2>4. CASE SampleMissed
    BY <2>4 DEF SampleMissed, SessionMode
  <2>5. CASE SampleWriteFails
    <3>1. Acquire \in Samples /\ Acquire.mode = SessionMode
      BY <2>0, <2>5, AcquireType DEF SampleWriteFails
    <3>2. ModeNeverMixed'
      BY <2>0, <2>5, <3>1 DEF SampleWriteFails, SessionMode, TypeOK
    <3>3. FileIsThisRun'
      BY <2>0, <2>5, <3>1, AppendLost DEF SampleWriteFails, TypeOK
    <3>4. QED
      BY <2>5, <3>2, <3>3 DEF SampleWriteFails
  <2>6. CASE Finish
    BY <2>6 DEF Finish, SessionMode
  <2>7. CASE TargetNext
    BY <2>7 DEF TargetNext, TargetAllocates, TargetOldGC, JstatFlaps,
                TargetExits, toolVars, SessionMode
  <2>8. CASE UNCHANGED vars
    BY <2>8 DEF vars, targetVars, toolVars, SessionMode
  <2>9. QED
    BY <2>1, <2>2, <2>3, <2>4, <2>5, <2>6, <2>7, <2>8 DEF Next, ToolNext
<1>3. IInv => FileMirrorsSamples /\ ModeNeverMixed
  BY WholeFileIsSuffix DEF IInv
<1>4. QED
  BY <1>1, <1>2, <1>3, PTL DEF Spec


-----------------------------------------------------------------------------
(* The analysis is the spec's, and the loop implements MonitorSession.     *)

\* The code's integer thresholds (growth * 100 > 20 * first, > 10 * first,
\* no growth counted when first is 0) classify every pair of readings as
\* the spec's growthPct does.
LEMMA VerdictAgrees ==
    ASSUME NEW f \in Nat, NEW l \in Nat
    PROVE  TrendVerdict(f, l) = SpecVerdict(f, l)
<1>1. GrowthPctAbove(f, l, 20) <=> f # 0 /\ 5 * (l - f) > f
  BY DEF GrowthPctAbove
<1>2. GrowthPctAbove(f, l, 10) <=> f # 0 /\ 10 * (l - f) > f
  BY DEF GrowthPctAbove
<1>3. CASE f = 0
  BY <1>1, <1>2, <1>3 DEF TrendVerdict, SpecVerdict
<1>4. CASE f # 0 /\ 5 * (l - f) > f
  BY <1>1, <1>2, <1>4 DEF TrendVerdict, SpecVerdict
<1>5. CASE f # 0 /\ ~(5 * (l - f) > f) /\ 10 * (l - f) > f
  BY <1>1, <1>2, <1>5 DEF TrendVerdict, SpecVerdict
<1>6. CASE f # 0 /\ ~(5 * (l - f) > f) /\ ~(10 * (l - f) > f)
  BY <1>1, <1>2, <1>6 DEF TrendVerdict, SpecVerdict
<1>7. QED
  BY <1>3, <1>4, <1>5, <1>6

\* The abstract classification is the same operator as SpecVerdict.
LEMMA ClassifyIsSpecVerdict ==
    ASSUME NEW f, NEW l
    PROVE  Session!Classify(f, l) = SpecVerdict(f, l)
BY DEF Session!Classify, SpecVerdict

\* The inductive invariant of the analysis and of the refinement: before
\* the loop there is no sample; in the loop no more samples than
\* iterations; before the end no verdict; and once done the analysis
\* stays what Finish printed, since no tool step follows.
LoopBound == pc = "loop" => Len(snapshots) <= i
NoVerdictBeforeEnd == pc # "done" => verdict = "none" /\ ~oldWarn

RInv ==
    /\ TypeOK
    /\ NoSampleBeforeLoop
    /\ LoopBound
    /\ NoVerdictBeforeEnd
    /\ AnalysisMatchesSpec

LEMMA InitRInv == Init => RInv
<1> SUFFICES ASSUME Init PROVE RInv
  OBVIOUS
<1>1. TypeOK
  BY InitTypeOK
<1>2. QED
  BY <1>1 DEF Init, RInv, NoSampleBeforeLoop, LoopBound, NoVerdictBeforeEnd,
              AnalysisMatchesSpec

LEMMA NextRInv == RInv /\ [Next]_vars => RInv'
<1> SUFFICES ASSUME RInv, [Next]_vars
             PROVE  (NoSampleBeforeLoop /\ LoopBound /\ NoVerdictBeforeEnd
                       /\ AnalysisMatchesSpec)'
  BY NextTypeOK DEF RInv
<1>0. TypeOK /\ TypeOK'
  BY NextTypeOK DEF RInv
<1> USE DEF RInv, NoSampleBeforeLoop, LoopBound, NoVerdictBeforeEnd
<1>1. CASE WriteHeader
  BY <1>1 DEF WriteHeader, AnalysisMatchesSpec
<1>2. CASE Probe
  BY <1>0, <1>2 DEF Probe, AnalysisMatchesSpec, TypeOK
<1>3. CASE SampleOK
  BY <1>0, <1>3 DEF SampleOK, AnalysisMatchesSpec, TypeOK
<1>4. CASE SampleMissed
  BY <1>0, <1>4 DEF SampleMissed, AnalysisMatchesSpec, TypeOK
<1>5. CASE SampleWriteFails
  BY <1>0, <1>5 DEF SampleWriteFails, AnalysisMatchesSpec, TypeOK
<1>6. CASE Finish
  <2>1. pc' = "done" /\ snapshots' = snapshots /\ useProc' = useProc
    BY <1>6 DEF Finish
  <2>2. CASE Len(snapshots) >= 2
    <3> DEFINE first == snapshots[1]
               last == snapshots[Len(snapshots)]
    <3>1. first \in Samples /\ last \in Samples
      BY <1>0, <2>2 DEF TypeOK
    <3>2. first.mem \in Nat /\ last.mem \in Nat
      BY <3>1, MemAssumption DEF Samples
    <3>3. verdict' = SpecVerdict(first.mem, last.mem)
      BY <1>6, <2>2, <3>2, VerdictAgrees DEF Finish
    <3>4. oldWarn' = (SessionMode = "jstat" /\ last.oldgc > first.oldgc)
      BY <1>6, <2>2 DEF Finish, OldGenWarning, SessionMode
    <3>5. QED
      BY <2>1, <2>2, <3>3, <3>4 DEF AnalysisMatchesSpec, SessionMode
  <2>3. CASE ~(Len(snapshots) >= 2)
    BY <1>6, <2>1, <2>3 DEF Finish, AnalysisMatchesSpec
  <2>4. QED
    BY <2>2, <2>3
<1>7. CASE TargetNext
  BY <1>7 DEF TargetNext, TargetAllocates, TargetOldGC, JstatFlaps,
              TargetExits, toolVars, AnalysisMatchesSpec, SessionMode
<1>8. CASE UNCHANGED vars
  BY <1>8 DEF vars, targetVars, toolVars, AnalysisMatchesSpec, SessionMode
<1>9. QED
  BY <1>1, <1>2, <1>3, <1>4, <1>5, <1>6, <1>7, <1>8 DEF Next, ToolNext

\* Spec 4.3, 4.4 and 8 for every instance: when monitor_memory() has run
\* its analysis, the verdict is the spec's classification of the first
\* and last samples collected (none with fewer than two), and the old-gen
\* warning was printed exactly when the spec's detailed-mode test holds.
THEOREM AnalysisMatchesSpecHolds == Spec => []AnalysisMatchesSpec
BY InitRInv, NextRInv, PTL DEF Spec, RInv

\* A sample the code collects is a reading of the abstract session.
LEMMA SampleIsReading ==
    ASSUME NEW a \in Samples
    PROVE  a \in Session!Samples
BY DEF Samples, Session!Samples, Modes, Session!Modes

\* Spec 4.1, 4.3, 4.4 and 8 for every instance: every run of the
\* monitoring path, whatever the router does, is a session of
\* MonitorSession under the mapping SessionPhase, SessionMode, snapshots:
\* one mode, at most --count samples of it, and the spec's analysis.
\* (The fairness part of Session!Spec is checked by TLC only.)
THEOREM ImplementsSessionSafety == Spec => Session!SafeSpec
<1>1. Init => Session!Init
  BY DEF Init, Session!Init, SessionPhase, SessionMode, Session!Modes
<1>2. RInv /\ [Next]_vars => [Session!Next]_Session!vars
  <2> SUFFICES ASSUME RInv, [Next]_vars
               PROVE  [Session!Next]_Session!vars
    OBVIOUS
  <2>0. TypeOK /\ NoSampleBeforeLoop /\ LoopBound /\ NoVerdictBeforeEnd
    BY DEF RInv
  <2>1. CASE WriteHeader
    BY <2>1 DEF WriteHeader, Session!vars, SessionPhase, SessionMode
  <2>2. CASE Probe
    BY <2>2 DEF Probe, Session!Next, Session!Begin, SessionPhase, SessionMode,
                Session!Modes
  <2>3. CASE SampleOK
    <3>1. Acquire \in Samples /\ Acquire.mode = SessionMode
      BY <2>0, <2>3, AcquireType DEF SampleOK
    <3>2. Acquire \in Session!Samples
      BY <3>1, SampleIsReading
    <3>3. Len(snapshots) < Count
      BY <2>0, <2>3, CountAssumption DEF SampleOK, LoopBound, TypeOK
    <3>4. Session!Record
      BY <2>3, <3>1, <3>2, <3>3 DEF SampleOK, Session!Record, SessionPhase,
                                    SessionMode
    <3>5. QED
      BY <3>4 DEF Session!Next
  <2>4. CASE SampleMissed
    BY <2>4 DEF SampleMissed, Session!vars, SessionPhase, SessionMode
  <2>5. CASE SampleWriteFails
    <3>1. Acquire \in Samples /\ Acquire.mode = SessionMode
      BY <2>0, <2>5, AcquireType DEF SampleWriteFails
    <3>2. Acquire \in Session!Samples
      BY <3>1, SampleIsReading
    <3>3. Len(snapshots) < Count
      BY <2>0, <2>5, CountAssumption DEF SampleWriteFails, LoopBound, TypeOK
    <3>4. Session!Abort
      BY <2>5, <3>1, <3>2, <3>3 DEF SampleWriteFails, Session!Abort,
                                    SessionPhase, SessionMode
    <3>5. QED
      BY <3>4 DEF Session!Next
  <2>6. CASE Finish
    <3>1. SessionPhase = "sampling" /\ SessionPhase' = "done"
      BY <2>6 DEF Finish, SessionPhase
    <3>2. UNCHANGED <<SessionMode, snapshots>>
      BY <2>6 DEF Finish, SessionMode
    <3>3. CASE Len(snapshots) >= 2
      <4> DEFINE first == snapshots[1]
                 last == snapshots[Len(snapshots)]
      <4>0. first \in Samples /\ last \in Samples
        BY <2>0, <3>3 DEF TypeOK
      <4>1. first.mem \in Nat /\ last.mem \in Nat
        BY <4>0, MemAssumption DEF Samples
      <4>2. verdict' = Session!Classify(first.mem, last.mem)
        BY <2>6, <3>3, <4>1, VerdictAgrees, ClassifyIsSpecVerdict DEF Finish
      <4>3. oldWarn' = (SessionMode = "jstat" /\ last.oldgc > first.oldgc)
        BY <2>6, <3>3 DEF Finish, OldGenWarning, SessionMode
      <4>4. QED
        BY <3>1, <3>2, <3>3, <4>2, <4>3 DEF Session!Next, Session!Conclude
    <3>4. CASE ~(Len(snapshots) >= 2)
      BY <2>6, <3>1, <3>2, <3>4 DEF Finish, Session!Next, Session!Conclude
    <3>5. QED
      BY <3>3, <3>4
  <2>7. CASE TargetNext
    BY <2>7 DEF TargetNext, TargetAllocates, TargetOldGC, JstatFlaps,
                TargetExits, toolVars, Session!vars, SessionPhase, SessionMode
  <2>8. CASE UNCHANGED vars
    BY <2>8 DEF vars, targetVars, toolVars, Session!vars, SessionPhase,
                SessionMode
  <2>9. QED
    BY <2>1, <2>2, <2>3, <2>4, <2>5, <2>6, <2>7, <2>8 DEF Next, ToolNext
<1>3. QED
  BY InitRInv, NextRInv, <1>1, <1>2, PTL DEF Spec, Session!SafeSpec

\* Spec 4.1 and 9 for every instance: every sample monitor_memory() has
\* collected comes from the adapter the probe chose at start-up, whatever
\* jstat and the router do during the run.
THEOREM ModeNeverMixedHolds == Spec => []ModeNeverMixed
BY FileMirrorsSamplesHolds, PTL

=============================================================================

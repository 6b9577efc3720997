---------------------------- MODULE MonitorSession ----------------------------
(***************************************************************************)
(* What a monitoring session promises (spec 4.1, 4.3, 4.4, 8), with no     *)
(* adapters, no file and no target process: after a setup that settles     *)
(* on one acquisition mode, the session records at most Count readings,    *)
(* all of that mode, and either dies while recording one (a write error)  *)
(* or concludes with the spec's classification of its first and last     *)
(* readings, and with the old-generation warning when, in the detailed   *)
(* mode, the last reading counts more old collections than the first.  A *)
(* session with fewer than two readings concludes with no verdict.       *)
(***************************************************************************)
EXTENDS Naturals, Sequences

CONSTANTS
    Count,      \* the number of acquisition attempts
    MemVals,    \* the MB values a reading may have
    MaxGC       \* bound on the old-generation collection count of a reading

Modes == {"jstat", "proc"}
Samples == [mode : Modes, mem : MemVals, oldgc : 0..MaxGC]
Verdicts == {"none", "stable", "moderate", "significant"}

\* Spec 4.4: growthPct = growth / first * 100 (0 when first is 0); above 20
\* is a possible leak, above 10 moderate, anything else stable.
Classify(first, last) ==
    IF first = 0 THEN "stable"
    ELSE IF 5 * (last - first) > first THEN "significant"
    ELSE IF 10 * (last - first) > first THEN "moderate"
    ELSE "stable"

VARIABLES
    phase,      \* "setup", "sampling", "done", "aborted"
    mode,       \* the acquisition mode of the session
    taken,      \* the readings recorded, in order
    verdict,    \* the classification reported, "none" if none
    oldWarn     \* the old-generation warning was reported

vars == <<phase, mode, taken, verdict, oldWarn>>

Init ==
    /\ phase = "setup"
    /\ mode \in Modes
    /\ taken = <<>>
    /\ verdict = "none"
    /\ oldWarn = FALSE

\* The mode is settled once, before any reading.
Begin ==
    /\ phase = "setup"
    /\ phase' = "sampling"
    /\ mode' \in Modes
    /\ UNCHANGED <<taken, verdict, oldWarn>>

\* One reading of the session's mode, within the Count attempts.
Record ==
    /\ phase = "sampling"
    /\ Len(taken) < Count
    /\ \E s \in Samples : s.mode = mode /\ taken' = Append(taken, s)
    /\ UNCHANGED <<phase, mode, verdict, oldWarn>>

\* The session dies while recording a reading.
Abort ==
    /\ phase = "sampling"
    /\ Len(taken) < Count
    /\ \E s \in Samples : s.mode = mode /\ taken' = Append(taken, s)
    /\ phase' = "aborted"
    /\ UNCHANGED <<mode, verdict, oldWarn>>

\* The session ends with its analysis of the first and last readings.
Conclude ==
    /\ phase = "sampling"
    /\ phase' = "done"
    /\ IF Len(taken) >= 2
         THEN /\ verdict' = Classify(taken[1].mem, taken[Len(taken)].mem)
              /\ oldWarn' = (mode = "jstat" /\ taken[Len(taken)].oldgc > taken[1].oldgc)
         ELSE UNCHANGED <<verdict, oldWarn>>
    /\ UNCHANGED <<mode, taken>>

Next == Begin \/ Record \/ Abort \/ Conclude

\* The safety part: what may happen.
SafeSpec == Init /\ [][Next]_vars

\* A session does not stall: it keeps going until it has concluded or died.
Spec == SafeSpec /\ WF_vars(Next)

=============================================================================

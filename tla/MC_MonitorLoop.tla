---------------------------- MODULE MC_MonitorLoop ----------------------------
(* Small instances of MonitorLoop for TLC.                                 *)
EXTENDS MonitorLoop

\* Three iterations: enough for a missed middle sample between two good
\* ones, and for the first-vs-last comparison to skip a sample.
MC_Count == 3

\* 10 -> 12 is exactly 20% (moderate, the strict-threshold boundary),
\* 10 -> 13 is 30% (significant), 12 -> 13 is 8% (stable), 13 -> 10 is a
\* drop, and 0 is the first-reading-zero edge.
MC_MemVals == {0, 10, 12, 13}

MC_MaxGC == 1

\* One line left by an earlier run in the --output file.
MC_Prior == << [cols |-> 9, sample |-> Mark("earlier")] >>

=============================================================================

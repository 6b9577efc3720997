----------------------------- MODULE MC_GCLogScan -----------------------------
(* Small instances of GCLogScan for TLC.                                   *)
EXTENDS GCLogScan

MC_Times == {"1.5", "2.5"}

\* The line of the spec's example: Full GC and promotion failure at once,
\* with a timestamp and a transition as the JDK prints it.
FullPromo == [fullGC |-> TRUE, concurrent |-> FALSE, promotion |-> TRUE,
              allocation |-> FALSE, time |-> "1.5", heap |-> "plain",
              readable |-> TRUE]
\* An allocation failure with the transition shape the regex needs.
AllocChained == [fullGC |-> FALSE, concurrent |-> FALSE, promotion |-> FALSE,
                 allocation |-> TRUE, time |-> "2.5", heap |-> "chained",
                 readable |-> TRUE]
\* A concurrent mode failure inside a full GC, no timestamp.
FullConc == [fullGC |-> TRUE, concurrent |-> TRUE, promotion |-> FALSE,
             allocation |-> FALSE, time |-> NoTime, heap |-> "none",
             readable |-> TRUE]
Blank == [fullGC |-> FALSE, concurrent |-> FALSE, promotion |-> FALSE,
          allocation |-> FALSE, time |-> NoTime, heap |-> "none",
          readable |-> TRUE]
\* A line whose bytes cannot be decoded.
Garbled == [Blank EXCEPT !.readable = FALSE]

\* Every log of up to four such lines, a missing file and one that
\* cannot be opened.
MC_Logs ==
    {[exists |-> TRUE, openable |-> TRUE, lines |-> ls] :
        ls \in UNION {[1..n -> {FullPromo, AllocChained, FullConc, Blank, Garbled}] :
                         n \in 0..4}}
    \cup {[exists |-> FALSE, openable |-> FALSE, lines |-> <<>>],
          [exists |-> TRUE, openable |-> FALSE, lines |-> <<>>]}

=============================================================================

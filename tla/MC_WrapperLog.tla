----------------------------- MODULE MC_WrapperLog -----------------------------
(* Small instances of WrapperLog for TLC.                                  *)
EXTENDS WrapperLog

\* A line with neither marker, a memory warning, and an OutOfMemoryError
\* line (which is also a memory warning: 'java.lang.OutOfMemoryError'
\* contains 'memory' and 'error').
Plain == [oom |-> FALSE, warn |-> FALSE]
Warn == [oom |-> FALSE, warn |-> TRUE]
Oom == [oom |-> TRUE, warn |-> TRUE]

Missing == [exists |-> FALSE, readable |-> FALSE, lines |-> <<>>]
Unreadable == [exists |-> TRUE, readable |-> FALSE, lines |-> <<>>]
OneOom == [exists |-> TRUE, readable |-> TRUE, lines |-> <<Oom>>]

\* Seven lines: six OOM lines and more, so that the cut to the last five
\* drops some.
MC_MaxLines == 7

Logs == {[exists |-> TRUE, readable |-> TRUE, lines |-> ls] :
            ls \in UNION {[1..n -> {Plain, Warn, Oom}] : n \in 0..MC_MaxLines}}

\* The first two paths missing, unreadable or holding a short log; the
\* last one any log.
MC_FileSystems ==
    {<<a, b, c>> : a \in {Missing, Unreadable, OneOom}, b \in {Missing, OneOom},
                   c \in Logs \cup {Missing}}

=============================================================================

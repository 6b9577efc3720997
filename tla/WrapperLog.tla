------------------------------ MODULE WrapperLog ------------------------------
(***************************************************************************)
(* analyze_wrapper_log() of memory_leak_detector.py (lines 384-416): try   *)
(* the three candidate wrapper.log paths in order; read the first one     *)
(* that exists and can be read, collect its out-of-memory lines and its   *)
(* memory warning lines, and keep the last five of each.                  *)
(*                                                                         *)
(* A log line is abstracted to the two tests the loop makes of it: oom    *)
(* ('OutOfMemory' or 'java.lang.OutOfMemoryError' in it) and warn         *)
(* ('memory' and 'warning' or 'error' in it, case-insensitively).  A      *)
(* collected entry line.strip()[:100] is identified by the line's         *)
(* position; the cut to 100 characters is formatting no property reads.   *)
(***************************************************************************)
EXTENDS Naturals, Sequences, Positions

CONSTANT
    FileSystems     \* what the three candidate paths may hold

LineSet == [oom : BOOLEAN, warn : BOOLEAN]

\* A candidate path: whether os.path.exists() sees it, whether open() and
\* read() succeed, and the lines of its content.
Files == [exists : BOOLEAN, readable : BOOLEAN, lines : Seq(LineSet)]

\* ~/i2p/wrapper.log, ~/.i2p/wrapper.log and /var/log/i2p/wrapper.log.
ASSUME FileSystemsAssumption == FileSystems \subseteq [1..3 -> Files]

NoInfo == [none |-> TRUE]

\* Mutant: the first five kept instead of the last five.
FirstFive(lst) == IF Len(lst) <= 5 THEN lst ELSE SubSeq(lst, 1, 5)

\* Mutant: lst[-6:], one entry too many.
LastSix(lst) == IF Len(lst) <= 6 THEN lst ELSE SubSeq(lst, Len(lst) - 5, Len(lst))

\* lst[-5:]
LastFive(lst) == IF Len(lst) <= 5 THEN lst ELSE SubSeq(lst, Len(lst) - 4, Len(lst))

-----------------------------------------------------------------------------
VARIABLES
    fs,         \* the three candidate paths
    p,          \* the candidate the for loop is at (4 once all are tried)
    scanning,   \* TRUE while the lines of candidate p are being read
    li,         \* the next line of the content
    warnings,   \* mem_warnings
    ooms,       \* oom_events
    result      \* the return value; NoInfo before the return

vars == <<fs, p, scanning, li, warnings, ooms, result>>

Unset == [unset |-> TRUE]

Init ==
    /\ fs \in FileSystems
    /\ p = 1
    /\ scanning = FALSE
    /\ li = 1
    /\ warnings = <<>>
    /\ ooms = <<>>
    /\ result = Unset

file == fs[p]

\* Line 394: a path that does not exist is passed over.
SkipMissing ==
    /\ result = Unset /\ p <= 3 /\ ~scanning
    /\ ~file.exists
    /\ p' = p + 1
    /\ UNCHANGED <<fs, scanning, li, warnings, ooms, result>>

\* Lines 395-397 and 414-415: open() or read() raises (permission, a
\* file removed after the exists() test, bad encoding); the exception is
\* swallowed and the loop goes on to the next path.
ReadFails ==
    /\ result = Unset /\ p <= 3 /\ ~scanning
    /\ file.exists /\ ~file.readable
    /\ p' = p + 1
    /\ UNCHANGED <<fs, scanning, li, warnings, ooms, result>>

\* Lines 395-402: the content is read; the scan of its lines starts.
ReadOK ==
    /\ result = Unset /\ p <= 3 /\ ~scanning
    /\ file.exists /\ file.readable
    /\ scanning' = TRUE
    /\ li' = 1
    /\ warnings' = <<>>
    /\ ooms' = <<>>
    /\ UNCHANGED <<fs, p, result>>

\* Lines 403-407: one line, appended to either list or to both.
ScanLine ==
    /\ scanning /\ li <= Len(file.lines)
    /\ ooms' = IF file.lines[li].oom THEN Append(ooms, li) ELSE ooms
    /\ warnings' = IF file.lines[li].warn THEN Append(warnings, li) ELSE warnings
    /\ li' = li + 1
    /\ UNCHANGED <<fs, p, scanning, result>>

\* Lines 409-413: return the path and, if anything was found, the last
\* five of each list.
ReturnInfo ==
    /\ scanning /\ li > Len(file.lines)
    /\ result' =
          IF warnings # <<>> \/ ooms # <<>>
          THEN [path |-> p, found |-> TRUE,
                warnings |-> LastFive(warnings), oom_events |-> LastFive(ooms)]
          ELSE [path |-> p, found |-> FALSE, warnings |-> <<>>, oom_events |-> <<>>]
          \* (found = FALSE: the dict has no 'warnings' and 'oom_events' keys,
          \* which main() reads with get() as empty)
    /\ scanning' = FALSE
    /\ UNCHANGED <<fs, p, li, warnings, ooms>>

\* Line 416: no candidate could be read.
ReturnNone ==
    /\ result = Unset /\ p = 4
    /\ result' = NoInfo
    /\ UNCHANGED <<fs, p, scanning, li, warnings, ooms>>

Next == SkipMissing \/ ReadFails \/ ReadOK \/ ScanLine \/ ReturnInfo \/ ReturnNone

Spec == Init /\ [][Next]_vars

-----------------------------------------------------------------------------
(* Properties.                                                             *)

\* The type invariant.
TypeOK ==
    /\ fs \in [1..3 -> Files]
    /\ p \in 1..4
    /\ scanning \in BOOLEAN
    /\ li \in Nat
    /\ warnings \in Seq(Nat) /\ ooms \in Seq(Nat)
    /\ \/ result \in {Unset, NoInfo}
       \/ /\ result.path \in 1..3
          /\ result.warnings \in Seq(Nat) /\ Len(result.warnings) <= 5
          /\ result.oom_events \in Seq(Nat) /\ Len(result.oom_events) <= 5

\* The positions of the lines of a log that pass a test, in file order.
Matching(ls, test(_)) == Ordered({k \in 1..Len(ls) : test(ls[k])})

\* The last n elements of s (all of them when there are fewer), in order.
Recent(s, n) ==
    LET m == IF Len(s) < n THEN Len(s) ELSE n
    IN  [k \in 1..m |-> s[Len(s) - m + k]]

\* The spec's scanWrapperLog (4.4) for the candidates the code reads: the
\* result comes from the first path that exists and can be read, and holds
\* the most recent five OOM lines and the most recent five memory warning
\* lines of that file, in file order; None when no path can be read.
ResultIsTailOfFirstReadable ==
    result # Unset =>
       LET ok == {c \in 1..3 : fs[c].exists /\ fs[c].readable}
       IN  IF ok = {} THEN result = NoInfo
           ELSE LET c == CHOOSE c \in ok : \A d \in ok : c <= d
                    ls == fs[c].lines
                IN  /\ result # NoInfo
                    /\ result.path = c
                    /\ result.oom_events = Recent(Matching(ls, LAMBDA l : l.oom), 5)
                    /\ result.warnings = Recent(Matching(ls, LAMBDA l : l.warn), 5)

=============================================================================

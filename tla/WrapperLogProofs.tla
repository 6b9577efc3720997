--------------------------- MODULE WrapperLogProofs ---------------------------
(***************************************************************************)
(* Proofs about analyze_wrapper_log(): the result comes from the first    *)
(* candidate path that can be read and holds the last five OOM lines and  *)
(* the last five memory warning lines of that file, for every file system.*)
(***************************************************************************)
EXTENDS WrapperLog, PositionsProofs, SequenceTheorems, TLAPS

\* A candidate path the code reads.
Readable(c) == fs[c].exists /\ fs[c].readable

\* The positions among the first n lines of candidate c that pass each test.
OomsIn(c, n) == {k \in 1..n : fs[c].lines[k].oom}
WarnsIn(c, n) == {k \in 1..n : fs[c].lines[k].warn}

\* ResultIsTailOfFirstReadable with what it needs to be inductive: the
\* paths before p were passed over; while a file is scanned, the two lists
\* are its matching positions read so far, in file order; a result from a
\* file keeps the last five of each of its complete lists.
WInv ==
    /\ fs \in FileSystems
    /\ p \in 1..4 /\ scanning \in BOOLEAN /\ li \in Nat
    /\ warnings \in Seq(Nat) /\ ooms \in Seq(Nat)
    /\ \A c \in 1..p - 1 : ~Readable(c)
    /\ scanning =>
          /\ p \in 1..3 /\ Readable(p) /\ result = Unset
          /\ li \in 1..Len(fs[p].lines) + 1
          /\ ooms = Ordered(OomsIn(p, li - 1))
          /\ warnings = Ordered(WarnsIn(p, li - 1))
    /\ result = NoInfo => p = 4
    /\ result \notin {Unset, NoInfo} =>
          /\ ~scanning /\ p \in 1..3 /\ Readable(p)
          /\ result.path = p
          /\ Ordered(OomsIn(p, Len(fs[p].lines))) \in Seq(Nat)
          /\ Ordered(WarnsIn(p, Len(fs[p].lines))) \in Seq(Nat)
          /\ result.oom_events = LastFive(Ordered(OomsIn(p, Len(fs[p].lines))))
          /\ result.warnings = LastFive(Ordered(WarnsIn(p, Len(fs[p].lines))))
          /\ result.oom_events \in Seq(Nat) /\ Len(result.oom_events) <= 5
          /\ result.warnings \in Seq(Nat) /\ Len(result.warnings) <= 5

\* lst[-5:] is the most recent five elements, or all when there are fewer.
LEMMA LastFiveIsRecent ==
    ASSUME NEW S, NEW s \in Seq(S)
    PROVE  /\ LastFive(s) = Recent(s, 5)
           /\ LastFive(s) \in Seq(S) /\ Len(LastFive(s)) <= 5
<1> DEFINE L == Len(s)
<1>0. L \in Nat /\ s = [k \in 1..L |-> s[k]]
  OBVIOUS
<1>1. CASE L <= 5
  <2>1. Recent(s, 5) = [k \in 1..L |-> s[L - L + k]]
    BY <1>0, <1>1 DEF Recent
  <2>2. \A k \in 1..L : s[L - L + k] = s[k]
    BY <1>0
  <2>3. Recent(s, 5) = s
    BY <1>0, <2>1, <2>2
  <2>4. QED
    BY <1>1, <2>3 DEF LastFive
<1>2. CASE L > 5
  <2> DEFINE t == SubSeq(s, L - 4, L)
  <2>1. Recent(s, 5) = [k \in 1..5 |-> s[L - 5 + k]]
    BY <1>0, <1>2 DEF Recent
  <2>2. /\ t \in Seq(S) /\ Len(t) = 5
        /\ \A k \in 1..5 : t[k] = s[L - 5 + k]
    <3>1. \A i \in L - 4..L : s[i] \in S
      BY <1>0, <1>2
    <3>2. QED
      BY <1>0, <1>2, <3>1, SubSeqProperties
  <2>3. t \in [1..5 -> S]
    BY <2>2, LenProperties
  <2>4. t = Recent(s, 5)
    BY <2>1, <2>2, <2>3
  <2>5. QED
    BY <1>2, <2>2, <2>4 DEF LastFive
<1>3. QED
  BY <1>1, <1>2

\* Reading line n + 1 of candidate c appends n + 1 to the list of each test
\* it passes.
LEMMA ListsStep ==
    ASSUME NEW c, NEW n \in Nat
    PROVE  /\ Ordered(OomsIn(c, n + 1)) =
                 IF fs[c].lines[n + 1].oom THEN Append(Ordered(OomsIn(c, n)), n + 1)
                 ELSE Ordered(OomsIn(c, n))
           /\ Ordered(WarnsIn(c, n + 1)) =
                 IF fs[c].lines[n + 1].warn THEN Append(Ordered(WarnsIn(c, n)), n + 1)
                 ELSE Ordered(WarnsIn(c, n))
<1> DEFINE To == {k \in Nat : fs[c].lines[k].oom}
           Tw == {k \in Nat : fs[c].lines[k].warn}
<1>1. /\ OomsIn(c, n) = To \cap 1..n /\ OomsIn(c, n + 1) = To \cap 1..n + 1
      /\ WarnsIn(c, n) = Tw \cap 1..n /\ WarnsIn(c, n + 1) = Tw \cap 1..n + 1
      /\ (n + 1 \in To) <=> fs[c].lines[n + 1].oom
      /\ (n + 1 \in Tw) <=> fs[c].lines[n + 1].warn
  BY DEF OomsIn, WarnsIn
<1>2. Ordered(To \cap 1..n + 1) = IF n + 1 \in To THEN Append(Ordered(To \cap 1..n), n + 1)
                                 ELSE Ordered(To \cap 1..n)
  BY PrefixStep
<1>3. Ordered(Tw \cap 1..n + 1) = IF n + 1 \in Tw THEN Append(Ordered(Tw \cap 1..n), n + 1)
                                 ELSE Ordered(Tw \cap 1..n)
  BY PrefixStep
<1>4. QED
  BY <1>1, <1>2, <1>3

LEMMA InitWInv == Init => WInv
<1> SUFFICES ASSUME Init PROVE WInv
  OBVIOUS
<1>1. Unset # NoInfo
  <2>1. DOMAIN Unset = {"unset"} /\ DOMAIN NoInfo = {"none"}
    BY DEF Unset, NoInfo
  <2>2. QED
    BY <2>1
<1>2. warnings = << >> /\ ooms = << >> /\ p = 1 /\ li = 1 /\ scanning = FALSE /\ result = Unset
  BY DEF Init
<1>3. fs \in FileSystems
  BY DEF Init
<1>4. \A c \in 1..p - 1 : ~Readable(c)
  BY <1>2
<1>5. warnings \in Seq(Nat) /\ ooms \in Seq(Nat)
  BY <1>2
<1>6. result = NoInfo => p = 4
  BY <1>1, <1>2
<1>7. p \in 1..4 /\ scanning \in BOOLEAN /\ li \in Nat
  <2>1. p \in 1..4 /\ li \in Nat
    BY <1>2, SMT
  <2>2. scanning \in BOOLEAN
    BY <1>2, Zenon
  <2>3. QED
    BY <2>1, <2>2
<1>8. ~scanning /\ result \in {Unset, NoInfo}
  BY <1>2
<1>9. QED
  <2>1. /\ fs \in FileSystems
        /\ p \in 1..4 /\ scanning \in BOOLEAN /\ li \in Nat
        /\ warnings \in Seq(Nat) /\ ooms \in Seq(Nat)
        /\ \A c \in 1..p - 1 : ~Readable(c)
        /\ result = NoInfo => p = 4
    BY <1>3, <1>4, <1>5, <1>6, <1>7
  <2>2. QED
    BY <2>1, <1>8 DEF WInv

\* Every action of analyze_wrapper_log() keeps WInv.
LEMMA NextWInv == WInv /\ [Next]_vars => WInv'
<1> SUFFICES ASSUME WInv, [Next]_vars PROVE WInv'
  OBVIOUS
<1>0. /\ Unset # NoInfo
      /\ fs \in [1..3 -> Files]
      /\ p \in 1..4 /\ scanning \in BOOLEAN /\ li \in Nat
      /\ warnings \in Seq(Nat) /\ ooms \in Seq(Nat)
  <2>1. DOMAIN Unset = {"unset"} /\ DOMAIN NoInfo = {"none"}
    BY DEF Unset, NoInfo
  <2>2. QED
    BY <2>1, FileSystemsAssumption DEF WInv
<1>1. CASE SkipMissing \/ ReadFails
  <2>1. /\ result = Unset /\ p <= 3 /\ ~scanning /\ ~Readable(p)
        /\ p' = p + 1 /\ fs' = fs /\ scanning' = scanning /\ li' = li
        /\ warnings' = warnings /\ ooms' = ooms /\ result' = result
    BY <1>1 DEF SkipMissing, ReadFails, Readable, file
  <2>2. \A c \in 1..p' - 1 : ~Readable(c)'
    BY <2>1 DEF WInv, Readable
  <2>3. /\ p' \in 1..4 /\ scanning' \in BOOLEAN /\ li' \in Nat
        /\ warnings' \in Seq(Nat) /\ ooms' \in Seq(Nat)
        /\ fs' \in FileSystems
    BY <1>0, <2>1 DEF WInv
  <2>4. /\ ~scanning' /\ result' = Unset
    BY <2>1
  <2>5. QED
    BY <1>0, <2>2, <2>3, <2>4 DEF WInv
<1>2. CASE ReadOK
  <2>1. /\ result = Unset /\ p \in 1..3 /\ Readable(p)
        /\ scanning' = TRUE /\ li' = 1 /\ warnings' = << >> /\ ooms' = << >>
        /\ fs' = fs /\ p' = p /\ result' = result
    BY <1>0, <1>2 DEF ReadOK, Readable, file
  <2>2. OomsIn(p, 0) = {} /\ WarnsIn(p, 0) = {}
    BY DEF OomsIn, WarnsIn
  <2>3. ooms' = Ordered(OomsIn(p', li' - 1)) /\ warnings' = Ordered(WarnsIn(p', li' - 1))
    BY <2>1, <2>2, OrderedEmpty DEF OomsIn, WarnsIn
  <2>4. li' \in 1..Len(fs'[p'].lines) + 1
    <3>1. fs[p].lines \in Seq(LineSet)
      BY <1>0, <2>1 DEF Files
    <3>2. QED
      BY <2>1, <3>1, LenProperties
  <2>5. \A c \in 1..p' - 1 : ~Readable(c)'
    BY <2>1 DEF WInv, Readable
  <2>6. /\ p' \in 1..4 /\ scanning' \in BOOLEAN /\ li' \in Nat
        /\ warnings' \in Seq(Nat) /\ ooms' \in Seq(Nat)
        /\ fs' \in FileSystems /\ Readable(p')
    BY <1>0, <2>1 DEF WInv, Readable
  <2>7. QED
    BY <1>0, <2>1, <2>3, <2>4, <2>5, <2>6, Zenon DEF WInv, Readable, OomsIn, WarnsIn
<1>3. CASE ScanLine
  <2>1. /\ scanning /\ li <= Len(fs[p].lines)
        /\ ooms' = IF fs[p].lines[li].oom THEN Append(ooms, li) ELSE ooms
        /\ warnings' = IF fs[p].lines[li].warn THEN Append(warnings, li) ELSE warnings
        /\ li' = li + 1 /\ fs' = fs /\ p' = p /\ scanning' = scanning /\ result' = result
    BY <1>3 DEF ScanLine, file
  <2>2. /\ p \in 1..3 /\ Readable(p) /\ result = Unset
        /\ li \in 1..Len(fs[p].lines) + 1
        /\ ooms = Ordered(OomsIn(p, li - 1))
        /\ warnings = Ordered(WarnsIn(p, li - 1))
    BY <2>1 DEF WInv
  <2>3. li - 1 \in Nat /\ li - 1 + 1 = li
    BY <2>2
  <2>4. /\ ooms' = Ordered(OomsIn(p, li))
        /\ warnings' = Ordered(WarnsIn(p, li))
    <3>1. /\ Ordered(OomsIn(p, li - 1 + 1)) =
                IF fs[p].lines[li - 1 + 1].oom THEN Append(Ordered(OomsIn(p, li - 1)), li - 1 + 1)
                ELSE Ordered(OomsIn(p, li - 1))
          /\ Ordered(WarnsIn(p, li - 1 + 1)) =
                IF fs[p].lines[li - 1 + 1].warn THEN Append(Ordered(WarnsIn(p, li - 1)), li - 1 + 1)
                ELSE Ordered(WarnsIn(p, li - 1))
      BY <2>3, ListsStep
    <3>2. QED
      BY <2>1, <2>2, <2>3, <3>1
  <2>5. warnings' \in Seq(Nat) /\ ooms' \in Seq(Nat)
    BY <1>0, <2>1, <2>2, AppendProperties
  <2>6. \A c \in 1..p' - 1 : ~Readable(c)'
    BY <2>1 DEF WInv, Readable
  <2>7. /\ p' \in 1..4 /\ scanning' \in BOOLEAN /\ li' \in Nat
        /\ fs' \in FileSystems /\ Readable(p') /\ scanning'
        /\ li' \in 1..Len(fs'[p'].lines) + 1
        /\ ooms' = Ordered(OomsIn(p', li' - 1))
        /\ warnings' = Ordered(WarnsIn(p', li' - 1))
    <3>1. p' \in 1..4 /\ li' \in Nat /\ li' \in 1..Len(fs'[p'].lines) + 1
      BY <2>1, <2>2
    <3>2. scanning' /\ scanning' \in BOOLEAN
      BY <2>1, Zenon
    <3>3. fs' \in FileSystems /\ Readable(p')
      BY <2>1, <2>2 DEF WInv, Readable
    <3>4. OomsIn(p', li' - 1) = OomsIn(p, li) /\ WarnsIn(p', li' - 1) = WarnsIn(p, li)
      BY <2>1, <2>3 DEF OomsIn, WarnsIn
    <3>5. QED
      BY <2>4, <3>1, <3>2, <3>3, <3>4, Zenon
  <2>8. QED
    BY <1>0, <2>1, <2>2, <2>5, <2>6, <2>7, Zenon DEF WInv, Readable, OomsIn, WarnsIn
<1>4. CASE ReturnInfo
  <2> DEFINE n == Len(fs[p].lines)
  <2>1. /\ scanning /\ li > n
        /\ result' =
             IF warnings # << >> \/ ooms # << >>
             THEN [path |-> p, found |-> TRUE,
                   warnings |-> LastFive(warnings), oom_events |-> LastFive(ooms)]
             ELSE [path |-> p, found |-> FALSE, warnings |-> << >>, oom_events |-> << >>]
        /\ scanning' = FALSE
        /\ fs' = fs /\ p' = p /\ li' = li /\ warnings' = warnings /\ ooms' = ooms
    BY <1>4 DEF ReturnInfo, file
  <2>2. /\ p \in 1..3 /\ Readable(p) /\ result = Unset
        /\ li \in 1..n + 1
        /\ ooms = Ordered(OomsIn(p, li - 1))
        /\ warnings = Ordered(WarnsIn(p, li - 1))
    BY <2>1 DEF WInv
  <2>3. li - 1 = n
    BY <2>1, <2>2
  <2>4. /\ LastFive(ooms) \in Seq(Nat) /\ Len(LastFive(ooms)) <= 5
        /\ LastFive(warnings) \in Seq(Nat) /\ Len(LastFive(warnings)) <= 5
    BY <1>0, LastFiveIsRecent
  <2>5. LastFive(<< >>) = << >>
    BY DEF LastFive
  <2>6. /\ DOMAIN result' = {"path", "found", "warnings", "oom_events"}
        /\ result'.path = p
        /\ result'.oom_events = LastFive(ooms)
        /\ result'.warnings = LastFive(warnings)
    BY <2>1, <2>5
  <2>7. result' \notin {Unset, NoInfo}
    <3>1. DOMAIN Unset = {"unset"} /\ DOMAIN NoInfo = {"none"}
      BY DEF Unset, NoInfo
    <3>2. QED
      BY <2>6, <3>1
  <2>8. \A c \in 1..p' - 1 : ~Readable(c)'
    BY <2>1 DEF WInv, Readable
  <2>9. /\ p' \in 1..4 /\ scanning' \in BOOLEAN /\ li' \in Nat
        /\ warnings' \in Seq(Nat) /\ ooms' \in Seq(Nat)
        /\ fs' \in FileSystems /\ ~scanning'
        /\ p' \in 1..3
    BY <1>0, <2>1, <2>2 DEF WInv, Readable
  <2>10. /\ Ordered(OomsIn(p, Len(fs[p].lines)))' = ooms
         /\ Ordered(WarnsIn(p, Len(fs[p].lines)))' = warnings
         /\ Readable(p)'
    BY <2>1, <2>2, <2>3 DEF OomsIn, WarnsIn, Readable
  <2>11. (/\ result.path = p
          /\ Ordered(OomsIn(p, Len(fs[p].lines))) \in Seq(Nat)
          /\ Ordered(WarnsIn(p, Len(fs[p].lines))) \in Seq(Nat)
          /\ result.oom_events = LastFive(Ordered(OomsIn(p, Len(fs[p].lines))))
          /\ result.warnings = LastFive(Ordered(WarnsIn(p, Len(fs[p].lines))))
          /\ result.oom_events \in Seq(Nat) /\ Len(result.oom_events) <= 5
          /\ result.warnings \in Seq(Nat) /\ Len(result.warnings) <= 5)'
    BY <1>0, <2>1, <2>4, <2>6, <2>10, Zenon
  <2>12. QED
    BY <1>0, <2>7, <2>8, <2>9, <2>10, <2>11, Zenon DEF WInv
<1>5. CASE ReturnNone
  <2>1. /\ result = Unset /\ p = 4 /\ result' = NoInfo
        /\ fs' = fs /\ p' = p /\ scanning' = scanning /\ li' = li
        /\ warnings' = warnings /\ ooms' = ooms
    BY <1>5 DEF ReturnNone
  <2>2. ~scanning
    BY <2>1 DEF WInv
  <2>3. \A c \in 1..p' - 1 : ~Readable(c)'
    BY <2>1 DEF WInv, Readable
  <2>4. /\ p' \in 1..4 /\ scanning' \in BOOLEAN /\ li' \in Nat
        /\ warnings' \in Seq(Nat) /\ ooms' \in Seq(Nat)
        /\ fs' \in FileSystems /\ ~scanning'
    BY <1>0, <2>1, <2>2 DEF WInv
  <2>5. QED
    BY <1>0, <2>1, <2>3, <2>4 DEF WInv
<1>6. CASE UNCHANGED vars
  BY <1>6 DEF WInv, vars, Readable, OomsIn, WarnsIn
<1>7. QED
  BY <1>1, <1>2, <1>3, <1>4, <1>5, <1>6 DEF Next

\* WInv holds in every reachable state.
LEMMA WInvHolds == Spec => []WInv
BY InitWInv, NextWInv, PTL DEF Spec

\* The type invariant: the loop index stays within the three paths and the
\* returned lists hold at most five line positions each.
THEOREM TypeCorrect == Spec => []TypeOK
<1>1. WInv => TypeOK
  <2> SUFFICES ASSUME WInv PROVE TypeOK
    OBVIOUS
  <2>1. fs \in [1..3 -> Files]
    BY FileSystemsAssumption DEF WInv
  <2>2. \/ result \in {Unset, NoInfo}
        \/ /\ result.path \in 1..3
           /\ result.warnings \in Seq(Nat) /\ Len(result.warnings) <= 5
           /\ result.oom_events \in Seq(Nat) /\ Len(result.oom_events) <= 5
    BY DEF WInv
  <2>3. QED
    BY <2>1, <2>2 DEF WInv, TypeOK
<1>2. QED
  BY <1>1, WInvHolds, PTL

\* analyze_wrapper_log() returns the dict of the first candidate path that
\* exists and can be read, with the last five OOM lines and the last five
\* memory warning lines of that file in file order, and None only when no
\* path can be read: ResultIsTailOfFirstReadable for every file system.
THEOREM ResultIsTailOfFirstReadableHolds == Spec => []ResultIsTailOfFirstReadable
<1>1. WInv => ResultIsTailOfFirstReadable
  <2> SUFFICES ASSUME WInv, result # Unset
               PROVE  ResultIsTailOfFirstReadable
    BY DEF ResultIsTailOfFirstReadable
  <2> DEFINE ok == {c \in 1..3 : fs[c].exists /\ fs[c].readable}
  <2>0. /\ fs \in [1..3 -> Files]
        /\ p \in 1..4
        /\ \A c \in 1..p - 1 : ~Readable(c)
    BY FileSystemsAssumption DEF WInv
  <2>1. CASE result = NoInfo
    <3>1. p = 4
      BY <2>1 DEF WInv
    <3>2. ok = {}
      BY <2>0, <3>1 DEF Readable
    <3>3. QED
      BY <2>1, <3>2 DEF ResultIsTailOfFirstReadable
  <2>2. CASE result # NoInfo
    <3> DEFINE ls == fs[p].lines
    <3>1. /\ p \in 1..3 /\ Readable(p)
          /\ result.path = p
          /\ Ordered(OomsIn(p, Len(ls))) \in Seq(Nat)
          /\ Ordered(WarnsIn(p, Len(ls))) \in Seq(Nat)
          /\ result.oom_events = LastFive(Ordered(OomsIn(p, Len(ls))))
          /\ result.warnings = LastFive(Ordered(WarnsIn(p, Len(ls))))
      BY <2>2 DEF WInv
    <3>2. p \in ok /\ \A d \in ok : p <= d
      BY <2>0, <3>1 DEF Readable
    <3>3. (CHOOSE c \in ok : \A d \in ok : c <= d) = p
      <4>1. \A c : (c \in ok /\ \A d \in ok : c <= d) <=> c = p
        <5> SUFFICES ASSUME NEW c PROVE (c \in ok /\ \A d \in ok : c <= d) <=> c = p
          OBVIOUS
        <5>1. CASE c \in ok /\ \A d \in ok : c <= d
          BY <3>2, <5>1
        <5>2. CASE ~(c \in ok /\ \A d \in ok : c <= d)
          BY <3>2, <5>2
        <5>3. QED
          BY <5>1, <5>2
      <4>2. QED
        BY <4>1, Zenon
    <3>4. /\ Matching(ls, LAMBDA l : l.oom) = Ordered(OomsIn(p, Len(ls)))
          /\ Matching(ls, LAMBDA l : l.warn) = Ordered(WarnsIn(p, Len(ls)))
      BY DEF Matching, OomsIn, WarnsIn
    <3>5. /\ LastFive(Ordered(OomsIn(p, Len(ls)))) = Recent(Ordered(OomsIn(p, Len(ls))), 5)
          /\ LastFive(Ordered(WarnsIn(p, Len(ls)))) = Recent(Ordered(WarnsIn(p, Len(ls))), 5)
      BY <3>1, LastFiveIsRecent
    <3>6. ok # {}
      BY <3>2
    <3>7. QED
      BY <2>2, <3>1, <3>3, <3>4, <3>5, <3>6, Zenon DEF ResultIsTailOfFirstReadable
  <2>3. QED
    BY <2>1, <2>2
<1>2. QED
  BY <1>1, WInvHolds, PTL
=============================================================================

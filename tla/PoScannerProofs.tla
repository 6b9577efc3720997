--------------------------- MODULE PoScannerProofs ---------------------------
(***************************************************************************)
(* Proofs about extract_untranslated(): for every PO file of at most      *)
(* MaxLines lines, the scan reports exactly the entries whose msgstr line *)
(* is `msgstr ""`, in file order, each with its msgid lines.              *)
(***************************************************************************)
EXTENDS PoScanner, SequenceTheorems, TLAPS

\* Line j is a msgid line followed by continuation lines up to line n: the
\* start of an entry whose msgstr line may be line n + 1.
Pending(j, n) ==
    /\ lines[j].kind = "msgid"
    /\ \A m \in j + 1..n : lines[m].kind = "quote"

\* The entries among the first n lines whose msgstr line is `msgstr ""`.
EmptyUpTo(n) ==
    {j \in 1..Len(lines) : \E k \in 1..n : EntryAt(j, k) /\ lines[k].text = EmptyStr}

\* The reports the result list holds.
Reports == [full : Seq(Lines), line : Nat, content : Seq(Texts)]

\* While in_msgid is set, current_line is the 0-based number of the
\* pending msgid line, current_msgid is a string, and msgid_lines holds the
\* lines from the msgid line to the last one read.
InMsgidInv ==
    inMsgid =>
       /\ currentLine + 1 \in 1..i - 1
       /\ Pending(currentLine + 1, i - 1)
       /\ currentMsgid \in Texts
       /\ msgidLines = SubSeq(lines, currentLine + 1, i - 1)

\* While in_msgid is clear, no entry is pending.
IdleInv == ~inMsgid => \A j \in 1..i - 1 : ~Pending(j, i - 1)

\* ScanMatchesEntries with what makes it inductive.
PInv == TypeOK /\ ScanMatchesEntries /\ InMsgidInv /\ IdleInv

\* A file is a sequence of at most MaxLines lines.
LEMMA FilesAreSeqs ==
    ASSUME NEW f \in Files
    PROVE  f \in Seq(Lines) /\ Len(f) \in 0..MaxLines
<1>1. PICK n \in 0..MaxLines : f \in [1..n -> Lines]
  BY DEF Files
<1>2. n \in Nat
  BY MaxLinesAssumption
<1>3. f \in Seq(Lines)
  BY <1>1, <1>2, SeqDef
<1>4. Len(f) = n
  BY <1>1, <1>2, <1>3, LenProperties
<1>5. QED
  BY <1>1, <1>3, <1>4

\* The msgid lines of an entry that has just started.
LEMMA SubSeqSingle ==
    ASSUME NEW S, NEW s \in Seq(S), NEW a \in 1..Len(s)
    PROVE  SubSeq(s, a, a) = <<s[a]>>
<1>1. \A k \in a..a : s[k] \in S
  BY LenProperties
<1>2. /\ SubSeq(s, a, a) \in Seq(S) /\ Len(SubSeq(s, a, a)) = 1
      /\ SubSeq(s, a, a)[1] = s[a]
  BY <1>1, SubSeqProperties
<1>3. <<s[a]>> \in Seq(S) /\ Len(<<s[a]>>) = 1 /\ <<s[a]>>[1] = s[a]
  BY <1>1
<1>4. \A k \in 1..Len(SubSeq(s, a, a)) : SubSeq(s, a, a)[k] = <<s[a]>>[k]
  BY <1>2, <1>3
<1>5. QED
  BY <1>2, <1>3, <1>4, SeqEqual

\* The msgid lines grown by one continuation line.
LEMMA SubSeqAppend ==
    ASSUME NEW S, NEW s \in Seq(S), NEW a \in 1..Len(s), NEW b \in a - 1..Len(s) - 1
    PROVE  Append(SubSeq(s, a, b), s[b + 1]) = SubSeq(s, a, b + 1)
<1>1. /\ \A k \in a..b : s[k] \in S
      /\ \A k \in a..b + 1 : s[k] \in S
      /\ s[b + 1] \in S
  BY LenProperties
<1>2. /\ SubSeq(s, a, b) \in Seq(S) /\ Len(SubSeq(s, a, b)) = b - a + 1
      /\ \A k \in 1..b - a + 1 : SubSeq(s, a, b)[k] = s[a + k - 1]
  BY <1>1, SubSeqProperties
<1>3. /\ SubSeq(s, a, b + 1) \in Seq(S) /\ Len(SubSeq(s, a, b + 1)) = b - a + 2
      /\ \A k \in 1..b - a + 2 : SubSeq(s, a, b + 1)[k] = s[a + k - 1]
  BY <1>1, SubSeqProperties
<1> DEFINE t == Append(SubSeq(s, a, b), s[b + 1])
<1>4. /\ t \in Seq(S) /\ Len(t) = b - a + 2
      /\ \A k \in 1..b - a + 1 : t[k] = s[a + k - 1]
      /\ t[b - a + 2] = s[b + 1]
  BY <1>1, <1>2, AppendProperties
<1>5. \A k \in 1..b - a + 2 : t[k] = SubSeq(s, a, b + 1)[k]
  BY <1>3, <1>4
<1>6. QED
  BY <1>3, <1>4, <1>5, SeqEqual

\* At most one entry is pending at a line: a later msgid line would have
\* to be a continuation line of the earlier one.
LEMMA PendingUnique ==
    ASSUME NEW n \in Nat, NEW j \in 1..n, NEW j0 \in 1..n,
           Pending(j, n), Pending(j0, n)
    PROVE  j = j0
<1>1. ~(j < j0)
  BY DEF Pending
<1>2. ~(j0 < j)
  BY DEF Pending
<1>3. QED
  BY <1>1, <1>2

\* Reading line n + 1 adds the entries it is the `msgstr ""` line of.
LEMMA EmptyStep ==
    ASSUME NEW n \in Nat
    PROVE  EmptyUpTo(n + 1) =
              EmptyUpTo(n) \cup
              {j \in 1..Len(lines) : EntryAt(j, n + 1) /\ lines[n + 1].text = EmptyStr}
<1>1. \A k : k \in 1..n + 1 <=> k \in 1..n \/ k = n + 1
  OBVIOUS
<1>2. QED
  BY <1>1 DEF EmptyUpTo

\* The third element of a report is a list of strings.
LEMMA ReportType ==
    ASSUME NEW ml \in Seq(Lines), NEW cur \in Texts, NEW at \in Nat
    PROVE  Report(ml, cur, at) \in Reports
<1>1. Content(ml, cur) \in Seq(Texts)
  <2>1. CASE Len(ml) > 2
    <3>1. \A n \in 1..Len(ml) - 2 : ml[n + 1].text \in Texts
      <4>1. \A n \in 1..Len(ml) - 2 : ml[n + 1] \in Lines
        BY <2>1, ElementOfSeq
      <4>2. \A x \in Lines : x.text \in Texts
        BY DEF Lines
      <4>3. QED
        BY <4>1, <4>2
    <3>2. Len(ml) - 2 \in Nat
      BY <2>1, LenProperties
    <3>3. Content(ml, cur) \in [1..Len(ml) - 2 -> Texts]
      BY <2>1, <3>1 DEF Content
    <3>4. QED
      BY <3>2, <3>3, SeqDef
  <2>2. CASE ~(Len(ml) > 2)
    BY <2>2 DEF Content
  <2>3. QED
    BY <2>1, <2>2
<1>2. QED
  BY <1>1 DEF Report, Reports

\* The result list of the scan, in the form TypeOK gives its type.
LEMMA ReportsIsTypeOKSet ==
    Reports = [full : Seq(Lines), line : Nat, content : Seq(Texts)]
BY DEF Reports

\* Before the loop, nothing is read and nothing reported.
LEMMA InitPInv == Init => PInv
<1> SUFFICES ASSUME Init PROVE PInv
  OBVIOUS
<1>1. /\ lines \in Files /\ i = 1 /\ inMsgid = FALSE /\ currentMsgid = NoMsgid
      /\ currentLine = 0 /\ msgidLines = << >> /\ untranslated = << >>
  BY DEF Init
<1>2. lines \in Seq(Lines) /\ Len(lines) \in Nat
  BY <1>1, FilesAreSeqs, MaxLinesAssumption
<1>3. /\ i \in 1..Len(lines) + 1 /\ currentLine \in Nat
      /\ currentMsgid \in Texts \cup {NoMsgid}
      /\ msgidLines \in Seq(Lines)
      /\ untranslated \in Seq(Reports)
  BY <1>1, <1>2
<1>4. inMsgid \in BOOLEAN /\ ~inMsgid
  BY <1>1, Zenon
<1>5. TypeOK
  BY <1>1, <1>3, <1>4, ReportsIsTypeOKSet DEF TypeOK
<1>6. EmptyMsgstrSoFar = {} /\ DOMAIN untranslated = {}
  BY <1>1 DEF EmptyMsgstrSoFar
<1>7. ScanMatchesEntries
  BY <1>6 DEF ScanMatchesEntries
<1>8. IdleInv /\ InMsgidInv
  BY <1>1, <1>4 DEF IdleInv, InMsgidInv
<1>9. QED
  BY <1>5, <1>7, <1>8 DEF PInv

\* A line that is no entry's msgstr line reports nothing new: it is not a
\* msgstr line, or no entry is pending before it.
LEMMA NoNewEntry ==
    ASSUME NEW n \in Nat, n + 1 <= Len(lines),
           lines[n + 1].kind # "msgstr" \/ \A j \in 1..n : ~Pending(j, n)
    PROVE  EmptyUpTo(n + 1) = EmptyUpTo(n)
<1>1. \A j \in 1..Len(lines) : ~EntryAt(j, n + 1)
  <2> SUFFICES ASSUME NEW j \in 1..Len(lines), EntryAt(j, n + 1) PROVE FALSE
    OBVIOUS
  <2>1. 1 <= j /\ j < n + 1 /\ Pending(j, n) /\ lines[n + 1].kind = "msgstr"
    BY DEF EntryAt, Pending
  <2>2. j \in 1..n
    BY <2>1
  <2>3. QED
    BY <2>1, <2>2
<1>2. QED
  BY <1>1, EmptyStep

\* A `msgstr ""` line after the pending msgid line j0 reports entry j0.
LEMMA NewEntry ==
    ASSUME NEW n \in Nat, n + 1 <= Len(lines),
           lines[n + 1].kind = "msgstr", lines[n + 1].text = EmptyStr,
           NEW j0 \in 1..n, Pending(j0, n)
    PROVE  /\ EntryAt(j0, n + 1)
           /\ EmptyUpTo(n + 1) = EmptyUpTo(n) \cup {j0}
<1>1. EntryAt(j0, n + 1)
  <2>1. 1 <= j0 /\ j0 < n + 1 /\ n + 1 <= Len(lines)
    OBVIOUS
  <2>2. \A m \in j0 + 1..(n + 1) - 1 : lines[m].kind = "quote"
    <3>1. \A m \in j0 + 1..(n + 1) - 1 : m \in j0 + 1..n
      OBVIOUS
    <3>2. QED
      BY <3>1 DEF Pending
  <2>3. lines[j0].kind = "msgid"
    BY DEF Pending
  <2>4. QED
    BY <2>1, <2>2, <2>3 DEF EntryAt
<1>2. \A j \in 1..Len(lines) : EntryAt(j, n + 1) <=> j = j0
  <2> SUFFICES ASSUME NEW j \in 1..Len(lines), EntryAt(j, n + 1) PROVE j = j0
    BY <1>1
  <2>1. j \in 1..n /\ Pending(j, n)
    BY DEF EntryAt, Pending
  <2>2. QED
    BY <2>1, PendingUnique
<1>3. j0 \in 1..Len(lines)
  OBVIOUS
<1>4. QED
  BY <1>1, <1>2, <1>3, EmptyStep

\* The set ScanMatchesEntries compares the reports with, before and after
\* a step of the loop.
LEMMA EmptySoFarStep ==
    ASSUME i \in Nat, lines' = lines, i' = i + 1
    PROVE  /\ EmptyMsgstrSoFar = EmptyUpTo(i - 1)
           /\ EmptyMsgstrSoFar' = EmptyUpTo(i)
<1>1. EmptyMsgstrSoFar = EmptyUpTo(i - 1)
  BY DEF EmptyMsgstrSoFar, EmptyUpTo
<1>2. EmptyMsgstrSoFar' = EmptyUpTo(i)
  BY DEF EmptyMsgstrSoFar, EmptyUpTo, EntryAt
<1>3. QED
  BY <1>1, <1>2

\* What a step of the loop body may use of the state it starts from.
LEMMA StepFacts ==
    ASSUME PInv, i <= Len(lines)
    PROVE  /\ lines \in Seq(Lines) /\ Len(lines) \in Nat
           /\ i \in 1..Len(lines) /\ i - 1 \in Nat
           /\ lines[i] \in Lines /\ lines[i].text \in Texts
           /\ untranslated \in Seq(Reports) /\ msgidLines \in Seq(Lines)
           /\ currentLine \in Nat /\ inMsgid \in BOOLEAN
<1>1. TypeOK
  BY DEF PInv
<1>2. lines \in Seq(Lines) /\ Len(lines) \in Nat
  BY <1>1, FilesAreSeqs DEF TypeOK
<1>3. lines[i] \in Lines
  BY <1>1, <1>2, ElementOfSeq DEF TypeOK
<1>4. QED
  BY <1>1, <1>2, <1>3, ReportsIsTypeOKSet DEF TypeOK, Lines

\* A step that reports nothing and reads no entry's `msgstr ""` line keeps
\* ScanMatchesEntries.
LEMMA KeepReports ==
    ASSUME PInv, i \in Nat, lines' = lines, i' = i + 1,
           untranslated' = untranslated, EmptyUpTo(i) = EmptyUpTo(i - 1)
    PROVE  ScanMatchesEntries'
<1>1. EmptyMsgstrSoFar' = EmptyMsgstrSoFar
  BY EmptySoFarStep
<1>2. ScanMatchesEntries
  BY DEF PInv
<1>3. QED
  BY <1>1, <1>2 DEF ScanMatchesEntries, EntryAt

\* Lines 23-30: a msgid line makes itself the pending entry.
LEMMA MsgidLinePInv == PInv /\ MsgidLine => PInv'
<1> SUFFICES ASSUME PInv, MsgidLine PROVE PInv'
  OBVIOUS
<1>1. /\ i <= Len(lines) /\ lines[i].kind = "msgid"
      /\ currentMsgid' = lines[i].text /\ currentLine' = i - 1
      /\ msgidLines' = <<lines[i]>> /\ inMsgid' = TRUE /\ i' = i + 1
      /\ lines' = lines /\ untranslated' = untranslated
  BY DEF MsgidLine, line
<1>2. /\ lines \in Seq(Lines) /\ Len(lines) \in Nat
      /\ i \in 1..Len(lines) /\ i - 1 \in Nat
      /\ lines[i] \in Lines /\ lines[i].text \in Texts
      /\ untranslated \in Seq(Reports)
  BY <1>1, StepFacts
<1>3. EmptyUpTo(i) = EmptyUpTo(i - 1)
  <2>1. EmptyUpTo(i - 1 + 1) = EmptyUpTo(i - 1)
    BY <1>1, <1>2, NoNewEntry
  <2>2. QED
    BY <2>1, <1>2
<1>4. ScanMatchesEntries'
  BY <1>1, <1>2, <1>3, KeepReports
<1>5. TypeOK'
  <2>1. /\ lines' \in Files /\ untranslated' \in Seq(Reports)
    BY <1>1, <1>2 DEF PInv, TypeOK
  <2>2. /\ i' \in 1..Len(lines') + 1 /\ currentLine' \in Nat
        /\ currentMsgid' \in Texts \cup {NoMsgid}
        /\ msgidLines' \in Seq(Lines)
    BY <1>1, <1>2
  <2>3. inMsgid' \in BOOLEAN
    BY <1>1, Zenon
  <2>4. QED
    BY <2>1, <2>2, <2>3, ReportsIsTypeOKSet DEF TypeOK
<1>6. InMsgidInv'
  <2>1. /\ currentLine' + 1 = i /\ i \in 1..i' - 1
        /\ currentMsgid' \in Texts
    BY <1>1, <1>2
  <2>2. Pending(i, i)
    BY <1>1, <1>2 DEF Pending
  <2>3. msgidLines' = SubSeq(lines, i, i)
    BY <1>1, <1>2, SubSeqSingle
  <2>4. i' - 1 = i
    BY <1>1, <1>2
  <2>5. QED
    BY <1>1, <2>1, <2>2, <2>3, <2>4 DEF InMsgidInv, Pending
<1>7. IdleInv'
  BY <1>1, Zenon DEF IdleInv
<1>8. QED
  BY <1>4, <1>5, <1>6, <1>7 DEF PInv

\* Lines 40-41: a continuation line extends the pending entry.
LEMMA ContinuationLinePInv == PInv /\ ContinuationLine => PInv'
<1> SUFFICES ASSUME PInv, ContinuationLine PROVE PInv'
  OBVIOUS
<1>1. /\ i <= Len(lines) /\ inMsgid /\ lines[i].kind = "quote"
      /\ msgidLines' = Append(msgidLines, lines[i]) /\ i' = i + 1
      /\ lines' = lines /\ inMsgid' = inMsgid /\ currentMsgid' = currentMsgid
      /\ currentLine' = currentLine /\ untranslated' = untranslated
  BY DEF ContinuationLine, line
<1>2. /\ lines \in Seq(Lines) /\ Len(lines) \in Nat
      /\ i \in 1..Len(lines) /\ i - 1 \in Nat
      /\ lines[i] \in Lines
      /\ untranslated \in Seq(Reports) /\ msgidLines \in Seq(Lines)
      /\ currentLine \in Nat
  BY <1>1, StepFacts
<1>3. /\ currentLine + 1 \in 1..i - 1
      /\ Pending(currentLine + 1, i - 1)
      /\ currentMsgid \in Texts
      /\ msgidLines = SubSeq(lines, currentLine + 1, i - 1)
  BY <1>1 DEF PInv, InMsgidInv
<1>4. EmptyUpTo(i) = EmptyUpTo(i - 1)
  <2>1. EmptyUpTo(i - 1 + 1) = EmptyUpTo(i - 1)
    BY <1>1, <1>2, NoNewEntry
  <2>2. QED
    BY <2>1, <1>2
<1>5. ScanMatchesEntries'
  BY <1>1, <1>2, <1>4, KeepReports
<1>6. TypeOK'
  <2>1. /\ lines' \in Files /\ untranslated' \in Seq(Reports)
        /\ currentMsgid' \in Texts \cup {NoMsgid}
    BY <1>1, <1>2, <1>3 DEF PInv, TypeOK
  <2>2. /\ i' \in 1..Len(lines') + 1 /\ currentLine' \in Nat
        /\ msgidLines' \in Seq(Lines)
    BY <1>1, <1>2, AppendProperties
  <2>3. inMsgid' \in BOOLEAN
    BY <1>1, Zenon
  <2>4. QED
    BY <2>1, <2>2, <2>3, ReportsIsTypeOKSet DEF TypeOK
<1>7. InMsgidInv'
  <2> DEFINE j0 == currentLine + 1
  <2>1. j0 \in 1..i' - 1 /\ i' - 1 = i
    BY <1>1, <1>2, <1>3
  <2>2. Pending(j0, i)
    <3>1. \A m \in j0 + 1..i : m \in j0 + 1..i - 1 \/ m = i
      BY <1>2, <1>3
    <3>2. \A m \in j0 + 1..i - 1 : lines[m].kind = "quote"
      BY <1>3 DEF Pending
    <3>3. lines[j0].kind = "msgid"
      BY <1>3 DEF Pending
    <3>4. QED
      BY <1>1, <3>1, <3>2, <3>3 DEF Pending
  <2>3. msgidLines' = SubSeq(lines, j0, i)
    <3>1. j0 \in 1..Len(lines) /\ i - 1 \in j0 - 1..Len(lines) - 1 /\ i - 1 + 1 = i
      BY <1>2, <1>3
    <3>2. Append(SubSeq(lines, j0, i - 1), lines[i - 1 + 1]) = SubSeq(lines, j0, i - 1 + 1)
      BY <1>2, <3>1, SubSeqAppend
    <3>3. QED
      BY <1>1, <1>3, <3>1, <3>2
  <2>4. QED
    BY <1>1, <1>3, <2>1, <2>2, <2>3 DEF InMsgidInv, Pending
<1>8. IdleInv'
  BY <1>1, Zenon DEF IdleInv
<1>9. QED
  BY <1>5, <1>6, <1>7, <1>8 DEF PInv

\* Lines 42-43: any other line ends the msgid, so no entry is pending after
\* it.
LEMMA OtherLinePInv == PInv /\ OtherLine => PInv'
<1> SUFFICES ASSUME PInv, OtherLine PROVE PInv'
  OBVIOUS
<1>1. /\ i <= Len(lines) /\ lines[i].kind # "msgid"
      /\ ~(lines[i].kind = "msgstr" /\ inMsgid)
      /\ ~(lines[i].kind = "quote" /\ inMsgid)
      /\ inMsgid' = FALSE /\ i' = i + 1 /\ lines' = lines
      /\ currentMsgid' = currentMsgid /\ currentLine' = currentLine
      /\ msgidLines' = msgidLines /\ untranslated' = untranslated
  BY DEF OtherLine, line
<1>2. /\ lines \in Seq(Lines) /\ Len(lines) \in Nat
      /\ i \in 1..Len(lines) /\ i - 1 \in Nat
      /\ untranslated \in Seq(Reports) /\ msgidLines \in Seq(Lines)
      /\ currentLine \in Nat
  BY <1>1, StepFacts
<1>3. ~inMsgid => \A j \in 1..i - 1 : ~Pending(j, i - 1)
  BY DEF PInv, IdleInv
<1>4. EmptyUpTo(i) = EmptyUpTo(i - 1)
  <2>1. lines[i - 1 + 1].kind # "msgstr" \/ \A j \in 1..i - 1 : ~Pending(j, i - 1)
    BY <1>1, <1>2, <1>3
  <2>2. EmptyUpTo(i - 1 + 1) = EmptyUpTo(i - 1)
    BY <1>1, <1>2, <2>1, NoNewEntry
  <2>3. QED
    BY <2>2, <1>2
<1>5. ScanMatchesEntries'
  BY <1>1, <1>2, <1>4, KeepReports
<1>6. TypeOK'
  <2>1. /\ lines' \in Files /\ untranslated' \in Seq(Reports)
        /\ currentMsgid' \in Texts \cup {NoMsgid}
    BY <1>1, <1>2, ReportsIsTypeOKSet DEF PInv, TypeOK
  <2>2. /\ i' \in 1..Len(lines') + 1 /\ currentLine' \in Nat
        /\ msgidLines' \in Seq(Lines)
    BY <1>1, <1>2
  <2>3. inMsgid' \in BOOLEAN
    BY <1>1, Zenon
  <2>4. QED
    BY <2>1, <2>2, <2>3, ReportsIsTypeOKSet DEF TypeOK
<1>7. InMsgidInv'
  BY <1>1, Zenon DEF InMsgidInv
<1>8. \A j \in 1..i : ~Pending(j, i)
  <2> SUFFICES ASSUME NEW j \in 1..i, Pending(j, i) PROVE FALSE
    OBVIOUS
  <2>1. CASE j = i
    BY <1>1, <2>1 DEF Pending
  <2>2. CASE j < i
    <3>1. Pending(j, i - 1) /\ lines[i].kind = "quote"
      BY <1>2, <2>2 DEF Pending
    <3>2. j \in 1..i - 1
      BY <1>2, <2>2
    <3>3. QED
      BY <1>1, <1>3, <3>1, <3>2
  <2>3. QED
    BY <1>2, <2>1, <2>2
<1>9. (\A j \in 1..i - 1 : ~Pending(j, i - 1))'
  BY <1>1, <1>2, <1>8 DEF Pending
<1>10. IdleInv'
  BY <1>9, Zenon DEF IdleInv
<1>11. QED
  BY <1>5, <1>6, <1>7, <1>10 DEF PInv

\* Every entry reported so far ends before the pending msgid line: its
\* msgstr line can be neither that msgid line nor one of the continuation
\* lines after it.
LEMMA ReportedBefore ==
    ASSUME PInv, inMsgid
    PROVE  \A n \in DOMAIN untranslated : untranslated[n].line < currentLine
<1> DEFINE j0 == currentLine + 1
<1>1. /\ j0 \in 1..i - 1 /\ Pending(j0, i - 1)
      /\ currentLine \in Nat /\ i \in Nat
      /\ untranslated \in Seq(Reports)
  BY ReportsIsTypeOKSet DEF PInv, InMsgidInv, TypeOK
<1> SUFFICES ASSUME NEW n \in DOMAIN untranslated
             PROVE  untranslated[n].line < currentLine
  OBVIOUS
<1> DEFINE jn == untranslated[n].line + 1
<1>2. untranslated[n].line \in Nat
  <2>1. untranslated[n] \in Reports
    BY <1>1, ElementOfSeq, LenProperties
  <2>2. QED
    BY <2>1 DEF Reports
<1>3. jn \in EmptyMsgstrSoFar
  BY DEF PInv, ScanMatchesEntries
<1>4. PICK k \in 1..i - 1 : EntryAt(jn, k)
  BY <1>3 DEF EmptyMsgstrSoFar
<1>5. jn < k /\ lines[k].kind = "msgstr"
  BY <1>4 DEF EntryAt
<1>6. k < j0
  <2>1. k # j0
    BY <1>1, <1>5 DEF Pending
  <2>2. ~(k \in j0 + 1..i - 1)
    BY <1>1, <1>5 DEF Pending
  <2>3. QED
    BY <1>1, <2>1, <2>2
<1>7. QED
  BY <1>1, <1>2, <1>5, <1>6

\* Lines 31-39: the msgstr line of the pending entry reports the entry
\* when it is `msgstr ""`, and ends the msgid either way.
LEMMA MsgstrLinePInv == PInv /\ MsgstrLine => PInv'
<1> SUFFICES ASSUME PInv, MsgstrLine PROVE PInv'
  OBVIOUS
<1> DEFINE j0 == currentLine + 1
           R == Report(msgidLines, currentMsgid, currentLine)
           u == untranslated
<1>1. /\ i <= Len(lines) /\ lines[i].kind = "msgstr" /\ inMsgid
      /\ untranslated' = IF lines[i].text = EmptyStr THEN Append(u, R) ELSE u
      /\ inMsgid' = FALSE /\ currentMsgid' = NoMsgid /\ i' = i + 1
      /\ lines' = lines /\ currentLine' = currentLine /\ msgidLines' = msgidLines
  BY DEF MsgstrLine, line
<1>2. /\ lines \in Seq(Lines) /\ Len(lines) \in Nat
      /\ i \in 1..Len(lines) /\ i - 1 \in Nat
      /\ u \in Seq(Reports) /\ msgidLines \in Seq(Lines)
      /\ currentLine \in Nat
  BY <1>1, StepFacts
<1>3. /\ j0 \in 1..i - 1
      /\ Pending(j0, i - 1)
      /\ currentMsgid \in Texts
      /\ msgidLines = SubSeq(lines, j0, i - 1)
  BY <1>1 DEF PInv, InMsgidInv
<1>4. R \in Reports
  BY <1>2, <1>3, ReportType
<1>5. /\ R.full = msgidLines /\ R.line = currentLine
  BY DEF Report
<1>6. TypeOK'
  <2>1. untranslated' \in Seq(Reports)
    BY <1>1, <1>2, <1>4, AppendProperties
  <2>2. /\ lines' \in Files /\ currentMsgid' \in Texts \cup {NoMsgid}
        /\ i' \in 1..Len(lines') + 1 /\ currentLine' \in Nat
        /\ msgidLines' \in Seq(Lines)
    BY <1>1, <1>2 DEF PInv, TypeOK
  <2>3. inMsgid' \in BOOLEAN
    BY <1>1, Zenon
  <2>4. QED
    BY <2>1, <2>2, <2>3, ReportsIsTypeOKSet DEF TypeOK
<1>7. InMsgidInv'
  BY <1>1, Zenon DEF InMsgidInv
<1>8. \A j \in 1..i : ~Pending(j, i)
  <2> SUFFICES ASSUME NEW j \in 1..i, Pending(j, i) PROVE FALSE
    OBVIOUS
  <2>1. CASE j = i
    BY <1>1, <2>1 DEF Pending
  <2>2. CASE j < i
    BY <1>1, <1>2, <2>2 DEF Pending
  <2>3. QED
    BY <1>2, <2>1, <2>2
<1>9. (\A j \in 1..i - 1 : ~Pending(j, i - 1))'
  BY <1>1, <1>2, <1>8 DEF Pending
<1>10. IdleInv'
  BY <1>9, Zenon DEF IdleInv
<1>11. ScanMatchesEntries'
  <2>1. CASE lines[i].text # EmptyStr
    <3>1. EmptyUpTo(i) = EmptyUpTo(i - 1)
      <4>1. EmptyUpTo(i - 1 + 1) =
               EmptyUpTo(i - 1) \cup
               {j \in 1..Len(lines) : EntryAt(j, i - 1 + 1) /\ lines[i - 1 + 1].text = EmptyStr}
        BY <1>2, EmptyStep
      <4>2. i - 1 + 1 = i
        BY <1>2
      <4>3. QED
        BY <2>1, <4>1, <4>2
    <3>2. untranslated' = untranslated
      BY <1>1, <2>1
    <3>3. QED
      BY <1>1, <1>2, <3>1, <3>2, KeepReports
  <2>2. CASE lines[i].text = EmptyStr
    <3> DEFINE N == Len(u)
    <3>1. untranslated' = Append(u, R)
      BY <1>1, <2>2
    <3>2. EmptyUpTo(i) = EmptyUpTo(i - 1) \cup {j0} /\ EntryAt(j0, i)
      <4>1. /\ EntryAt(j0, i - 1 + 1)
            /\ EmptyUpTo(i - 1 + 1) = EmptyUpTo(i - 1) \cup {j0}
        BY <1>1, <1>2, <1>3, <2>2, NewEntry
      <4>2. i - 1 + 1 = i
        BY <1>2
      <4>3. QED
        BY <4>1, <4>2
    <3>3. EmptyMsgstrSoFar = EmptyUpTo(i - 1) /\ EmptyMsgstrSoFar' = EmptyUpTo(i)
      BY <1>1, <1>2, EmptySoFarStep
    <3>4. /\ N \in Nat /\ DOMAIN u = 1..N /\ DOMAIN untranslated' = 1..N + 1
          /\ \A n \in 1..N : untranslated'[n] = u[n]
          /\ untranslated'[N + 1] = R
      BY <1>2, <1>4, <3>1, AppendProperties, LenProperties
    <3>5. /\ {u[n].line + 1 : n \in DOMAIN u} = EmptyMsgstrSoFar
          /\ \A n, m \in DOMAIN u : n < m => u[n].line < u[m].line
          /\ \A n \in DOMAIN u :
                \E k \in 1..Len(lines) :
                   /\ EntryAt(u[n].line + 1, k)
                   /\ u[n].full = SubSeq(lines, u[n].line + 1, k - 1)
      BY DEF PInv, ScanMatchesEntries
    <3>6. {untranslated'[n].line + 1 : n \in DOMAIN untranslated'} = EmptyMsgstrSoFar'
      <4>1. {untranslated'[n].line + 1 : n \in 1..N + 1} =
               {u[n].line + 1 : n \in 1..N} \cup {R.line + 1}
        <5>1. \A n \in 1..N + 1 : n \in 1..N \/ n = N + 1
          BY <3>4
        <5>2. QED
          BY <3>4, <5>1
      <4>2. QED
        BY <1>5, <3>2, <3>3, <3>4, <3>5, <4>1
    <3>7. \A n, m \in DOMAIN untranslated' :
             n < m => untranslated'[n].line < untranslated'[m].line
      <4> SUFFICES ASSUME NEW n \in 1..N + 1, NEW m \in 1..N + 1, n < m
                   PROVE  untranslated'[n].line < untranslated'[m].line
        BY <3>4
      <4>1. n \in 1..N
        BY <3>4
      <4>2. CASE m \in 1..N
        BY <3>4, <3>5, <4>1, <4>2
      <4>3. CASE m = N + 1
        <5>1. u[n].line < currentLine
          BY <1>1, <3>4, <4>1, ReportedBefore
        <5>2. QED
          BY <1>5, <3>4, <4>1, <4>3, <5>1
      <4>4. QED
        BY <3>4, <4>2, <4>3
    <3>8. \A n \in DOMAIN untranslated' :
             \E k \in 1..Len(lines) :
                /\ EntryAt(untranslated'[n].line + 1, k)
                /\ untranslated'[n].full = SubSeq(lines, untranslated'[n].line + 1, k - 1)
      <4> SUFFICES ASSUME NEW n \in 1..N + 1
                   PROVE  \E k \in 1..Len(lines) :
                             /\ EntryAt(untranslated'[n].line + 1, k)
                             /\ untranslated'[n].full =
                                   SubSeq(lines, untranslated'[n].line + 1, k - 1)
        BY <3>4
      <4>1. CASE n \in 1..N
        BY <3>4, <3>5, <4>1
      <4>2. CASE n = N + 1
        <5>1. /\ untranslated'[n].line + 1 = j0
              /\ untranslated'[n].full = SubSeq(lines, j0, i - 1)
          BY <1>3, <1>5, <3>4, <4>2
        <5>2. i \in 1..Len(lines) /\ EntryAt(j0, i)
          BY <1>2, <3>2
        <5>3. QED
          BY <5>1, <5>2
      <4>3. QED
        BY <3>4, <4>1, <4>2
    <3>9. QED
      BY <1>1, <3>6, <3>7, <3>8 DEF ScanMatchesEntries, EntryAt
  <2>3. QED
    BY <2>1, <2>2
<1>12. QED
  BY <1>6, <1>7, <1>10, <1>11 DEF PInv

\* Every step of the loop keeps PInv.
LEMMA NextPInv == PInv /\ [Next]_vars => PInv'
<1> SUFFICES ASSUME PInv, [Next]_vars PROVE PInv'
  OBVIOUS
<1>1. CASE MsgidLine
  BY <1>1, MsgidLinePInv
<1>2. CASE MsgstrLine
  BY <1>2, MsgstrLinePInv
<1>3. CASE ContinuationLine
  BY <1>3, ContinuationLinePInv
<1>4. CASE OtherLine
  BY <1>4, OtherLinePInv
<1>5. CASE UNCHANGED vars
  <2>1. /\ lines' = lines /\ i' = i /\ inMsgid' = inMsgid
        /\ currentMsgid' = currentMsgid /\ currentLine' = currentLine
        /\ msgidLines' = msgidLines /\ untranslated' = untranslated
    BY <1>5 DEF vars
  <2>2. TypeOK'
    BY <2>1, Zenon DEF PInv, TypeOK
  <2>3. ScanMatchesEntries'
    BY <2>1 DEF PInv, ScanMatchesEntries, EmptyMsgstrSoFar, EntryAt
  <2>4. InMsgidInv' /\ IdleInv'
    BY <2>1, Zenon DEF PInv, InMsgidInv, IdleInv, Pending
  <2>5. QED
    BY <2>2, <2>3, <2>4 DEF PInv
<1>6. QED
  BY <1>1, <1>2, <1>3, <1>4, <1>5 DEF Next

\* PInv holds in every reachable state.
LEMMA PInvHolds == Spec => []PInv
BY InitPInv, NextPInv, PTL DEF Spec

\* The type invariant of extract_untranslated(): the line index stays
\* within the file and every report is a list of msgid lines, a line number
\* and a list of strings, for every file of at most MaxLines lines.
THEOREM TypeCorrect == Spec => []TypeOK
<1>1. PInv => TypeOK
  BY DEF PInv
<1>2. QED
  BY <1>1, PInvHolds, PTL

\* For every PO file of at most MaxLines lines, at every point of the scan
\* extract_untranslated() has reported exactly the entries read so far
\* whose msgstr line is `msgstr ""`, once each, in file order, each with
\* its 0-based line number and all of its msgid lines.
THEOREM ScanMatchesEntriesHolds == Spec => []ScanMatchesEntries
<1>1. PInv => ScanMatchesEntries
  BY DEF PInv
<1>2. QED
  BY <1>1, PInvHolds, PTL

=============================================================================

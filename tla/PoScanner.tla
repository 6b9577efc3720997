------------------------------ MODULE PoScanner ------------------------------
(***************************************************************************)
(* extract_untranslated() of extract_untranslated.py (lines 10-45): one    *)
(* pass over the lines of a PO file that reports every msgid whose msgstr *)
(* line is exactly `msgstr ""`.                                           *)
(*                                                                         *)
(* A line is abstracted to what the startswith() tests of the loop see:   *)
(*   msgid   a line starting with `msgid "`; text is what follows the     *)
(*           quote, with the closing quote stripped;                      *)
(*   msgstr  a line starting with `msgstr "`; text "" for `msgstr ""`;    *)
(*   quote   a continuation line starting with `"`; text is its string;   *)
(*   other   anything else: comments, blank lines, msgctxt, msgid_plural, *)
(*           msgstr[n].                                                   *)
(* A report is the code's tuple (full_msgid, current_line, content) with  *)
(* full_msgid the msgid lines themselves and content the pieces of text   *)
(* the code joins; the join's newlines and quotes are formatting.         *)
(***************************************************************************)
EXTENDS Naturals, Sequences

CONSTANTS
    Texts,      \* the strings a msgid, msgstr or continuation line carries
    MaxLines    \* the longest file scanned

Kinds == {"msgid", "msgstr", "quote", "other"}
Lines == [kind : Kinds, text : Texts]

\* The string of `msgstr ""` (and of `msgid ""`).
EmptyStr == ""

ASSUME TextsAssumption == EmptyStr \in Texts
ASSUME MaxLinesAssumption == MaxLines \in Nat

\* current_msgid = None: a value that is no line's string.
NoMsgid == "None"

ASSUME NoMsgidAssumption == NoMsgid \notin Texts

\* The files of at most MaxLines lines.
Files == UNION {[1..n -> Lines] : n \in 0..MaxLines}

\* The third element of a report (line 37): the middle msgid lines when
\* there are more than two, else current_msgid.strip('"').
Content(ml, cur) ==
    IF Len(ml) > 2 THEN [n \in 1..Len(ml) - 2 |-> ml[n + 1].text]
                   ELSE <<cur>>

Report(ml, cur, at) == [full |-> ml, line |-> at, content |-> Content(ml, cur)]

-----------------------------------------------------------------------------
VARIABLES
    lines,          \* content.split('\n')
    i,              \* 1 + the enumerate() index of the next line
    inMsgid,        \* in_msgid
    currentMsgid,   \* current_msgid
    currentLine,    \* current_line
    msgidLines,     \* msgid_lines
    untranslated    \* the result list

vars == <<lines, i, inMsgid, currentMsgid, currentLine, msgidLines, untranslated>>

Init ==
    /\ lines \in Files
    /\ i = 1
    /\ inMsgid = FALSE
    /\ currentMsgid = NoMsgid
    /\ currentLine = 0
    /\ msgidLines = <<>>
    /\ untranslated = <<>>

\* The line the loop body looks at.
line == lines[i]

\* Mutant: the line number counted one line early.
MsgidLineOffByOne ==
    /\ i <= Len(lines)
    /\ line.kind = "msgid"
    /\ currentMsgid' = line.text
    /\ currentLine' = i - 2
    /\ msgidLines' = <<line>>
    /\ inMsgid' = TRUE
    /\ i' = i + 1
    /\ UNCHANGED <<lines, untranslated>>

\* Lines 23-30: a msgid line starts a new entry, whatever came before.
MsgidLine ==
    /\ i <= Len(lines)
    /\ line.kind = "msgid"
    /\ currentMsgid' = line.text
    /\ currentLine' = i - 1
    /\ msgidLines' = <<line>>
    /\ inMsgid' = TRUE
    /\ i' = i + 1
    /\ UNCHANGED <<lines, untranslated>>

\* Lines 31-39: the msgstr of the current entry; `msgstr ""` reports it.
MsgstrLine ==
    /\ i <= Len(lines)
    /\ line.kind = "msgstr"
    /\ inMsgid
    /\ untranslated' =
          IF line.text = EmptyStr
          THEN Append(untranslated, Report(msgidLines, currentMsgid, currentLine))
          ELSE untranslated
    /\ inMsgid' = FALSE
    /\ currentMsgid' = NoMsgid
    /\ i' = i + 1
    /\ UNCHANGED <<lines, currentLine, msgidLines>>

\* Lines 40-41: a continuation line of the msgid.
ContinuationLine ==
    /\ i <= Len(lines)
    /\ inMsgid
    /\ line.kind = "quote"
    /\ msgidLines' = Append(msgidLines, line)
    /\ i' = i + 1
    /\ UNCHANGED <<lines, inMsgid, currentMsgid, currentLine, untranslated>>

\* Mutant: a line that is not part of the msgid leaves in_msgid set.
OtherLineKeepsMsgid ==
    /\ i <= Len(lines)
    /\ line.kind # "msgid"
    /\ ~(line.kind = "msgstr" /\ inMsgid)
    /\ ~(line.kind = "quote" /\ inMsgid)
    /\ i' = i + 1
    /\ UNCHANGED <<lines, inMsgid, currentMsgid, currentLine, msgidLines, untranslated>>

\* Lines 42-43: any other line ends the msgid.
OtherLine ==
    /\ i <= Len(lines)
    /\ line.kind # "msgid"
    /\ ~(line.kind = "msgstr" /\ inMsgid)
    /\ ~(line.kind = "quote" /\ inMsgid)
    /\ inMsgid' = FALSE
    /\ i' = i + 1
    /\ UNCHANGED <<lines, currentMsgid, currentLine, msgidLines, untranslated>>

Next == MsgidLine \/ MsgstrLine \/ ContinuationLine \/ OtherLine

Spec == Init /\ [][Next]_vars

\* The loop has consumed every line and the function returns.
Returned == i > Len(lines)

-----------------------------------------------------------------------------
(* Properties.                                                             *)

\* The type invariant.
TypeOK ==
    /\ lines \in Files
    /\ i \in 1..Len(lines) + 1
    /\ inMsgid \in BOOLEAN
    /\ currentMsgid \in Texts \cup {NoMsgid}
    /\ currentLine \in Nat
    /\ msgidLines \in Seq(Lines)
    /\ untranslated \in Seq([full : Seq(Lines), line : Nat,
                             content : Seq(Texts)])

\* The PO syntax of an entry: the msgid line j, continuation lines, and a
\* msgstr line k.
EntryAt(j, k) ==
    /\ 1 <= j /\ j < k /\ k <= Len(lines)
    /\ lines[j].kind = "msgid"
    /\ \A m \in j + 1..k - 1 : lines[m].kind = "quote"
    /\ lines[k].kind = "msgstr"

\* The entries whose msgstr line is `msgstr ""` among the lines read so far.
EmptyMsgstrSoFar ==
    {j \in 1..Len(lines) :
        \E k \in 1..i - 1 : EntryAt(j, k) /\ lines[k].text = EmptyStr}

\* What the code promises of its result, at every point of the scan: it has
\* reported exactly the entries read so far whose msgstr line is
\* `msgstr ""`, once each, in file order, each with its 0-based line
\* number and all of its msgid lines.  A wrong reset of in_msgid or of
\* msgid_lines, or a misnumbered line, makes some report wrong after a
\* particular sequence of lines.
ScanMatchesEntries ==
    /\ {untranslated[n].line + 1 : n \in DOMAIN untranslated} = EmptyMsgstrSoFar
    /\ \A n, m \in DOMAIN untranslated :
          n < m => untranslated[n].line < untranslated[m].line
    /\ \A n \in DOMAIN untranslated :
          \E k \in 1..Len(lines) :
             /\ EntryAt(untranslated[n].line + 1, k)
             /\ untranslated[n].full = SubSeq(lines, untranslated[n].line + 1, k - 1)

\* The msgstr of an entry in PO syntax: its msgstr line and the
\* continuation lines after it; the entry is untranslated when all of
\* their strings are empty.
MsgstrEmpty(k) ==
    /\ lines[k].text = EmptyStr
    /\ \A m \in k + 1..Len(lines) :
          (\A q \in k + 1..m : lines[q].kind = "quote") => lines[m].text = EmptyStr

\* The module's docstring: it reports "strings that have empty msgstr".  A
\* reported entry's msgstr, continuation lines included, is empty.
UntranslatedMeansEmptyMsgstr ==
    Returned =>
      \A n \in DOMAIN untranslated :
         \E k \in 1..Len(lines) : EntryAt(untranslated[n].line + 1, k)
                                  /\ MsgstrEmpty(k)

=============================================================================

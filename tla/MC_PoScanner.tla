----------------------------- MODULE MC_PoScanner -----------------------------
(* Small instances of PoScanner for TLC.                                   *)
EXTENDS PoScanner

\* An empty string (`msgid ""`, `msgstr ""`) and a non-empty one.
MC_Texts == {"", "a"}

\* Five lines hold a msgid with two continuation lines, its msgstr and one
\* more line (a continuation of the msgstr, or the next msgid).
MC_MaxLines == 5

=============================================================================

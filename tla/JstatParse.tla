------------------------------ MODULE JstatParse ------------------------------
(***************************************************************************)
(* get_jstat_memory() of memory_leak_detector.py (lines 98-152): run       *)
(* `jstat -gc <pid>`, zip its header row with its value row into a dict,  *)
(* convert the columns it knows with float() and int(), and build a       *)
(* MemorySnapshot; any exception gives None.                              *)
(*                                                                         *)
(* Data abstraction: a report is the subprocess outcome, the number of    *)
(* non-empty stdout lines, and the header->value dict as a function from  *)
(* the column names present to lexemes.  A lexeme is its lexical kind     *)
(* ("int": digits only, like "12"; "dec": a decimal like "0.123" or       *)
(* "1024.0") and its numeric value.  The conversions are Python's:        *)
(* float() accepts both kinds, int() only digits, and str * 1000 repeats  *)
(* the string.  Memory values are KB and multiples of 1024, so the        *)
(* code's / 1024 is exact.                                                *)
(***************************************************************************)
EXTENDS Naturals

CONSTANTS
    Vals,       \* numeric values a column may hold
    Reports     \* the jstat reports the adapter is run on

Outcomes == {"ok", "nonzero", "timeout", "notfound"}
Kinds == {"int", "dec"}
Lexemes == [kind : Kinds, val : Vals]

\* Column names printed by jstat -gc in some JDK, and the ones the code asks
\* for (PC/PU before JDK 8, MC/MU/CCSC/CCSU since, CGC/CGCT since JDK 11;
\* OGCT is printed by none).
Columns == {"S0C", "S1C", "S0U", "S1U", "EC", "EU", "OC", "OU", "PC", "PU",
            "MC", "MU", "CCSC", "CCSU", "YGC", "YGCT", "FGC", "FGCT",
            "CGC", "CGCT", "GCT", "OGCT"}

\* A report, as subprocess.run() and the split of its stdout deliver it
\* (strip().split('\n') gives at least one line; zip() stops at the shorter
\* of the two rows, so a short value row drops the trailing columns).
IsReport(r) ==
    /\ r.outcome \in Outcomes
    /\ r.nlines \in 1..2
    /\ DOMAIN r.data \subseteq Columns
    /\ \A c \in DOMAIN r.data : r.data[c] \in Lexemes

ASSUME ValsAssumption == Vals \subseteq Nat /\ 0 \in Vals
ASSUME ReportsAssumption == \A r \in Reports : IsReport(r)

\* What the adapter returns when it returns None; the int 0 of a missing
\* key (gc_data.get(c, 0)) behaves as the digit string "0" everywhere.
None == [none |-> TRUE]
Unset == [unset |-> TRUE]
Zero == [kind |-> "int", val |-> 0]

\* gc_data.get(c, 0)
Get(d, c) == IF c \in DOMAIN d THEN d[c] ELSE Zero

\* The eight heap columns the sums of lines 134-136 read.
Heap8 == {"S0C", "S1C", "S0U", "S1U", "EC", "EU", "OC", "OU"}

\* The columns read with float() (lines 119-129) and with int() (131-132).
FloatCols == {"S0C", "S1C", "EC", "OC", "PC", "S0U", "S1U", "EU", "OU", "PU"}
IntCols == {"YGCT", "OGCT"}

\* float(s) succeeds for both kinds, int(s) only for digit strings, and
\* int(s * 1000) of a string only when s is digits (line 146).
ConversionsOK(d) ==
    /\ \A c \in FloatCols : Get(d, c).kind \in {"int", "dec"}
    /\ \A c \in IntCols : Get(d, c).kind = "int"
    /\ Get(d, "GCT").kind = "int"

KB(d, c) == Get(d, c).val

\* Mutant: gc_time_ms taken as the GCT string itself, without int().
GcTimeMsRaw(d) == Get(d, "GCT")

\* int(gc_data.get('GCT', 0) * 1000): a missing key gives 0 * 1000 = 0; a
\* digit string s gives the number whose digits are s repeated 1000 times,
\* recorded as that number of s (not a count of milliseconds unless s is 0).
GcTimeMs(d) ==
    IF Get(d, "GCT").val = 0 THEN [repeated |-> FALSE, n |-> 0]
                             ELSE [repeated |-> TRUE, n |-> Get(d, "GCT").val]

HeapUsed(d) == (KB(d, "S0U") + KB(d, "S1U") + KB(d, "EU") + KB(d, "OU")) \div 1024

\* Mutant: the old generation left out of the committed size.
HeapCommittedNoOld(d) == (KB(d, "S0C") + KB(d, "S1C") + KB(d, "EC")) \div 1024

HeapCommitted(d) ==
    (KB(d, "S0C") + KB(d, "S1C") + KB(d, "EC") + KB(d, "OC")) \div 1024

\* The MemorySnapshot of lines 134-149.
Snapshot(d) ==
    [heapUsed |-> HeapUsed(d),
     heapMax |-> HeapCommitted(d),
     heapCommitted |-> HeapCommitted(d),
     nonHeapUsed |-> KB(d, "PU") \div 1024,
     gcCount |-> KB(d, "YGCT") + KB(d, "OGCT"),
     gcTimeMs |-> GcTimeMs(d),
     youngGc |-> KB(d, "YGCT"),
     oldGc |-> KB(d, "OGCT")]

\* get_jstat_memory(): None on a non-zero exit (107-108), on fewer than two
\* lines (110-112), and when a conversion raises or the call times out or
\* jstat is missing (150-152).
GetJstatMemory(r) ==
    IF r.outcome # "ok" \/ r.nlines < 2 \/ ~ConversionsOK(r.data)
    THEN None
    ELSE Snapshot(r.data)

-----------------------------------------------------------------------------
VARIABLES
    report,     \* the report jstat produced
    result      \* what get_jstat_memory() returned, Unset before the call

vars == <<report, result>>

Init ==
    /\ report \in Reports
    /\ result = Unset

\* The one call of the adapter on the report.
Call ==
    /\ result = Unset
    /\ result' = GetJstatMemory(report)
    /\ UNCHANGED report

Spec == Init /\ [][Call]_vars

-----------------------------------------------------------------------------
(* Properties.                                                             *)

\* The type invariant: the report is one jstat can produce, and the result
\* is Unset, None or a snapshot of whole MB.
TypeOK ==
    /\ IsReport(report)
    /\ \/ result \in {Unset, None}
       \/ /\ DOMAIN result = {"heapUsed", "heapMax", "heapCommitted",
                              "nonHeapUsed", "gcCount", "gcTimeMs",
                              "youngGc", "oldGc"}
          /\ \A f \in DOMAIN result \ {"gcTimeMs"} : result[f] \in Nat
          /\ result.gcTimeMs \in [repeated : BOOLEAN, n : Nat]

\* The snapshot the adapter returned, if any.
Returned == result \notin {Unset, None}

\* In the report every heap region that is reported has its used size
\* within its capacity, as jstat prints them.
RegionsWithinCapacity(d) ==
    \A p \in {<<"S0U", "S0C">>, <<"S1U", "S1C">>, <<"EU", "EC">>, <<"OU", "OC">>} :
        p[1] \in DOMAIN d => p[2] \in DOMAIN d /\ d[p[1]].val <= d[p[2]].val

\* Spec 3: heapUsed <= heapCommitted when both come from the same source.
\* A snapshot built from a report whose regions are within capacity never
\* reports more heap used than committed: the code must sum the same four
\* regions on both sides.
UsedWithinCommitted ==
    Returned /\ RegionsWithinCapacity(report.data) =>
        result.heapUsed <= result.heapCommitted

=============================================================================

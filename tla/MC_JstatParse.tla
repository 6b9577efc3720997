---------------------------- MODULE MC_JstatParse ----------------------------
(* A family of jstat reports for TLC: the column layouts of real JDKs and  *)
(* a short value row, memory and time columns printed as digits or as     *)
(* decimals, and every combination of region sizes from MC_Vals.          *)
EXTENDS JstatParse

\* One empty and one non-empty region size (KB, a whole MB).
MC_Vals == {0, 1024}

Heap == Heap8
Counters == {"YGC", "FGC", "CGC"}
Times == {"YGCT", "FGCT", "CGCT", "GCT"}

\* jstat -gc layouts: JDK 6/7 (permanent generation), JDK 8 (metaspace),
\* JDK 11+ (concurrent cycles), and a value row cut after eden.
JDK6 == Heap \cup {"PC", "PU", "YGC", "YGCT", "FGC", "FGCT", "GCT"}
JDK8 == Heap \cup {"MC", "MU", "CCSC", "CCSU", "YGC", "YGCT", "FGC", "FGCT", "GCT"}
JDK11 == JDK8 \cup {"CGC", "CGCT"}
Short == {"S0C", "S1C", "S0U", "S1U", "EC", "EU"}
RealLayouts == {JDK6, JDK8, JDK11}
Layouts == RealLayouts \cup {Short}

\* The region a heap column belongs to; the other numbers of a report.
RegionOf == [S0C |-> "S0", S0U |-> "S0", S1C |-> "S1", S1U |-> "S1",
             EC |-> "E", EU |-> "E", OC |-> "O", OU |-> "O"]
Regions == {"S0", "S1", "E", "O"}
Used == {"S0U", "S1U", "EU", "OU"}
Numbers == {"YGC", "YGCT", "FGC", "GCT"}

\* The value printed in column c: heap columns from the region sizes u
\* (used) and k (capacity) in kind mk, counters as digits, times in kind
\* tk; the remaining columns (PC/PU, MC/MU, ...) print 0.
Lex(c, mk, tk, u, k, n) ==
    CASE c \in Used -> [kind |-> mk, val |-> u[RegionOf[c]]]
      [] c \in Heap -> [kind |-> mk, val |-> k[RegionOf[c]]]
      [] c \in Counters -> [kind |-> "int", val |-> IF c \in Numbers THEN n[c] ELSE 0]
      [] c \in Times -> [kind |-> tk, val |-> IF c \in Numbers THEN n[c] ELSE 0]
      [] OTHER -> [kind |-> mk, val |-> 0]

OkReports ==
    {[outcome |-> "ok", nlines |-> 2,
      data |-> [c \in L |-> Lex(c, mk, tk, u, k, n)]] :
        L \in Layouts, mk \in Kinds, tk \in Kinds,
        u \in [Regions -> MC_Vals], k \in [Regions -> MC_Vals],
        n \in [Numbers -> MC_Vals]}

\* jstat failing, timing out or missing, and a one-line answer.
FailedReports ==
    {[outcome |-> o, nlines |-> l, data |-> [c \in {} |-> Zero]] :
        o \in Outcomes, l \in 1..2}

MC_Reports == OkReports \cup FailedReports

\* The reports a real JDK's jstat -gc prints: a full layout, every memory
\* column and every time column a decimal, the counters digits.
RealJdkReport(r) ==
    /\ r.outcome = "ok"
    /\ r.nlines = 2
    /\ DOMAIN r.data \in RealLayouts
    /\ \A c \in DOMAIN r.data \ Counters : r.data[c].kind = "dec"


\* Spec 2: the detailed adapter works on a JVM's jstat output: once
\* get_jstat_memory() has run on a report a real JDK prints, it has
\* returned a snapshot, not None.
RealJdkReportAccepted ==
    result # Unset /\ RealJdkReport(report) => Returned

=============================================================================

--------------------------- MODULE JstatParseProofs ---------------------------
(***************************************************************************)
(* Proofs about the jstat adapter for every set of reports: the type of    *)
(* what get_jstat_memory() returns, and that its used heap never exceeds  *)
(* its committed heap when jstat's regions are within their capacities.   *)
(***************************************************************************)
EXTENDS JstatParse, TLAPS

\* Every column value, present or defaulted, is a natural number.
LEMMA KBNat ==
    ASSUME NEW r, IsReport(r), NEW c
    PROVE  KB(r.data, c) \in Nat
BY ValsAssumption DEF IsReport, Lexemes, KB, Get, Zero

\* The adapter returns None or a snapshot of naturals.
LEMMA ResultType ==
    ASSUME NEW r, IsReport(r)
    PROVE  \/ GetJstatMemory(r) = None
           \/ /\ DOMAIN GetJstatMemory(r) =
                    {"heapUsed", "heapMax", "heapCommitted", "nonHeapUsed",
                     "gcCount", "gcTimeMs", "youngGc", "oldGc"}
              /\ \A f \in DOMAIN GetJstatMemory(r) \ {"gcTimeMs"} :
                    GetJstatMemory(r)[f] \in Nat
              /\ GetJstatMemory(r).gcTimeMs \in [repeated : BOOLEAN, n : Nat]
<1>1. \A c \in {"S0U", "S1U", "EU", "OU", "S0C", "S1C", "EC", "OC", "PU",
                "YGCT", "OGCT", "GCT"} : KB(r.data, c) \in Nat
  BY KBNat
<1>2. GcTimeMs(r.data) \in [repeated : BOOLEAN, n : Nat]
  BY <1>1 DEF GcTimeMs, KB
<1>3. QED
  BY <1>1, <1>2 DEF GetJstatMemory, Snapshot, HeapUsed, HeapCommitted

-----------------------------------------------------------------------------

\* Every reachable state is well typed, for every set of reports jstat can
\* produce.
THEOREM TypeCorrect == Spec => []TypeOK
<1>1. Init => TypeOK
  BY ReportsAssumption DEF Init, TypeOK, Unset
<1>2. TypeOK /\ [Call]_vars => TypeOK'
  <2> SUFFICES ASSUME TypeOK, [Call]_vars PROVE TypeOK'
    OBVIOUS
  <2>1. CASE Call
    BY <2>1, ResultType DEF Call, TypeOK
  <2>2. CASE UNCHANGED vars
    BY <2>2 DEF vars, TypeOK
  <2>3. QED
    BY <2>1, <2>2
<1>3. QED
  BY <1>1, <1>2, PTL DEF Spec

\* Integer division by 1024 is monotone on naturals.
LEMMA DivMonotone ==
    ASSUME NEW a \in Nat, NEW b \in Nat, a <= b
    PROVE  a \div 1024 <= b \div 1024
OBVIOUS

\* One region within capacity: its used column, present or defaulted to
\* 0, is at most its capacity column.
LEMMA RegionWithin ==
    ASSUME NEW r, IsReport(r), RegionsWithinCapacity(r.data),
           NEW u, NEW k, <<u, k>> \in {<<"S0U", "S0C">>, <<"S1U", "S1C">>,
                                      <<"EU", "EC">>, <<"OU", "OC">>}
    PROVE  KB(r.data, u) <= KB(r.data, k)
<1>1. KB(r.data, k) \in Nat
  BY KBNat
<1>2. CASE u \in DOMAIN r.data
  <2>1. k \in DOMAIN r.data /\ r.data[u].val <= r.data[k].val
    BY <1>2 DEF RegionsWithinCapacity
  <2>2. QED
    BY <1>2, <2>1 DEF KB, Get
<1>3. CASE u \notin DOMAIN r.data
  BY <1>1, <1>3 DEF KB, Get, Zero
<1>4. QED
  BY <1>2, <1>3

\* A report whose heap regions are within capacity gives a snapshot with
\* used heap at most the committed heap: the code sums the used and the
\* capacity columns of the same four regions.
LEMMA SnapshotWithinCommitted ==
    ASSUME NEW r, IsReport(r), RegionsWithinCapacity(r.data)
    PROVE  HeapUsed(r.data) <= HeapCommitted(r.data)
<1> DEFINE d == r.data
<1>1. /\ KB(d, "S0U") <= KB(d, "S0C")
      /\ KB(d, "S1U") <= KB(d, "S1C")
      /\ KB(d, "EU") <= KB(d, "EC")
      /\ KB(d, "OU") <= KB(d, "OC")
  BY RegionWithin
<1>2. \A c \in {"S0U", "S1U", "EU", "OU", "S0C", "S1C", "EC", "OC"} :
         KB(d, c) \in Nat
  BY KBNat
<1>3. QED
  BY <1>1, <1>2, DivMonotone DEF HeapUsed, HeapCommitted

\* The inductive strengthening: the result, once set, is what the adapter
\* computes from the report, which no step changes.
ResultOfReport == result \in {Unset, GetJstatMemory(report)}

\* Spec 3 for every set of reports: whenever get_jstat_memory() returned a
\* snapshot of a report whose regions are within capacity, its used heap
\* is at most its committed heap.
THEOREM UsedWithinCommittedHolds == Spec => []UsedWithinCommitted
<1>1. Init => TypeOK /\ ResultOfReport
  BY ReportsAssumption DEF Init, TypeOK, ResultOfReport
<1>2. ResultOfReport /\ [Call]_vars => ResultOfReport'
  BY DEF ResultOfReport, Call, vars
<1>3. TypeOK /\ ResultOfReport => UsedWithinCommitted
  <2> SUFFICES ASSUME TypeOK, ResultOfReport, Returned,
                      RegionsWithinCapacity(report.data)
               PROVE  result.heapUsed <= result.heapCommitted
    BY DEF UsedWithinCommitted
  <2>1. result = Snapshot(report.data)
    BY DEF ResultOfReport, Returned, GetJstatMemory
  <2>2. QED
    BY <2>1, SnapshotWithinCommitted DEF TypeOK, Snapshot
<1>4. QED
  BY <1>1, <1>2, <1>3, TypeCorrect, PTL DEF Spec
=============================================================================

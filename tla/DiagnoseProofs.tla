--------------------------- MODULE DiagnoseProofs ---------------------------
(***************************************************************************)
(* Proofs about Diagnose for every set of RAM figures, tunnel counts and  *)
(* pages: the diagnosis after both fetches is a function of the two pages *)
(* alone, its tunnel fields are the /tunnels page's whatever /home did,   *)
(* and the recommendations follow the tiers.                              *)
(***************************************************************************)
EXTENDS Diagnose, TLAPS

\* A page the regexes matched on is not a failed fetch.
LEMMA PagesAreNotErrors ==
    /\ \A h \in HomePages : h # FetchError /\ h # NotFetched
    /\ \A t \in TunnelPages : t # FetchError /\ t # NotFetched
<1>1. \A h \in HomePageSet : h # FetchError /\ h # NotFetched
  BY DEF HomePageSet, FetchError, NotFetched
<1>2. \A t \in TunnelPageSet : t # FetchError /\ t # NotFetched
  BY DEF TunnelPageSet, FetchError, NotFetched
<1>3. QED
  BY <1>1, <1>2, PagesAssumption

\* The keys each block may write.
HomeKeys == {"error", "ram_used_mb", "ram_max_mb", "ram_percent"}
TunnelKeys == {"transit_current", "transit_max", "service_tunnels", "floodfill_peers"}

\* The /home block writes only its own keys, "error" exactly when the
\* fetch failed, and numbers everywhere else.
LEMMA HomeBlockFacts ==
    ASSUME NEW h \in HomePages \cup {FetchError}
    PROVE  LET d == HomeBlock(EmptyDict, h)
           IN  /\ DOMAIN d \subseteq HomeKeys
               /\ "error" \in DOMAIN d <=> h = FetchError
               /\ \A k \in DOMAIN d \ {"error"} : d[k] \in Nat
               /\ h # FetchError =>
                    ("ram_percent" \in DOMAIN d <=> h.found /\ h.max > 0)
               /\ h # FetchError /\ h.found /\ h.max > 0 =>
                    d["ram_percent"] = (h.used * 100) \div h.max
<1> DEFINE d == HomeBlock(EmptyDict, h)
<1>0. DOMAIN EmptyDict = {}
  BY DEF EmptyDict
<1>1. CASE h = FetchError
  <2>1. d = Put(EmptyDict, "error", "error")
    BY <1>1 DEF HomeBlock
  <2>2. DOMAIN d = {"error"}
    BY <2>1 DEF Put, EmptyDict
  <2>3. QED
    BY <1>1, <2>2 DEF HomeKeys
<1>2. CASE h # FetchError /\ ~h.found
  <2>1. d = EmptyDict
    BY <1>2 DEF HomeBlock
  <2>2. QED
    BY <1>0, <1>2, <2>1 DEF HomeKeys
<1>3. CASE h # FetchError /\ h.found
  <2>1. h \in HomePageSet /\ h.used \in Nat /\ h.max \in Nat
    BY <1>3, PagesAssumption, ValsAssumption DEF HomePageSet
  <2> DEFINE d1 == Put(Put(EmptyDict, "ram_used_mb", h.used), "ram_max_mb", h.max)
  <2>2. /\ DOMAIN d1 = {"ram_used_mb", "ram_max_mb"}
        /\ d1["ram_used_mb"] = h.used /\ d1["ram_max_mb"] = h.max
    BY <1>0 DEF Put, EmptyDict
  <2>3. CASE h.max > 0
    <3>1. d = Put(d1, "ram_percent", (h.used * 100) \div h.max)
      BY <1>3, <2>3 DEF HomeBlock
    <3>2. (h.used * 100) \div h.max \in Nat
      BY <2>1, <2>3
    <3>3. /\ DOMAIN d = {"ram_used_mb", "ram_max_mb", "ram_percent"}
          /\ d["ram_percent"] = (h.used * 100) \div h.max
          /\ d["ram_used_mb"] = h.used /\ d["ram_max_mb"] = h.max
      BY <2>2, <3>1 DEF Put, EmptyDict
    <3>4. QED
      BY <1>3, <2>1, <2>3, <3>2, <3>3 DEF HomeKeys
  <2>4. CASE ~(h.max > 0)
    <3>1. d = d1
      BY <1>3, <2>4 DEF HomeBlock
    <3>2. QED
      BY <1>3, <2>1, <2>2, <2>4, <3>1 DEF HomeKeys
  <2>5. QED
    BY <2>3, <2>4
<1>4. QED
  BY <1>1, <1>2, <1>3

\* The /tunnels block adds exactly the fields its page yields, with the
\* page's numbers, and leaves every key it does not write alone.
LEMMA TunnelsBlockFacts ==
    ASSUME NEW d, NEW t \in TunnelPages \cup {FetchError},
           DOMAIN d \cap TunnelKeys = {}
    PROVE  LET e == TunnelsBlock(d, t)
           IN  /\ DOMAIN e \cap TunnelKeys = TunnelFields(t)
               /\ DOMAIN e \ TunnelKeys = DOMAIN d
               /\ \A k \in DOMAIN d : e[k] = d[k]
               /\ t # FetchError /\ t.transit =>
                    e["transit_current"] = t.current /\ e["transit_max"] = t.tmax
               /\ t # FetchError /\ t.service => e["service_tunnels"] = t.tunnels
               /\ t # FetchError /\ t.floodfill => e["floodfill_peers"] = t.peers
<1> DEFINE e == TunnelsBlock(d, t)
<1>1. CASE t = FetchError
  BY <1>1 DEF TunnelsBlock, TunnelFields
<1>2. CASE t # FetchError
  <2>0. t # NotFetched /\ t \in TunnelPageSet
    BY <1>2, PagesAreNotErrors, PagesAssumption
  <2> DEFINE d1 == IF t.transit
                   THEN Put(Put(d, "transit_current", t.current), "transit_max", t.tmax)
                   ELSE d
             d2 == IF t.service THEN Put(d1, "service_tunnels", t.tunnels) ELSE d1
  <2>1. e = IF t.floodfill THEN Put(d2, "floodfill_peers", t.peers) ELSE d2
    BY <1>2 DEF TunnelsBlock
  <2>2. /\ DOMAIN d1 = DOMAIN d \cup (IF t.transit THEN {"transit_current", "transit_max"} ELSE {})
        /\ \A k \in DOMAIN d : d1[k] = d[k]
        /\ t.transit => d1["transit_current"] = t.current /\ d1["transit_max"] = t.tmax
    BY DEF TunnelKeys, Put, EmptyDict
  <2>3. /\ DOMAIN d2 = DOMAIN d1 \cup (IF t.service THEN {"service_tunnels"} ELSE {})
        /\ \A k \in DOMAIN d1 : k # "service_tunnels" => d2[k] = d1[k]
        /\ t.service => d2["service_tunnels"] = t.tunnels
    BY DEF Put, EmptyDict
  <2>4. /\ DOMAIN e = DOMAIN d2 \cup (IF t.floodfill THEN {"floodfill_peers"} ELSE {})
        /\ \A k \in DOMAIN d2 : k # "floodfill_peers" => e[k] = d2[k]
        /\ t.floodfill => e["floodfill_peers"] = t.peers
    <3>1. CASE t.floodfill
      <4>1. e = Put(d2, "floodfill_peers", t.peers)
        BY <2>1, <3>1
      <4>2. QED
        BY <3>1, <4>1 DEF Put
    <3>2. CASE ~t.floodfill
      <4>1. e = d2
        BY <2>1, <3>2
      <4>2. QED
        BY <3>2, <4>1
    <3>3. QED
      BY <3>1, <3>2
  <2>5. t.transit \in BOOLEAN /\ t.service \in BOOLEAN /\ t.floodfill \in BOOLEAN
    BY <2>0 DEF TunnelPageSet
  <2>6. DOMAIN e \cap TunnelKeys = TunnelFields(t)
    BY <1>2, <2>0, <2>2, <2>3, <2>4, <2>5 DEF TunnelFields, TunnelKeys
  <2>7. DOMAIN e \ TunnelKeys = DOMAIN d
    BY <2>2, <2>3, <2>4, <2>5 DEF TunnelKeys
  <2>8. \A k \in DOMAIN d : e[k] = d[k]
    BY <2>2, <2>3, <2>4 DEF TunnelKeys
  <2>9. QED
    BY <1>2, <2>2, <2>3, <2>4, <2>6, <2>7, <2>8
<1>3. QED
  BY <1>1, <1>2

\* int(used / max * 100) > 80 holds from 81% of max on.
LEMMA PercentAbove80 ==
    ASSUME NEW a \in Nat, NEW b \in Nat, b > 0
    PROVE  (a \div b > 80) <=> (a >= 81 * b)
<1>1. b * (a \div b) <= a /\ a < b * (a \div b) + b
  BY SMT
<1>2. a \div b \in Nat
  OBVIOUS
<1>3. QED
  BY <1>1, <1>2, SMT

\* The diagnosis both fetches leave, as a function of the two pages.
Diagnosis(h, t) == TunnelsBlock(HomeBlock(EmptyDict, h), t)

\* What the diagnosis of two pages holds: the /tunnels fields and numbers,
\* "error" exactly after a failed /home fetch, numbers elsewhere.
LEMMA DiagnosisFacts ==
    ASSUME NEW h \in HomePages \cup {FetchError}, NEW t \in TunnelPages \cup {FetchError}
    PROVE  LET d == Diagnosis(h, t)
           IN  /\ DOMAIN d \subseteq Keys
               /\ \A k \in DOMAIN d \ {"error"} : d[k] \in Nat
               /\ "error" \in DOMAIN d <=> h = FetchError
               /\ DOMAIN d \cap TunnelKeys = TunnelFields(t)
               /\ t # FetchError /\ t.transit =>
                    d["transit_current"] = t.current /\ d["transit_max"] = t.tmax
               /\ t # FetchError /\ t.floodfill => d["floodfill_peers"] = t.peers
               /\ h # FetchError =>
                    ("ram_percent" \in DOMAIN d <=> h.found /\ h.max > 0)
               /\ h # FetchError /\ h.found /\ h.max > 0 =>
                    d["ram_percent"] = (h.used * 100) \div h.max
<1> DEFINE c == HomeBlock(EmptyDict, h)
           d == Diagnosis(h, t)
<1>1. DOMAIN c \cap TunnelKeys = {}
  BY HomeBlockFacts DEF HomeKeys, TunnelKeys
<1>2. /\ DOMAIN d \cap TunnelKeys = TunnelFields(t)
      /\ DOMAIN d \ TunnelKeys = DOMAIN c
      /\ \A k \in DOMAIN c : d[k] = c[k]
      /\ t # FetchError /\ t.transit =>
           d["transit_current"] = t.current /\ d["transit_max"] = t.tmax
      /\ t # FetchError /\ t.service => d["service_tunnels"] = t.tunnels
      /\ t # FetchError /\ t.floodfill => d["floodfill_peers"] = t.peers
  BY <1>1, TunnelsBlockFacts DEF Diagnosis
<1>3. t # FetchError => t \in TunnelPageSet
  BY PagesAssumption
<1>4. \A k \in TunnelKeys \cap DOMAIN d : d[k] \in Nat
  BY <1>2, <1>3, ValsAssumption DEF TunnelKeys, TunnelFields, TunnelPageSet
<1>5. QED
  BY <1>2, <1>4, HomeBlockFacts DEF Keys, HomeKeys, TunnelKeys

\* With both pages fetched, the recommendations are the tiers of the
\* pages' figures, the RAM checklist from 81% on.
LEMMA RecommendationsOfPages ==
    ASSUME NEW h \in HomePages, NEW t \in TunnelPages
    PROVE  LET r == Recommendations(Diagnosis(h, t))
           IN  /\ "transit_critical" \in r <=> t.transit /\ t.current > 5000
               /\ "transit_warning" \in r <=> t.transit /\ 2000 < t.current /\ t.current <= 5000
               /\ "floodfill_high" \in r <=> t.floodfill /\ t.peers > 1000
               /\ "ram_critical" \in r <=> h.found /\ h.max > 0 /\ h.used * 100 >= 81 * h.max
<1> DEFINE d == Diagnosis(h, t)
<1>1. h # FetchError /\ t # FetchError /\ h \in HomePageSet /\ t \in TunnelPageSet
  BY PagesAreNotErrors, PagesAssumption
<1>2. /\ h.found \in BOOLEAN /\ h.used \in Nat /\ h.max \in Nat
      /\ t.transit \in BOOLEAN /\ t.floodfill \in BOOLEAN
      /\ t.current \in Nat /\ t.peers \in Nat
  BY <1>1, ValsAssumption DEF HomePageSet, TunnelPageSet
<1>3. "error" \notin DOMAIN d
  BY <1>1, DiagnosisFacts
<1>4. "transit_current" \in DOMAIN d <=> t.transit
  BY <1>1, PagesAreNotErrors, DiagnosisFacts DEF TunnelFields, TunnelKeys
<1>5. "floodfill_peers" \in DOMAIN d <=> t.floodfill
  BY <1>1, PagesAreNotErrors, DiagnosisFacts DEF TunnelFields, TunnelKeys
<1>6. t.transit => d["transit_current"] = t.current
  BY <1>1, DiagnosisFacts
<1>7. t.floodfill => d["floodfill_peers"] = t.peers
  BY <1>1, DiagnosisFacts
<1>8. GetOr0(d, "ram_percent") > 80 <=> h.found /\ h.max > 0 /\ h.used * 100 >= 81 * h.max
  <2>1. CASE h.found /\ h.max > 0
    <3>1. d["ram_percent"] = (h.used * 100) \div h.max /\ "ram_percent" \in DOMAIN d
      BY <1>1, <2>1, DiagnosisFacts
    <3>2. (h.used * 100) \div h.max > 80 <=> h.used * 100 >= 81 * h.max
      BY <1>2, <2>1, PercentAbove80
    <3>3. QED
      BY <2>1, <3>1, <3>2 DEF GetOr0
  <2>2. CASE ~(h.found /\ h.max > 0)
    BY <1>1, <2>2, DiagnosisFacts DEF GetOr0
  <2>3. QED
    BY <2>1, <2>2
<1>9. Recommendations(d) =
        TransitRecs(d)
        \cup (IF GetOr0(d, "floodfill_peers") > 1000 THEN {"floodfill_high"} ELSE {})
        \cup (IF GetOr0(d, "ram_percent") > 80 THEN {"ram_critical"} ELSE {})
  BY <1>3 DEF Recommendations
<1>10. TransitRecs(d) = IF t.transit /\ t.current > 5000 THEN {"transit_critical"}
                       ELSE IF t.transit /\ t.current > 2000 THEN {"transit_warning"}
                       ELSE {}
  BY <1>2, <1>4, <1>6 DEF TransitRecs
<1>11. GetOr0(d, "floodfill_peers") > 1000 <=> t.floodfill /\ t.peers > 1000
  BY <1>2, <1>5, <1>7 DEF GetOr0
<1>12. "transit_critical" \in Recommendations(d) <=> t.transit /\ t.current > 5000
  BY <1>9, <1>10
<1>13. "transit_warning" \in Recommendations(d) <=>
          t.transit /\ 2000 < t.current /\ t.current <= 5000
  BY <1>2, <1>9, <1>10
<1>14. "floodfill_high" \in Recommendations(d) <=> t.floodfill /\ t.peers > 1000
  BY <1>9, <1>10, <1>11
<1>15. "ram_critical" \in Recommendations(d) <=>
          h.found /\ h.max > 0 /\ h.used * 100 >= 81 * h.max
  BY <1>8, <1>9, <1>10
<1>16. QED
  BY <1>12, <1>13, <1>14, <1>15

-----------------------------------------------------------------------------
(* The invariant.                                                          *)

\* The state after each phase: what each fetch delivered, and the dict and
\* the printout as the blocks computed them from those pages.
DInv ==
    /\ phase \in Phases
    /\ phase = "home" => homeHtml = NotFetched /\ diagnosis = EmptyDict
    /\ phase # "home" => homeHtml \in HomePages \cup {FetchError}
    /\ phase \in {"home", "tunnels"} => tunnelsHtml = NotFetched
    /\ phase = "tunnels" => diagnosis = HomeBlock(EmptyDict, homeHtml)
    /\ phase \in {"report", "done"} =>
          /\ tunnelsHtml \in TunnelPages \cup {FetchError}
          /\ diagnosis = Diagnosis(homeHtml, tunnelsHtml)
    /\ printed = IF phase = "done" THEN Recommendations(diagnosis) ELSE {}

LEMMA InitDInv == Init => DInv
BY DEF Init, DInv, Phases

LEMMA NextDInv == DInv /\ [Next]_vars => DInv'
<1> SUFFICES ASSUME DInv, [Next]_vars PROVE DInv'
  OBVIOUS
<1>1. CASE FetchHome
  BY <1>1 DEF FetchHome, DInv, Phases
<1>2. CASE FetchTunnels
  BY <1>2 DEF FetchTunnels, DInv, Phases, Diagnosis
<1>3. CASE Report
  BY <1>3 DEF Report, DInv, Phases
<1>4. CASE UNCHANGED vars
  BY <1>4 DEF vars, DInv
<1>5. QED
  BY <1>1, <1>2, <1>3, <1>4 DEF Next

\* The type invariant, for every instance.
THEOREM TypeCorrect == Spec => []TypeOK
<1>1. DInv => TypeOK
  <2> SUFFICES ASSUME DInv PROVE TypeOK
    OBVIOUS
  <2>1. CASE phase = "home"
    BY <2>1 DEF DInv, TypeOK, EmptyDict
  <2>2. CASE phase = "tunnels"
    <3>1. homeHtml \in HomePages \cup {FetchError}
      BY <2>2 DEF DInv
    <3>2. QED
      BY <2>2, <3>1, HomeBlockFacts DEF DInv, TypeOK, HomeKeys, Keys
  <2>3. CASE phase \in {"report", "done"}
    <3>1. homeHtml \in HomePages \cup {FetchError}
          /\ tunnelsHtml \in TunnelPages \cup {FetchError}
          /\ diagnosis = Diagnosis(homeHtml, tunnelsHtml)
      BY <2>3 DEF DInv
    <3>2. DOMAIN diagnosis \subseteq Keys
          /\ \A k \in DOMAIN diagnosis \ {"error"} : diagnosis[k] \in Nat
      BY <3>1, DiagnosisFacts
    <3>3. printed \subseteq Recs
      BY DEF DInv, Recommendations, TransitRecs, Recs
    <3>4. QED
      BY <2>3, <3>1, <3>2, <3>3 DEF DInv, TypeOK
  <2>4. QED
    BY <2>1, <2>2, <2>3 DEF DInv, Phases
<1>2. QED
  BY <1>1, InitDInv, NextDInv, PTL DEF Spec

\* Spec 4.5 for every instance: once both fetches are done, the tunnel
\* fields of the diagnosis are exactly those the /tunnels page yields,
\* with its numbers, also after a /home error.
THEOREM TunnelsIndependentOfHomeHolds == Spec => []TunnelsIndependentOfHome
<1>1. DInv => TunnelsIndependentOfHome
  <2> SUFFICES ASSUME DInv, phase \in {"report", "done"}
               PROVE  TunnelsIndependentOfHome
    BY DEF TunnelsIndependentOfHome
  <2>1. homeHtml \in HomePages \cup {FetchError}
        /\ tunnelsHtml \in TunnelPages \cup {FetchError}
        /\ diagnosis = Diagnosis(homeHtml, tunnelsHtml)
    BY DEF DInv, Phases
  <2>2. QED
    BY <2>1, DiagnosisFacts DEF TunnelsIndependentOfHome, TunnelKeys
<1>2. QED
  BY <1>1, InitDInv, NextDInv, PTL DEF Spec

\* Spec 4.5 for every instance: with both pages fetched, the printed
\* transit tier, floodfill note and RAM checklist are those of the pages'
\* figures, the checklist from 81% of max on (the int() truncation).
THEOREM RecommendationsHold == Spec => []RecommendationsFollowFigures
<1>1. DInv => RecommendationsFollowFigures
  <2> SUFFICES ASSUME DInv, phase = "done", homeHtml # FetchError,
                      tunnelsHtml \notin {FetchError}
               PROVE  RecommendationsFollowFigures
    BY DEF RecommendationsFollowFigures
  <2>1. homeHtml \in HomePages /\ tunnelsHtml \in TunnelPages
        /\ diagnosis = Diagnosis(homeHtml, tunnelsHtml)
        /\ printed = Recommendations(diagnosis)
    BY DEF DInv
  <2>2. QED
    BY <2>1, RecommendationsOfPages DEF RecommendationsFollowFigures
<1>2. QED
  BY <1>1, InitDInv, NextDInv, PTL DEF Spec

=============================================================================

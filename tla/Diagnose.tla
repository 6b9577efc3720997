------------------------------- MODULE Diagnose -------------------------------
(***************************************************************************)
(* diagnose_memory_issues() of memory_leak_detector.py (lines 419-491):   *)
(* fetch the console's /home and /tunnels pages, extract the RAM, transit *)
(* tunnel, service tunnel and floodfill figures into the `diagnosis`      *)
(* dict, then print the figures and the recommendations they call for.    *)
(*                                                                         *)
(* A fetched page is abstracted to what each re.search() finds in it: for *)
(* every pattern, whether it matches and the numbers of its groups.  A    *)
(* failed urlopen (timeout, refused, HTTP error, bad UTF-8) is FetchError.*)
(* The printing is abstracted to the set of recommendations printed.      *)
(***************************************************************************)
EXTENDS Naturals

CONSTANTS
    RamVals,        \* RAM figures (MB) the /home page may show
    TunnelVals,     \* tunnel and peer counts the /tunnels page may show
    HomePages,      \* what re.search finds in a /home page
    TunnelPages     \* what the three re.search calls find in a /tunnels page

\* `RAM:\s*([\d,]+)\s*/\s*([\d,]+)\s*M` matched (found) with groups used, max.
HomePageSet == [found : BOOLEAN, used : RamVals, max : RamVals]

\* The transit, service and floodfill patterns, each matched or not.
TunnelPageSet == [transit : BOOLEAN, current : TunnelVals, tmax : TunnelVals,
                  service : BOOLEAN, tunnels : TunnelVals,
                  floodfill : BOOLEAN, peers : TunnelVals]

FetchError == [error |-> TRUE]

ASSUME ValsAssumption == RamVals \subseteq Nat /\ TunnelVals \subseteq Nat
ASSUME PagesAssumption == HomePages \subseteq HomePageSet /\
                          TunnelPages \subseteq TunnelPageSet

\* The recommendations lines 472-489 print.
Recs == {"transit_critical", "transit_warning", "floodfill_high", "ram_critical"}

\* diagnosis[k] = v.
Put(f, k, v) == [x \in DOMAIN f \cup {k} |-> IF x = k THEN v ELSE f[x]]

\* The empty dict.
EmptyDict == [x \in {} |-> 0]

\* Mutant: the percentage of free instead of used RAM.
HomeBlockFreePercent(d, page) ==
    IF page = FetchError THEN Put(d, "error", "error")
    ELSE IF ~page.found THEN d
    ELSE LET d1 == Put(Put(d, "ram_used_mb", page.used), "ram_max_mb", page.max)
         IN  IF page.max > 0
             THEN Put(d1, "ram_percent", ((page.max - page.used) * 100) \div page.max)
             ELSE d1

\* Lines 426-439: the /home block.  int(used / max * 100) truncates the
\* exact quotient (the product of a ratio of whole MB by 100 is never a
\* float just below the integer it should be at the 80 boundary).
HomeBlock(d, page) ==
    IF page = FetchError THEN Put(d, "error", "error")
    ELSE IF ~page.found THEN d
    ELSE LET d1 == Put(Put(d, "ram_used_mb", page.used), "ram_max_mb", page.max)
         IN  IF page.max > 0
             THEN Put(d1, "ram_percent", (page.used * 100) \div page.max)
             ELSE d1

\* Lines 441-460: the /tunnels block; any exception is swallowed.
TunnelsBlock(d, page) ==
    IF page = FetchError THEN d
    ELSE LET d1 == IF page.transit
                   THEN Put(Put(d, "transit_current", page.current),
                            "transit_max", page.tmax)
                   ELSE d
             d2 == IF page.service THEN Put(d1, "service_tunnels", page.tunnels)
                   ELSE d1
         IN  IF page.floodfill THEN Put(d2, "floodfill_peers", page.peers)
             ELSE d2

\* diagnosis.get(k, 0)
GetOr0(d, k) == IF k \in DOMAIN d THEN d[k] ELSE 0

\* Mutant: the two transit tiers tested in the wrong order.
TransitRecsSwapped(d) ==
    IF "transit_current" \notin DOMAIN d THEN {}
    ELSE IF d["transit_current"] > 2000 THEN {"transit_warning"}
    ELSE IF d["transit_current"] > 5000 THEN {"transit_critical"}
    ELSE {}

\* Lines 472-478: the transit tiers, critical before warning.
TransitRecs(d) ==
    IF "transit_current" \notin DOMAIN d THEN {}
    ELSE IF d["transit_current"] > 5000 THEN {"transit_critical"}
    ELSE IF d["transit_current"] > 2000 THEN {"transit_warning"}
    ELSE {}

\* Lines 466-489: nothing is recommended once an error was recorded.
Recommendations(d) ==
    IF "error" \in DOMAIN d THEN {}
    ELSE TransitRecs(d)
         \cup (IF GetOr0(d, "floodfill_peers") > 1000 THEN {"floodfill_high"} ELSE {})
         \cup (IF GetOr0(d, "ram_percent") > 80 THEN {"ram_critical"} ELSE {})

-----------------------------------------------------------------------------
VARIABLES
    phase,      \* "home", "tunnels", "report", "done"
    homeHtml,   \* what the /home fetch delivered (history)
    tunnelsHtml,\* what the /tunnels fetch delivered (history)
    diagnosis,  \* the diagnosis dict
    printed     \* the recommendations printed

vars == <<phase, homeHtml, tunnelsHtml, diagnosis, printed>>

NotFetched == [notFetched |-> TRUE]

Init ==
    /\ phase = "home"
    /\ homeHtml = NotFetched
    /\ tunnelsHtml = NotFetched
    /\ diagnosis = EmptyDict
    /\ printed = {}

\* Lines 426-439: fetch /home (or fail) and extract the RAM figures.
FetchHome ==
    /\ phase = "home"
    /\ \E page \in HomePages \cup {FetchError} :
          /\ homeHtml' = page
          /\ diagnosis' = HomeBlock(diagnosis, page)
    /\ phase' = "tunnels"
    /\ UNCHANGED <<tunnelsHtml, printed>>

\* Mutant: /tunnels is not fetched once /home failed.
FetchTunnelsAfterHome ==
    /\ phase = "tunnels"
    /\ \E page \in TunnelPages \cup {FetchError} :
          /\ tunnelsHtml' = page
          /\ diagnosis' = IF "error" \in DOMAIN diagnosis THEN diagnosis
                          ELSE TunnelsBlock(diagnosis, page)
    /\ phase' = "report"
    /\ UNCHANGED <<homeHtml, printed>>

\* Lines 441-460: fetch /tunnels (or fail) and extract its figures,
\* whatever the /home fetch did.
FetchTunnels ==
    /\ phase = "tunnels"
    /\ \E page \in TunnelPages \cup {FetchError} :
          /\ tunnelsHtml' = page
          /\ diagnosis' = TunnelsBlock(diagnosis, page)
    /\ phase' = "report"
    /\ UNCHANGED <<homeHtml, printed>>

\* Lines 462-491: print the figures and the recommendations, return.
Report ==
    /\ phase = "report"
    /\ printed' = Recommendations(diagnosis)
    /\ phase' = "done"
    /\ UNCHANGED <<homeHtml, tunnelsHtml, diagnosis>>

Next == FetchHome \/ FetchTunnels \/ Report

Spec == Init /\ [][Next]_vars

-----------------------------------------------------------------------------
(* Properties.                                                             *)

Phases == {"home", "tunnels", "report", "done"}
Keys == {"error", "ram_used_mb", "ram_max_mb", "ram_percent", "transit_current",
         "transit_max", "service_tunnels", "floodfill_peers"}

\* The type invariant.
TypeOK ==
    /\ phase \in Phases
    /\ homeHtml \in HomePages \cup {FetchError, NotFetched}
    /\ tunnelsHtml \in TunnelPages \cup {FetchError, NotFetched}
    /\ DOMAIN diagnosis \subseteq Keys
    /\ \A k \in DOMAIN diagnosis \ {"error"} : diagnosis[k] \in Nat
    /\ printed \subseteq Recs

\* The fields a fetched page yields, as spec 4.5 lists them.
TunnelFields(page) ==
    IF page \in {FetchError, NotFetched} THEN {}
    ELSE (IF page.transit THEN {"transit_current", "transit_max"} ELSE {})
         \cup (IF page.service THEN {"service_tunnels"} ELSE {})
         \cup (IF page.floodfill THEN {"floodfill_peers"} ELSE {})

\* Spec 4.5 and 7(c): the /tunnels fetch is attempted whatever the /home
\* fetch did, and every pattern that matches gives its field: once both
\* fetches are done, the tunnel fields of the diagnosis are exactly those
\* the /tunnels page yields, with its numbers, also after a /home error.
TunnelsIndependentOfHome ==
    phase \in {"report", "done"} =>
       /\ DOMAIN diagnosis \cap {"transit_current", "transit_max",
                                 "service_tunnels", "floodfill_peers"}
            = TunnelFields(tunnelsHtml)
       /\ tunnelsHtml # FetchError /\ tunnelsHtml.transit =>
             /\ diagnosis["transit_current"] = tunnelsHtml.current
             /\ diagnosis["transit_max"] = tunnelsHtml.tmax
       /\ tunnelsHtml # FetchError /\ tunnelsHtml.floodfill =>
             diagnosis["floodfill_peers"] = tunnelsHtml.peers

\* Spec 4.5 and its example (line 87): with no error recorded, the printed
\* transit recommendation is "critical" above 5000 and only "warning"
\* above 2000, and the floodfill note above 1000, from the page's figures;
\* the RAM checklist is printed from 81% of max on: int() truncates the
\* percentage (line 437), so 80.5% is not "above 80" as spec 4.5 reads.
RecommendationsFollowFigures ==
    phase = "done" /\ homeHtml # FetchError /\ tunnelsHtml \notin {FetchError} =>
       /\ "transit_critical" \in printed <=>
             tunnelsHtml.transit /\ tunnelsHtml.current > 5000
       /\ "transit_warning" \in printed <=>
             tunnelsHtml.transit /\ 2000 < tunnelsHtml.current /\ tunnelsHtml.current <= 5000
       /\ "floodfill_high" \in printed <=>
             tunnelsHtml.floodfill /\ tunnelsHtml.peers > 1000
       /\ "ram_critical" \in printed <=>
             homeHtml.found /\ homeHtml.max > 0 /\ homeHtml.used * 100 >= 81 * homeHtml.max

\* Spec 4.5: the transit thresholds are independent checks of the tunnels
\* page; once diagnosis is printed, a transit count above 5000 on a
\* fetched /tunnels page is reported as critical.
TunnelFindingsReported ==
    phase = "done" /\ tunnelsHtml \notin {FetchError} /\ tunnelsHtml.transit
       /\ tunnelsHtml.current > 5000 => "transit_critical" \in printed

=============================================================================

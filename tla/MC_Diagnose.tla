------------------------------ MODULE MC_Diagnose ------------------------------
(* Small instances of Diagnose for TLC.                                    *)
EXTENDS Diagnose

\* 80/100 is exactly 80% (not above), 161/200 is 80.5% (above 80, but
\* truncated to 80), 161/100 is above 100%, and a maximum of 0 skips the
\* percentage.
MC_RamVals == {0, 80, 100, 161, 200}

\* 2000 is the warning boundary (not above), 3000 is in the warning tier,
\* 6000 in the critical tier; 1000 and 1500 straddle the floodfill
\* threshold.
MC_TunnelVals == {1000, 1500, 2000, 3000, 6000}

MC_HomePages ==
    {[found |-> FALSE, used |-> 0, max |-> 0]} \cup
    {[found |-> TRUE, used |-> u, max |-> m] : u \in {80, 161}, m \in {0, 100, 200}}

MC_TunnelPages ==
    {[transit |-> t, current |-> c, tmax |-> 6000,
      service |-> sv, tunnels |-> 1000,
      floodfill |-> f, peers |-> p] :
        t \in BOOLEAN, c \in {2000, 3000, 6000}, sv \in BOOLEAN,
        f \in BOOLEAN, p \in {1000, 1500}}

=============================================================================

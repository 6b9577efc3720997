\* Expected violation of NeverOverwrites: main() truncates the --output
\* file that holds an earlier run's line.
CONSTANTS
    Count <- MC_Count
    MemVals <- MC_MemVals
    MaxGC <- MC_MaxGC
    Output = TRUE
    Prior <- MC_Prior
SPECIFICATION Spec
CHECK_DEADLOCK FALSE
INVARIANT NeverOverwrites

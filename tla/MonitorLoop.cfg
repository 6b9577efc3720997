\* Safety of the monitoring loop with --output, against a router that
\* changes, loses jstat and exits at any point.
CONSTANTS
    Count <- MC_Count
    MemVals <- MC_MemVals
    MaxGC <- MC_MaxGC
    Output = TRUE
    Prior <- MC_Prior
SPECIFICATION Spec
\* The tool exits after the analysis or on a write error.
CHECK_DEADLOCK FALSE
INVARIANTS
    TypeOK
    ModeNeverMixed
    FileMirrorsSamples
    AnalysisMatchesSpec
PROPERTIES
    Terminates
    ImplementsSession

\* Expected violation of CsvHeaderMatchesRows.
CONSTANTS
    Count <- MC_Count
    MemVals <- MC_MemVals
    MaxGC <- MC_MaxGC
    Output = TRUE
    Prior <- MC_Prior
SPECIFICATION Spec
CHECK_DEADLOCK FALSE
INVARIANT CsvHeaderMatchesRows

CONSTANTS
    Times <- MC_Times
    Logs <- MC_Logs
SPECIFICATION Spec
CHECK_DEADLOCK FALSE
INVARIANT
    HeapTransitionsParsed

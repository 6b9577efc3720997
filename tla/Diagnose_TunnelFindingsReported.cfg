CONSTANTS
    RamVals <- MC_RamVals
    TunnelVals <- MC_TunnelVals
    HomePages <- MC_HomePages
    TunnelPages <- MC_TunnelPages
SPECIFICATION Spec
CHECK_DEADLOCK FALSE
INVARIANT
    TunnelFindingsReported

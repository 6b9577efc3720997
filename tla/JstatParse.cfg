CONSTANTS
    Vals <- MC_Vals
    Reports <- MC_Reports
SPECIFICATION Spec
CHECK_DEADLOCK FALSE
INVARIANTS
    TypeOK
    UsedWithinCommitted

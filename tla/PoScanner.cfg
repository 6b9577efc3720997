CONSTANTS
    Texts <- MC_Texts
    MaxLines <- MC_MaxLines
SPECIFICATION Spec
CHECK_DEADLOCK FALSE
INVARIANTS
    TypeOK
    ScanMatchesEntries

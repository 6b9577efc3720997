CONSTANT
    FileSystems <- MC_FileSystems
SPECIFICATION Spec
CHECK_DEADLOCK FALSE
INVARIANTS
    TypeOK
    ResultIsTailOfFirstReadable

SPECIFICATION Spec
CONSTANTS
    Intfs = 2
    MaxHeaders = 1
    None = None
INVARIANTS TypeOK DbListExclusive LockDiscipline NoDeadlock
PROPERTIES ExitEnds Served
CHECK_DEADLOCK FALSE

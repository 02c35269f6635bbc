SPECIFICATION Spec
CONSTANTS
    me = me  n1 = n1  n2 = n2  none = none
    Me = me
    Nbr = {n1, n2}
    NoRouter = none
    Id <- Ids
    Priorities = {0, 1}
    Garbage = {0, 1, 2}
    Hellos <- Claims
INVARIANTS TypeOK DRReachable NoBackupMissed
PROPERTY NoSeizure
CHECK_DEADLOCK FALSE

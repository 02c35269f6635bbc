SPECIFICATION Spec
CONSTANTS
    ks = ks  ws = ws  km = km
    OwnRouter = ks
    OwnNetwork = ws
    Theirs <- One
    Told <- Once
    MaxHdr = 2
    SeqSpace = 3
    MaxFlight = 1
    MaxRestarts = 1
CHECK_DEADLOCK FALSE
CONSTRAINT Led
INVARIANTS TypeOK NoFailure Synced
PROPERTIES SlaveFirst Forms

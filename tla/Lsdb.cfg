SPECIFICATION Spec
CONSTANTS
    r0 = r0  r1 = r1
    Types = {"router"}
    Keys = {r0, r1}
    TypeOf <- BothRouter
    OwnKeys = {r0}
    SeqSpace = 3
    Sums = {0, 1}
    MaxMade = 4
    MaxStored = 3
INVARIANTS TypeOK SingleInOrder
PROPERTY KeepsNewest

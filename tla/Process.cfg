SPECIFICATION Spec
CONSTANT Intfs = 4
INVARIANTS TypeOK SocketsKept
PROPERTY Ends
CHECK_DEADLOCK FALSE

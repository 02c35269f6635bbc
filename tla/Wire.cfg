SPECIFICATION Spec
CONSTANTS
    RouterId = 167772161
    AreaId = 0
    LastSeq = 260
    Messages <- AllMessages
INVARIANTS TypeOK PacketSum LsaSum RoundTrip

SPECIFICATION Spec
CONSTANTS
    Packet <- MCPacket
    BufferSize = 1
    NumHosts = 2
    None = None
    NumPings = 2
    Timeout = 1
    MaxNow = 3
    MaxPackets = 2
INVARIANTS
    TypeOK
    SetOnce
    DistinctFutures
    ReplyIsFromPingedHost
    TimeoutIsOwnAndLate
    DanglingNeedsBlockingPing
    ZeroAddressMeansLostAnswer
    BrokenNeedsRivalPing
PROPERTIES
    EveryPingEnds
CHECK_DEADLOCK FALSE

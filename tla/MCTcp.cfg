SPECIFICATION FairSpec
CONSTANTS
    M = 32
    LEN = 2
    Start = 29
    PeerStart = 30
    ToPeerMax = 1
    ToHostMax = 1
    MaxSend = 2
    MaxBinds = 2
    MaxPeer = 2
    TCP_CTL_MAX_RETRIES = 1
    TCP_RETRANSMIT_MAX_RETRIES = 1
INVARIANTS TypeOK Streams  BoundAlive
PROPERTIES RetriesEnd DisconnectEnds
CHECK_DEADLOCK FALSE

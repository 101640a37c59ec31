\* One connection, opened once; the peer's stream fits the receive buffer.
SPECIFICATION HttpSpec
CONSTANTS
    Slots <- OneSlot
    SeqMod = 8
    MSS = 2
    SendCap = 2
    RecvCap = 3
    Window = 6
    MaxRetries = 2
    Ports = {1}
    Peers = {p}
    ISNs <- HighISN
    PeerISN = 7
    PeerLen = 3
    MaxOpens = 1
    Request = 1
INVARIANTS
    RetransmitsTheSame
    
    
PROPERTIES
    HttpReturns
    SlotsGivenBack

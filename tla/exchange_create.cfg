SPECIFICATION Spec
CONSTANTS
    s1 = s1
    p1 = p1
    o1 = o1
    Nobody = Nobody
    Clients <- MCClients
    ObjectClients <- MCObjectClients
    PeerClients <- MCPeerClients
    SetLen = 2
    ObjectLen = 2
    AckLen = 3
    Pieces = 2
    PieceLen = 2
    Capacity = 2
    RecvRejected <- ByteIsError
    MaxBuffers = 14
CHECK_DEADLOCK FALSE
PROPERTIES
    CreateReturns

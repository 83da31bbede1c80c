SPECIFICATION Spec
CONSTANTS
    c1 = c1
    c2 = c2
    c3 = c3
    c4 = c4
    a = a
    ab = ab
    b = b
    None = None
    Conns <- MCConns4
    Names <- MCPrefixNames
    PrefixOf <- MCPrefixNamePairs
    Objects <- SomeObjects
    OffsetValues = 256
    BucketSize = 2
    SetHashRange = 500
    DataLength = 0
    MaxSet = 2
    RecvRejected <- NoByteIsError
    MaxBuffers = 3
    MaxEpoch = 4
CHECK_DEADLOCK FALSE
INVARIANTS
    OneFilePerLife
    SetTakesStarts

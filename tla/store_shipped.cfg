SPECIFICATION Spec
CONSTANTS
    c1 = c1
    c2 = c2
    c3 = c3
    c4 = c4
    a = a
    ab = ab
    b = b
    None = None
    Conns <- MCConns4
    Names <- MCPrefixNames
    PrefixOf <- MCPrefixNamePairs
    Objects <- EdgeObjects
    OffsetValues = 256
    BucketSize = 2
    SetHashRange = 500
    DataLength = 64
    MaxSet = 1
    RecvRejected <- ByteIsError
    MaxBuffers = 2
    MaxEpoch = 2
CHECK_DEADLOCK FALSE
INVARIANTS
    InertWhenByteRejected
    AnswersPerLife

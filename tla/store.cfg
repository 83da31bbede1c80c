SPECIFICATION Spec
CONSTANTS
    c1 = c1
    c2 = c2
    c3 = c3
    c4 = c4
    a = a
    ab = ab
    b = b
    None = None
    Conns <- MCConns4
    Names <- MCNames
    PrefixOf <- MCPrefixes
    Objects <- EdgeObjects
    OffsetValues = 256
    BucketSize = 2
    SetHashRange = 500
    DataLength = 64
    MaxSet = 1
    RecvRejected <- NoByteIsError
    MaxBuffers = 5
    MaxEpoch = 3
SYMMETRY ConnSymmetry
CHECK_DEADLOCK FALSE
INVARIANTS
    TypeOK
    LookupExact
    Retrievable
    NoOverlapInFile
    SpaceAccounted
    PlacedInOneBucket
    OpenFilesAreFresh
PROPERTIES
    OneAckPerConnection
    CreatedIsKnown
    ImplementsDirectory

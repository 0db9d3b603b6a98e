\* Replica-aware callers, with counted queries; room for two entries, of one target each
\* or of none: an empty list takes 8 bytes, one of one user 16, and one of two is too large.
SPECIFICATION CountedSpec
CONSTANTS
    Users = {0, 1, 2}
    Shards = {0, 1}
    NoShard = NoShard
    Home <- MCHome
    Capacity = 2
    ByteCapacity = 20
    NodeBytes = 8
    MaxDegree = 2
    MaxCount = 1
    MaxHubs = 2
INVARIANTS
    TypeOK
    EdgesKnown
    ReplicasMirrorHome
    NoLeftovers
    CachesCoherent
    QueryExact
    QueriesAgree
PROPERTY
    GraphSpec
CHECK_DEADLOCK FALSE

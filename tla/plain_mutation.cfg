\* The README's identical lists, under plain mutations of a replicated user.
SPECIFICATION ApiSpec
CONSTANTS
    Users = {1, 2}
    Shards = {0, 1}
    NoShard = NoShard
    Home <- MCHome
    Capacity = 1
    ByteCapacity = 0
    NodeBytes = 88
    MaxDegree = 1
    MaxCount = 0
    MaxHubs = 0
INVARIANT ReplicasMirrorHome
CHECK_DEADLOCK FALSE

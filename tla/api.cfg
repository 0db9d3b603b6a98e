\* Any caller: replicated users may be mutated by the plain methods.
SPECIFICATION ApiSpec
CONSTANTS
    Users = {0, 1, 2}
    Shards = {0, 1}
    NoShard = NoShard
    Home <- MCHome
    Capacity = 1
    ByteCapacity = 0
    NodeBytes = 88
    MaxDegree = 2
    MaxCount = 1
    MaxHubs = 1
INVARIANTS
    ReplicaPresence
    ExactWithoutReplicas
CHECK_DEADLOCK FALSE

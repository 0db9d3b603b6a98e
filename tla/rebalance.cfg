\* The whole API; plans may grow stale, be made up by the caller, and move a user of
\* one shard back and forth.
SPECIFICATION RebalanceSpec
CONSTANTS
    Users = {1, 2}
    Shards = {0, 1}
    NoShard = NoShard
    Home <- MCHome
    MaxDegree = 1
    MaxCount = 0
    MaxHubs = 0
    Capacity = 1
    ByteCapacity = 0
    NodeBytes = 8
    Thresholds = {0}
    MaxPlan = 1
INVARIANTS SoundPlanKept HomeCacheCoherent
PROPERTIES MovesLoseNothing

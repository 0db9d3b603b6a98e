\* One plan computed and applied is enough for a user to be looked for where it
\* no longer is.
SPECIFICATION RebalanceSpec
CONSTANTS
    Users = {1, 2}
    Shards = {0, 1}
    NoShard = NoShard
    Home <- MCHome
    MaxDegree = 1
    MaxCount = 0
    MaxHubs = 0
    Capacity = 1
    ByteCapacity = 1
    NodeBytes = 8
    Thresholds = {0}
    MaxPlan = 0
PROPERTIES MovesInvisible

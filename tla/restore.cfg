\* Two users on two shards, replica-aware callers; snapshots at any moment, and recovered
\* graphs that operations were replayed on, against the graph at any later moment.
SPECIFICATION RecoverySpec
CONSTANTS
    Users = {1, 3}
    Shards = {0, 1}
    NoShard = NoShard
    ThePlacement <- MCBalanced
    Home <- MCBalancedHome
    MaxId = 9
    MaxDegree = 2
    MaxCount = 0
    MaxHubs = 0
    Capacity = 1
    ByteCapacity = 1
    NodeBytes = 8
    MaxReplay = 2
INVARIANTS
    RestoreExact
    VerifyDecides

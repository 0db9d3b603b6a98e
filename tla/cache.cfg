\* All three policies, with room for three entries of four users: lists of 8 and
\* 24 bytes under a limit of 48, so that either limit may bind first, and one list
\* too large to be cached.  Four operations are stamped before numbers saturate.
SPECIFICATION SimulatedSpec
CONSTANTS
    Capacity = 3
    ByteCapacity = 48
    NodeBytes = 8
    CacheUsers = {u1, u2, u3, u4}
    CacheLists <- MCLists
    Policies = {"Lru", "Fifo", "Lfu"}
    MaxCounter = 3
    NoNode = NoNode
SYMMETRY UserSymmetry
INVARIANTS SlabConsistent IndexExact LimitsRespected VictimOfPolicy SimulatorAgrees
PROPERTIES CacheSpec

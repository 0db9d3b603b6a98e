\* A graph of three users with a cache that has room for two empty lists or one of
\* one user; all lists of up to five communities of up to three users on up to three shards
\* (13 users and more do not fit in the ID space); up to two communities of up to
\* five users to split (9 users and more do not fit); up to nine users on each of
\* three shards; generator arguments up to five; up to 21 pairs of queries that
\* take one of two times.
SPECIFICATION Spec
CONSTANTS
    Users = {1, 2, 3}
    MaxDegree = 2
    Capacity = 2
    ByteCapacity = 16
    NodeBytes = 8
    NoShard = NoShard
    MaxId = 12
    MaxShards = 3
    MaxCommunities = 5
    MaxSize = 3
    SplitMaxId = 8
    SplitCommunities = 2
    SplitSize = 5
    Limits = {0, 1, 2, 3}
    Shards = {0, 1, 2}
    UsersOfShard = 9
    Thresholds = {0, 10, 40}
    MaxUsers = 5
    UnevenCommunities = 3
    Durations = {1, 2}
    MaxSources = 3
    MaxRepetitions = 7
INVARIANTS
    AnswerExact
    BuiltAsCounted
    NearOptimal
    CutToSize
    SplitAsPlanned
    PlanImproves
    WorkloadAsRequested
    ComparisonFair
    PercentilesCorrect
PROPERTY
    GeneratorReturns
CHECK_DEADLOCK FALSE

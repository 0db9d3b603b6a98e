\* Two clients that may drop their calls, full channels, one worker that may stop.
SPECIFICATION Spec
CONSTANTS
    Users = {1, 2}
    Shards = {0, 1}
    Home <- MCHome
    Clients = {a, b}
    Nobody = Nobody
    ChannelCapacity = 1
    Pairs <- MCPairsFan
    Impatient = {a, b}
    Stops = {1}
INVARIANTS
    TypeOK
    EdgesKnown
    AnswerBracketed
    ErrorsBlameWorkers
PROPERTY
    ServiceSpec
SYMMETRY Symmetry

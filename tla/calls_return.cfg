\* Liveness: two clients, full channels, one worker that may stop.
SPECIFICATION FairSpec
CONSTANTS
    Users = {1, 2}
    Shards = {0, 1}
    Home <- MCHome
    Clients = {a, b}
    Nobody = Nobody
    ChannelCapacity = 1
    Pairs <- MCPairsFan
    Impatient = {}
    Stops = {1}
PROPERTY CallsReturn

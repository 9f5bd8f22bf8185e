SPECIFICATION FairSpec
CONSTANTS
    ClientConnections = 3
    ServerConnections = {2, 3}
    PostsFirst = TRUE
    Faults = {"resolve", "addr_handler", "route_handler", "connect_handler", "address", "route", "unreachable"}
CHECK_DEADLOCK FALSE
INVARIANTS
    TypeOK
    MetadataPaired
    ReceivesFirst
    DisconnectsCounted
    SuccessIsComplete
    DisconnectsAwaited
PROPERTIES
    BothEnd

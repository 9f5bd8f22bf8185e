SPECIFICATION FairSpec
CONSTANTS
    ClientConnections = 3
    ServerConnections = {3}
    PostsFirst = TRUE
    Faults = {"route_handler"}
CHECK_DEADLOCK FALSE
PROPERTIES
    ClientDrains

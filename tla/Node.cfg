SPECIFICATION Spec
CONSTANTS
    Programs = {"ws", "wi", "one_sided"}
    Connections = 2
    Sizes = {1, 3, 4}
    MappedLens = {1, 5, 6}
    Width = 3
    Faults <- AllCalls
INVARIANTS
    TypeOK
    RegistrationsBacked
    RegionsInside
PROPERTIES
    IdAfterDevice
    CleanupOutcome

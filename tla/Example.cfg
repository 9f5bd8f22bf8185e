SPECIFICATION FairSpec
CONSTANTS
    Clients = {c1, c2}
    Faults = {"client", "server", "channel", "fabric"}
CHECK_DEADLOCK FALSE
INVARIANTS
    TypeOK
    WakeupKept
    OneSidedServed
    BuffersEqual
PROPERTIES
    BothSucceed

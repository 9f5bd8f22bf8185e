SPECIFICATION FairLifeSpec
CONSTANTS
    Conns = {c1, c2}
    Lines = {l1}
    MaxSendWr = 2
    MaxRecvWr = 1
    Cqe = 1
    Breakable = {"client", "server"}
    UsePmem = FALSE
    MaxOps = 1
    Faulty = {"client"}
    Strangers = TRUE
CHECK_DEADLOCK FALSE
INVARIANTS
    LifeTypeOK
    ServedToTheEnd
PROPERTIES
    DisconnectLosesNothing
    ReleasedUntouched
    BothExit

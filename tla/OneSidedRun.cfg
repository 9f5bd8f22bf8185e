SPECIFICATION FairSpec
CONSTANTS
    Conns = {c1}
    Lines = {l1, l2}
    MaxSendWr = 2
    MaxRecvWr = 1
    Cqe = 1
    Breakable = {"client", "server"}
    MaxOps = 3
    Programs <- AllPrograms
INVARIANTS
    TypeOK
    CountedIsReceived
    QueuesSuffice
PROPERTIES
    StopJoins

SPECIFICATION Spec
CONSTANTS
    Conns = {c1}
    Lines = {l1, l2}
    MaxSendWr = 2
    MaxRecvWr = 1
    Cqe = 1
    Breakable = {"client", "server"}
    UsePmem = TRUE
    MaxOps = 3
CHECK_DEADLOCK FALSE
INVARIANTS
    CountedIsDurable
    QueuesSuffice
PROPERTIES
    PersistUndisturbed
    ImplementsPersist

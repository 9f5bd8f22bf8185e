SPECIFICATION Spec
CONSTANTS
    Conns = {c1}
    Lines = {l1}
    MaxSendWr = 2
    MaxRecvWr = 1
    Cqe = 1
    Breakable = {}
    MaxOps = 1
    Programs <- OnlyWriteRead
INVARIANTS
    CountedIsPlaced

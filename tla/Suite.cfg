SPECIFICATION FairSpec
CONSTANTS
    MemSizes <- OneMemSize
    Benchmarks <- TwoBenchmarks
    Threads <- ThreadNums
    Notified <- NotifiedBenchmarks
    Lag = 3
CHECK_DEADLOCK FALSE
INVARIANTS
    TypeOK
    ResultsMatch
PROPERTIES
    SuiteEnds

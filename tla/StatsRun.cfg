SPECIFICATION StatsSpec
CONSTANTS
    Workers = {w1, w2}
    MaxClock = 4
SYMMETRY Exchangeable
INVARIANTS
    StatsTypeOK
    SumsExact
    TotalsFit

CONSTANTS
    BENCHMARK_USE_ASID = FALSE
    BENCHMARK_SWITCHES = 4
    WORD = 3
    ASIDLENS <- MCAsidLens
SPECIFICATION FairSpec
INVARIANTS
    UserContext
    TlbCoherent
    Accounting
PROPERTIES
    ImplementsRoundRobin
    Completes
    TakeTurns

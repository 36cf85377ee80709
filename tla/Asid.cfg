CONSTANTS
    BENCHMARK_USE_ASID = TRUE
    BENCHMARK_SWITCHES = 4
    WORD = 3
    ASIDLENS <- MCAsidLens
SPECIFICATION FairSpec
INVARIANTS
    NeverStuck
    PrivatePages
PROPERTIES
    QuietAfterSummary
    Completes

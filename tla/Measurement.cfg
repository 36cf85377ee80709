CONSTANTS
    QUANTUM = 4
    SWITCHES = 4
    ENTRY = 1
    HANDLER = 3
SPECIFICATION Spec
INVARIANTS
    CostsFit
    QuantaKept
    TurnsAreWhole

CONSTANTS
    PAGE_SIZE = 3
    SV39_USER_TOP = 12
    SV39_SPAN = 24
    WORD = 48
    Tables <- MCTables
    Addresses <- MCAddresses
    Lengths <- MCLengths
    Requests <- MCRequests
SPECIFICATION Spec
CHECK_DEADLOCK FALSE
INVARIANTS
    AnswerRight
PROPERTIES
    Returns

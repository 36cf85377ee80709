CONSTANTS
    FANOUT = 5
    TEXT <- MCText
    USER_TEXT <- MCUserText
    USER_RODATA <- MCUserRodata
    RODATA <- MCRodata
    DATA <- MCData
    KERNEL_END = 57
    USER_ENTRY = 52
    RAM_ENDS <- MCRamEnds
    UART0 = 1
    USER_STACK_BASE = 25
    BENCHMARK_WORKING_SET_BASE = 34
    BENCHMARK_WORKING_SET_PAGES = 2
SPECIFICATION Spec
INVARIANTS
    TypeOK
    EveryPageOneUse
    UserPagesPrivate
    AddressSpaceComplete
    FailsOnlyWhenFull
PROPERTIES
    CreatedSpacesStay

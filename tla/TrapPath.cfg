CONSTANTS
    Others = {"s"}
    Files <- MCFiles
    Results = {0, 1}
    Addresses = {100}
    STACK = 6
    NESTED = 2
    USER_ENTRY = 90
    USER_STACK_TOP = 80
    TRIGGER = 200
SPECIFICATION Spec
INVARIANTS
    StackNeverLost
PROPERTIES
    TrapsAreTransparent

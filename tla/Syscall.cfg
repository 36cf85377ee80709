CONSTANTS
    FS_MAX_FILES = 2
    FS_MAX_OPEN_FILES = 2
    FS_DATA_MAX = 1
    FS_NAME_MAX = 2
    MAX_LENGTH = 2
    MAX_KEYS = 4
    Pid = 1
    b = b
    blank = blank
    hello = hello
    notes = notes
    long = long
    none = none
    cut = cut
    x = x
    y = y
    Bytes = {b}
    Blank = blank
    Names = {hello, notes, long, cut}
    NoName = none
    CutName = cut
    HelloName = hello
    HelloText <- MCText
    Pointers <- MCPointers
    Paths <- MCPaths
    Descriptors <- MCDescriptors
    Sizes <- MCSizes
    Printable = {x, y}
SPECIFICATION FairSpec
INVARIANTS
    AccessesChecked
    SumOnlyWhileCopying
    FailureIsClean
    CreateGivesNewFile
    LineIsWhatWasTyped
PROPERTIES
    CallsReturn

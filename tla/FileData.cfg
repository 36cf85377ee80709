CONSTANTS
    a = a
    b = b
    Blank = Blank
    Bytes = {a, b}
    FS_MAX_FILES = 2
    FS_MAX_OPEN_FILES = 2
    FS_DATA_MAX = 3
    Names = {"hello", "notes", "long"}
    LongNames = {"long"}
    NoName = ""
    CutName = "notes"
    HelloName = "hello"
    HelloText <- MCText
    Pids = {1}
    Buffers <- MCBuffers
    Lengths = {1, 4}
SPECIFICATION Spec
INVARIANTS
    OnlyWrittenBytes
PROPERTIES
    FilesOnlyGrow
    ImplementsFileApi

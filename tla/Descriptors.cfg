CONSTANTS
    a = a
    b = b
    Blank = Blank
    Bytes = {a}
    FS_MAX_FILES = 2
    FS_MAX_OPEN_FILES = 3
    FS_DATA_MAX = 1
    Names = {"hello", "notes", "long"}
    LongNames = {"long"}
    NoName = ""
    CutName = "notes"
    HelloName = "hello"
    HelloText <- MCText
    Pids = {1, 2}
    Buffers <- MCOneBuffer
    Lengths = {2}
SPECIFICATION Spec
PROPERTIES
    ImplementsFileApi

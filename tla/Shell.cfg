CONSTANTS
    FS_MAX_FILES = 2
    FS_MAX_OPEN_FILES = 2
    FS_DATA_MAX = 3
    FS_NAME_MAX = 2
    MAX_LENGTH = 4
    MAX_KEYS = 4
    COMMAND_SIZE = 4
    CAT_SIZE = 2
    Pid = 12
    c = c
    e = e
    space = space
    b1 = b1
    b2 = b2
    hello = hello
    other = other
    cut = cut
    none = none
    blank = blank
    nul = nul
    noline = noline
    banner_ = banner_
    prompt_ = prompt_
    help_ = help_
    unknown_ = unknown_
    usage_ = usage_
    error_ = error_
    ok_ = ok_
    fail_ = fail_
    newline_ = newline_
    zero = zero
    one = one
    two = two
    three = three
    four = four
    five = five
    six = six
    seven = seven
    eight = eight
    nine = nine
    Bytes <- MCBytes
    Blank = blank
    NoName = none
    CutName = cut
    HelloName = hello
    OtherName = other
    Nul = nul
    NoLine = noline
    Printable = {c, e, space}
    Space = space
    Names = {hello, other, cut}
    Pointers = {}
    Paths = {}
    Descriptors = {}
    Sizes = {}
    HelloPath <- MCcat
    HelloText <- MCText
    Digit <- MCDigit
    cat_command <- MCcat
    echo_command <- MCecho
    help_command <- MChelp
    pid_command <- MCpid
    memtest_command <- MCmemtest
    exit_command <- MCexit
    banner <- MCbanner
    prompt <- MCprompt
    help_text <- MChelp_text
    unknown_text <- MCunknown
    cat_usage <- MCusage
    cat_error <- MCerror
    memtest_ok <- MCok
    memtest_fail <- MCfail
    newline <- MCnewline
SPECIFICATION ShellFairSpec
INVARIANTS
    ShellTypeOK
    NoDescriptorLeft
PROPERTIES
    ImplementsTerminal

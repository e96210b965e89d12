SPECIFICATION Spec
CONSTANTS
    UINT = 16
    ULONG = 16
    ADDR = 16
    QWORD = 64
    None = None
    FOREVER = 40
    Code <- Loop
    Entry = 2
    InstSize = 2
    Symbols <- Names
    Lines <- Typed
    MaxBreaks = 2
    max_insts = 6
    BREAK_SPAN = 1
    BYTES_PER_LINE = 4
    LINES_PER_SCREEN = 2
    INSTS_PER_SCREEN = 2
    MAX_COUNT = 8
    Texts <- Short
PROPERTIES
    ContinuesAt
\* A session ends.
CHECK_DEADLOCK FALSE

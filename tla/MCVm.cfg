CONSTANTS
    Proc = {p1, p2}
    Init1 = p1
    NULL = NULL
    USER_LOW = 2
    USER_HIGH = 5
    BssStart = 2
    BssEnd = 3
    START_BRK = 5
    PAGE_SIZE = 2
    PT_ENTRY_COUNT = 2
    Value = {1}
    FileByte = 2
    MAX_ANON = 2
    MAX_SHADOW = 5
    MAX_LEN = 1
    WORD = 64
    MAX_BRK = 6
    Mapping <- MCMapping
SPECIFICATION MCSpec
 
PROPERTIES FrozenBelow 
CHECK_DEADLOCK FALSE

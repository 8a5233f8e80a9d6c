CONSTANTS
    ALIGNMENT = 2
    SIZEOF_SIZE_T = 1
    MAX_HEAP = 12
    SizeMod = 64
    IntMod = 32
    JUNK = 0
    NULL = NULL
    Ids = {a, b}
    Bytes = {5}
    Sizes = {1, 3, 15}
    FREE = FREE
SPECIFICATION Spec
INVARIANTS HeapInv
PROPERTIES IsAnAllocator
CHECK_DEADLOCK FALSE

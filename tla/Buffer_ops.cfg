CONSTANTS
    Byte = {a, b}
    Junk = Junk
    Page = 2
    InitSizes = {0, 1, 3}
    MaxBytes = 4
    MaxWindow = 5
    MaxBegin = 1
SPECIFICATION BufferSpec
INVARIANTS
    ContentsKept
    BrokenCause
CHECK_DEADLOCK FALSE

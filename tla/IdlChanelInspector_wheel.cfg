CONSTANTS
    Channel = {c1, c2}
    ReaderSeconds = 2
    WriterSeconds = 3
    AllSeconds = 0
    Values = {3, 12}
    MayReplace = TRUE
SPECIFICATION Spec
INVARIANTS
    TellsInTime
    FaultCause
PROPERTIES
    ImplementsDetector
CHECK_DEADLOCK FALSE

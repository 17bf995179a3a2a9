CONSTANTS
    Switches = {2}
    Quantities = {0, 2, 9, 12, 14}
    Values = {1, 2}
    MaxOptions = 2
    Client = {c1, c2}
    Fd = {f1, f2, f3}
    None = None
    DefaultBackLog = 2
SPECIFICATION FairSpec
INVARIANTS
    OptionsReach
    ReserveKept
    FaultCause
PROPERTIES
    PendingServed
CHECK_DEADLOCK FALSE

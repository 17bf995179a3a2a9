CONSTANTS
    Timer = {t1, t2}
    None = None
    Delays = {0, 1, 2}
    PerSecond = 2
    MaxLag = 2
    MaxLate = 2
SPECIFICATION FairSpec
INVARIANTS
    FaultCause
    NeverEarly
    EventsAccounted
PROPERTIES
    EveryTaskRuns
CHECK_DEADLOCK FALSE

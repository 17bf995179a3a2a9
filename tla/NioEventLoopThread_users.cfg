CONSTANTS
    Task = {t1, t2}
    Exit = exit
    UserStops = TRUE
SPECIFICATION FairSpec
INVARIANTS
    EarlyTasksRan
    SkipIsSafe
    FaultCause
PROPERTIES
    CallsReturn
CHECK_DEADLOCK FALSE

CONSTANTS
    Callers = {c1, c2}
    Loop = loop
    Kinds = {"plain", "cb", "shared"}
    Calls = {"close", "shutdown", "closeWtihDelay"}
    MaxCalls = 1
    BootstrapDies = TRUE
    NoWrite = nowrite
SPECIFICATION Spec
SYMMETRY CallerSymmetry
INVARIANTS
    TypeOK
    FaultCause
    CleanDeath
    HealthyNeverHalfClosed
CHECK_DEADLOCK FALSE

CONSTANTS
    Callers = {c1}
    Loop = loop
    Kinds = {}
    Calls = {"close"}
    MaxCalls = 1
    BootstrapDies = FALSE
    NoWrite = nowrite
SPECIFICATION Spec
INVARIANTS
    DestructorAssertion
CHECK_DEADLOCK FALSE

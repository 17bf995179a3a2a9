CONSTANTS
    Callers = {c1}
    Loop = loop
    Kinds = {"rawcb", "bufcb", "shared", "sharedcb", "emptycb"}
    Calls = {"close"}
    MaxCalls = 2
    BootstrapDies = FALSE
    NoWrite = nowrite
SPECIFICATION Spec
INVARIANTS
    OnePlace
    TrueMeansFlushed
    WireOrder
PROPERTIES
    ImplementsContract
CHECK_DEADLOCK FALSE

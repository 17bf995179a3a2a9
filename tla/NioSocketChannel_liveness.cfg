CONSTANTS
    Callers = {c1}
    Loop = loop
    Kinds = {"cb"}
    Calls = {"close", "shutdown"}
    MaxCalls = 2
    BootstrapDies = TRUE
    NoWrite = nowrite
SPECIFICATION FairSpec
PROPERTIES
    PeerGoneRemoved
    CloseCompletes
    PromisesAnswered
CHECK_DEADLOCK FALSE

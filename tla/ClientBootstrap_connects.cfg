CONSTANTS
    Attempt = {a1, a2, a3, a4}
    None = none
    Users = {"loop", "other"}
    MaxConnects = 2
    UserKeeps = FALSE
SPECIFICATION FairSpec
INVARIANTS
    OneChain
    ExactBooks
    FaultCause
PROPERTIES
    Reconnects
CHECK_DEADLOCK FALSE

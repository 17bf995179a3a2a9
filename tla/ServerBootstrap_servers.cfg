CONSTANTS
    Server = {s1, s2}
    Workers = {l1, l2}
    Base = base
    Conn = {c1, c2}
    None = none
SPECIFICATION FairSpec
INVARIANTS
    LoadMatches
    Spread
    HeldIsOpen
    FaultCause
PROPERTIES
    AcceptedOpens
    TeardownEnds
CHECK_DEADLOCK FALSE

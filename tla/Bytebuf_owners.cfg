CONSTANTS
    Buf = {b1, b2, b3}
    Ev = {e0, e1, e2}
    Lent = e0
    None = None
    MaxOp = 2
    MaxData = 2
SPECIFICATION Spec
INVARIANTS
    EvbuffersOwned
    FaultCause
CHECK_DEADLOCK FALSE

SPECIFICATION Spec
CONSTANTS
    a = a
    b = b
    p = p
    q = q
    Names = {a, b}
    Requests = {p, q}
    NoTitle = NoTitle
    Absent = Absent
    Backends = {FALSE}
    Ops = {"sync"}
    Faults = {}
    MaxTurns = 1
    MaxOps = 2
    MaxFaults = 0
SYMMETRY Symmetric
CHECK_DEADLOCK FALSE
INVARIANT NoTurnLost

SPECIFICATION Spec
CONSTANTS
    a = a
    b = b
    p = p
    q = q
    Names = {a, b}
    Requests = {p, q}
    NoTitle = NoTitle
    Absent = Absent
    Backends = {TRUE, FALSE}
    Ops = {"chat", "new", "label", "summarize", "cut", "delete", "rename", "sync", "merge", "init"}
    Faults = {"crash", "write", "model"}
    MaxTurns = 2
    MaxOps = 3
    MaxFaults = 1
SYMMETRY Symmetric
CHECK_DEADLOCK FALSE
INVARIANTS TypeOK   NoLockCycle

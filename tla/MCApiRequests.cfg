SPECIFICATION Spec
CONSTANTS
    Clients = {c, d}
    Rate = 1
    Burst = 2
    Every = 1
    Idle = 2
    Calls = {q, r, s}
    Priorities = {1, 2}
    BatchSize = 2
    Modes <- MCModes
    MaxClock <- MCMaxClock
    MaxGranted <- MCMaxGranted
CHECK_DEADLOCK FALSE
INVARIANTS TypeOK WithinRate ToldTheTruth FirstComeFirstServed
PROPERTY Served

SPECIFICATION Spec
CONSTANTS
    Callers = {cli, dashboard}
    Components <- ApiOnly
    Commands <- RolloutCommands
    Weights <- EdgeWeights
    Total = 4
    Step = 25
    Forces <- AnyForce
    Versions <- NoVersions
    HandCounts <- NoHand
    Faults <- AnyFault
    MaxFaults = 1
    ReadCounts <- UpToFour
SYMMETRY CallersAlike
INVARIANTS TypeOK StableServes

SPECIFICATION FairSpec
CONSTANTS
    Callers = {cli}
    Components <- ApiOnly
    Commands <- RolloutCommands
    Weights <- OneWeight
    Total = 4
    Step = 25
    Forces <- NotForced
    Versions <- NoVersions
    HandCounts <- NoHand
    Faults <- Losses
    MaxFaults = 2
    ReadCounts <- UpToFour
PROPERTIES ApiKeepsPromise CanaryCanBeEnded

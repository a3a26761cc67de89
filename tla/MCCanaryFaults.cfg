SPECIFICATION Spec
CONSTANTS
    Callers = {cli}
    Components <- ApiAndWeb
    Commands <- AllCommands
    Weights <- OneWeight
    Total = 4
    Step = 25
    Forces <- NotForced
    Versions <- MCVersions
    HandCounts <- OneHand
    Faults <- Refusals
    MaxFaults = 2
    ReadCounts <- UpToFour
INVARIANTS RecordMatchesCluster BorrowedIsReturned ActiveRolloutServes NeverCollide 
PROPERTIES ScalesStayBetween

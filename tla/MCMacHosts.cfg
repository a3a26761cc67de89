SPECIFICATION Spec
CONSTANTS
    Hosts = {h1, h2}
    NoHost = NoHost
    Minimum = 1
    Buffer = 1
    MaxWait = 1
    Leftovers <- MCLeftovers
    Faults <- AnyFault
    Heeds = TRUE
    Apart = TRUE
    MaxFaults = 2
    MaxCommands = 4
    MaxChecks = 1
    MaxClock = 4
INVARIANTS TypeOK  ReleaseAfterMinimum
PROPERTIES NoAllocationWithoutConsent   
CHECK_DEADLOCK FALSE
CONSTRAINT Few

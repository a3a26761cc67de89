SPECIFICATION Spec
CONSTANTS
    Missing = Missing
    Torn = Torn
    Order <- MCOrder
    Keys <- MCKeys
    KeyOf <- MCKeyOf
    Core <- MCCore
    Findable <- Unknown
    Healers <- InTheApi
    Commands <- StopStartDisable
    DefaultEnabled = TRUE
    MaxConsecutive = 1
    Backoff = 1
    Window = 3
    Faults <- AnyFault
    MaxFaults = 1
    MaxCommands = 2
    MaxClock = 4
INVARIANTS TypeOK OperatorsAreRemembered   
PROPERTIES StopIsRespectedUnlessLost
CHECK_DEADLOCK FALSE
CONSTRAINT Unspoilt

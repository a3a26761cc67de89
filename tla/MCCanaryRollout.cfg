SPECIFICATION Spec
CONSTANTS
    Weights <- MCWeights
    Steps <- MCSteps
    Ceilings <- MCCeilings
    LiveCounts <- MCLive
    ConfigEdits = TRUE
INVARIANTS TypeOK
PROPERTIES PromoteRaisesWeight

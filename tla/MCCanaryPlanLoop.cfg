SPECIFICATION Spec
CONSTANTS
    RestingInputs <- MCResting
    WeightInputs <- MCWeights
    MaxPoolInputs <- MCMaxPools
INVARIANTS ReturnsThePlan
\* The loop returns.
CHECK_DEADLOCK FALSE

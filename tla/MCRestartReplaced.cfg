SPECIFICATION Spec
CONSTANTS
    Keys <- MCKeys
    Reader <- MCReader
    Texts <- MCTexts
    Means <- MCMeans
    Default <- MCDefault
    AbsentReads <- MCAbsentReads
    SecretKeys <- MCSecret
    Options <- MCOptions
    Operators = {operator}
    Patient = TRUE
    Spaced = TRUE
    Faults <- NoFaults
    MaxFaults = 0
INVARIANT NothingDriftsSilently

SPECIFICATION FairSpec
CONSTANTS
    Keys <- MCKeys
    Reader <- MCReader
    Texts <- MCTexts
    Means <- MCMeans
    Default <- MCDefault
    AbsentReads <- MCAbsentReads
    SecretKeys <- MCSecret
    Options <- MCOptions
    Operators = {operator}
    Patient = TRUE
    Spaced = TRUE
    Faults <- AnyFault
    MaxFaults = 1
INVARIANTS NoDivergenceUnreported RecordIsWhatRuns NoNoticeAfterRevert
PROPERTIES KeepsPromise 

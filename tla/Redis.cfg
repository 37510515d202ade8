SPECIFICATION TestFairSpec
CONSTANTS
    k1 = k1
    Attempts = 3
    Keys = {k1}
    MaxSeq = 5
    MaxFaults = 1
    MaxOther = 1
    MaxAlone = 3
INVARIANTS
    AnswerIsTrue
    ResultIsMerged
    PassedMeansShown
    OnlyHastyReadsFail
    NoDataRace
PROPERTY
    TestEnds
CHECK_DEADLOCK FALSE

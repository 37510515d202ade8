SPECIFICATION FairSpec
CONSTANTS
    f1 = f1
    f2 = f2
    Finders = {f1, f2}
    Wanted <- FoundAndMissing
    ChanCap = 1
    MaxSeq = 3
    MaxRedeliver = 1
INVARIANTS
    AnswerHasReason
    CloseWaitsForCalls
PROPERTIES
    CloseReturns
    MatchIsFound
CHECK_DEADLOCK FALSE

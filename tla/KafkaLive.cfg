SPECIFICATION FairSpec
CONSTANTS
    t1 = t1
    f1 = f1
    f2 = f2
    Topics = {t1}
    Finders = {f1}
    TopicOf <- AloneTopic
    Wanted <- Second
    BufferSize = 2
    ChanCap = 1
    MaxOffset = 4
    MaxFaults = 1
    MayClose = TRUE
INVARIANT
    AnswerHasReason
PROPERTIES
    NoGoroutineIsStuck
    MatchIsFound
    CallReturns
    CloseEndsAll
CHECK_DEADLOCK FALSE

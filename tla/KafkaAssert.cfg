SPECIFICATION FairSpec
CONSTANTS
    t1 = t1
    f1 = f1
    f2 = f2
    Topics = {t1}
    Finders = {f1, f2}
    TopicOf <- OneTopic
    Wanted <- OneEach
    BufferSize = 2
    ChanCap = 1
    MaxOffset = 2
    MaxFaults = 0
    MayClose = FALSE
PROPERTY
    MatchIsAlwaysFound

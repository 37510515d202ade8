SPECIFICATION Spec
CONSTANTS
    t1 = t1
    f1 = f1
    f2 = f2
    Topics = {t1}
    Finders = {f1, f2}
    TopicOf <- OneTopic
    Wanted <- EarlyAndLate
    BufferSize = 2
    ChanCap = 1
    MaxOffset = 3
    MaxFaults = 0
    MayClose = FALSE
INVARIANTS
    TableIsExact
    InOrder
PROPERTY
    DeliversExactlyOnce

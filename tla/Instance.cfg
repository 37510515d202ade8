SPECIFICATION FairSpec
CONSTANTS
    Suites = {s1, s2, s3, s4}
    Leaky = {s3}
    MayFail = {s2}
    MaxMessages = 3
INVARIANTS
    HolderHasInstance
    CountIsHolders
PROPERTIES
    ClosedReadersEnd
    ClientIsClosed
CHECK_DEADLOCK FALSE

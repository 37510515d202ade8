SPECIFICATION FairSpec
CONSTANTS
    Callers = {c1, c2, c3}
    Leeway = 1
    Fallback = 3
    Lives = {1, 3}
    MaxTime = 5
    MaxCalls = 1
INVARIANTS
    NeverAnOlderToken
    BadTokenIsGivenUp
PROPERTIES
    CallsReturn
    OneRefreshPerExpiry
CHECK_DEADLOCK FALSE

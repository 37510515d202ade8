SPECIFICATION FairSpec
CONSTANTS
    s1 = s1
    s2 = s2
    n1 = n1
    n2 = n2
    Suites = {s1, s2}
    Kind <- OneFull
    Deposits = {s1}
    Phones = {n1, n2}
    MaxTime = 2
    MaxFaults = 1
INVARIANTS
    ReturnsOwnPlayer
    ForeignCodeNeedsSharedContact
    DepositIsInWallet
PROPERTY
    CallSucceeds
CHECK_DEADLOCK FALSE

SPECIFICATION TestFairSpec
CONSTANTS
    Keys = {"id", "labelUUID", "player_uuid", "playerID", "block_uuid", "verification_id", "limitID"}
    Templates <- TwoHoles
    Parameters <- PlainAndBraces
    Statuses = {200, 204, 404, 500}
    Timeout = 10
    Size <- Small
    MaxFaults = 2
    MaxLength = 6
    ThisYear = 2025
    Ages = {18, 25, 125}
INVARIANTS
    PathIsOrderFree
    OutcomeIsTold
    PathNamesItem
    PassedMeansDone
    OnlyRowsFail
    GeneratedFits
PROPERTY
    CatalogueEnds
CHECK_DEADLOCK FALSE

SPECIFICATION MCSpec
CONSTANTS
    Projects = {"own", "other"}
    httpRetry = 2
INVARIANTS
    SessionInv
    FaultsHaveCauses
PROPERTY CallsReturn
CHECK_DEADLOCK FALSE

SPECIFICATION FairSpec
CONSTANTS
    Objects = {o1, o2}
    Routines = 2
    Blocks = 2
    Findata = TRUE
    Events <- AllEvents
INVARIANTS
    FindataNeverTruncates
PROPERTIES
    UploadReturns
CHECK_DEADLOCK FALSE

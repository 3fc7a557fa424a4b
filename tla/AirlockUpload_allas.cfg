SPECIFICATION FairSpec
CONSTANTS
    Objects = {o1, o2, o3}
    Routines = 2
    Blocks = 2
    Findata = FALSE
    Events <- AllEvents
INVARIANTS
    OkMeansStored
    HeaderFirst
    NothingLeftRunning
PROPERTIES
    UploadReturns
    ImplementsUploadSet
CHECK_DEADLOCK FALSE

SPECIFICATION FairSpec
CONSTANTS
    Mode = "cli"
    Mounter = mounter
    Updaters = {u1}
    Quitters = {q1}
    NoProc = NoProc
    Events <- CliEvents
INVARIANTS
    ExclusiveTree
    UnlockedTreeBuilt
PROPERTIES
    InterruptEndsProcess
    UpdateCompletes
CHECK_DEADLOCK FALSE

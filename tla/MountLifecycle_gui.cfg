SPECIFICATION FairSpec
CONSTANTS
    Mode = "gui"
    Mounter = mounter
    Updaters = {u1, u2}
    Quitters = {q1, q2}
    NoProc = NoProc
    Events <- GuiEvents
INVARIANTS
    LockInv
    ClosedMeansUnmounted
PROPERTIES
    DestroyIsFinal
    QuitSettles
CHECK_DEADLOCK FALSE

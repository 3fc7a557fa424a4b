SPECIFICATION FairSpec
CONSTANTS
    Walkers = {1, 2}
    Packets <- MCPackets
    Skipped = Skipped
    Unreadable = Unreadable
    MaxEntries = 2
INVARIANTS
    AnswerIsTrue
    WalkInv
PROPERTY WalkReturns
CHECK_DEADLOCK FALSE

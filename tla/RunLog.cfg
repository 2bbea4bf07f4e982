CONSTANTS
    None = None
    MaxLine = 5
    MaxBuffer = 3
    Dropped = 1
    MaxFlying = 1
SPECIFICATION FairSpec
INVARIANTS LogInv ShownInOrder StoppedShowsAll
CHECK_DEADLOCK FALSE
PROPERTIES Recorded

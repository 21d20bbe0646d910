SPECIFICATION FairSpec
CONSTANTS
    NumThreads = 3
    Handle = {}
    NoHandle = NoHandle
    Mutex = {}
    MaxDelay = 1
    MaxNesting = 1
    LastState = 1
    RunState <- Straight
    NoReturn <- StraightEnds
    Callback = {c1}
    NoPhase = NoPhase
    MaxBlocks = 2
CHECK_DEADLOCK FALSE
INVARIANTS OthersWhenOpen PhaseWaitsForThreads
PROPERTY BootEnds

\* Two agents and two callbacks, which may act whenever main lets them.
SPECIFICATION Spec
CONSTANTS
    LastState = 3
    RunState <- ShortTable
    NoReturn <- ShortEnds
    Callback = {c1, c2}
    Agent = {a1, a2}
    NoPhase = NoPhase
    MaxBlocks = 2
CHECK_DEADLOCK FALSE
INVARIANTS BlockHolds TimelyAreCalled RefusalStands

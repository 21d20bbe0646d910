SPECIFICATION ConsoleSpec
CONSTANTS
    Nothing = Nothing
    Smi = Smi
    Warning = Warning
    PreSize = 2
    StaticSize = 2
    CbmemSize = 5
    MaxBytes = 6
    MaxSmi = 2
    MaxResets = 2
CHECK_DEADLOCK FALSE
INVARIANT InOrder
INVARIANT WholeUnlessFlagged

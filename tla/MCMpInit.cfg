SPECIFICATION MpFairSpec
CONSTANTS
    NumAps = 2
    MaxCpus = 4
    f1 = f1
    f2 = f2
    Frame = {f1, f2}
    NoFrame = NoFrame
    MaxRestarts = 1
    MaxExpired = 1
CHECK_DEADLOCK FALSE
INVARIANT BspWorksAlone
INVARIANT NobodyLost
INVARIANT RelocateAlone
INVARIANT Delivered
INVARIANT SuccessMeansDone
PROPERTY Returns

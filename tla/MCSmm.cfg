SPECIFICATION FairSpec
CONSTANTS
    CPU = {c1, c2}
    Size = 9
    SectorSize = 3
    Value <- MCValue
    MaxBody = 1
    MaxFaults = 1
    Event <- MCEvent
    Header = 1
    MaxEvent = 2
    LogSize = 11
    ShrinkSize = 4
    LogClear <- MCLogClear
    MaxFailures = 1
INVARIANT OneServer
INVARIANT Durable
INVARIANT MirrorMatchesFlash
INVARIANT RoomForEvent
INVARIANT BrokenOnlyByFailure
PROPERTY HeldUntilDone
PROPERTY AddedIsFound
PROPERTY EveryoneLeaves

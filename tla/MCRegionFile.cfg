\* One erase sector; the smallest value, one that leaves room for several
\* updates, the largest that fits and one that does not.
SPECIFICATION FairSpec
CONSTANTS
    Blocks = 8
    SectorBlocks = 8
    PerBlock = 2
    Unallocated = 10
    v1 = v1
    v2 = v2
    v3 = v3
    v4 = v4
    Value = {v1, v2, v3, v4}
    Size <- AnySize
    NoValue = NoValue
    Erased = Erased
    Garbage = Garbage
INVARIANTS MemoryMatchesFlash
PROPERTIES ImplementsStoredItem UpdateEnds

SPECIFICATION Spec
CONSTANTS
    Blocks = 8
    SectorBlocks = 8
    PerBlock = 2
    Unallocated = 10
    a1 = a1
    a2 = a2
    b1 = b1
    A = A
    B = B
    Data = {a1, a2, b1}
    Version = {A, B}
    VersionOf <- DataVersion
    Size <- DataSize
    InvalidSig = InvalidSig
    None = None
    Erased = Erased
    Garbage = Garbage
INVARIANTS UsedIsGood SuccessIsLoadable

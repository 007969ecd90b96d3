SPECIFICATION MemorySpec
CONSTANTS
    HeapSize = 9
    BlockSizes <- MCBlockSizes
    Sizes = {1, 3, 5}
    Aligns = {1, 2, 4, 8}
    Cpus = {c1, c2}
    SmallMax = 3
    FreeAlign = 2
    Callers = {x1, x2}
SYMMETRY MCSymmetry
INVARIANTS
    MemoryTypeOK
    HeapSound
    Backed
PROPERTIES
    ImplementsMemory

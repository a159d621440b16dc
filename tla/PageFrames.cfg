SPECIFICATION FramesSpec
CONSTANTS
    MaxBlocks = 5
    WordBits = 2
    CounterMod = 64
    Pages = {0, 1, 2, 3, 4, 5, 6}
    NotPresent = NotPresent
INVARIANTS
    ExclusiveFrames
    BitmapExact
PROPERTIES
    AllocationFindsFreeBlock

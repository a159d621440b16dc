SPECIFICATION Spec
CONSTANTS
    PageSize = 16
    TableSpan = 11
    HeapStart = 176
    HeapInitial = 176
    HeapMax = 480
    Sizes = {3, 12, 152}
    PageSizes = {32}
    MaxDepth = 3
    Null = Null
INVARIANTS
    PayloadsDisjoint
    OnlyOneWordHit
PROPERTIES
    MallocReturns
CHECK_DEADLOCK FALSE

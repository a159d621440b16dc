SPECIFICATION Spec
CONSTANTS
    MaxBlocks = 30
    WordBits = 4
    CounterMod = 64
    PageSize = 8
    TableSpan = 4
    KernPage = 16
    KernelPages = 12
    HeapPages = 8
    IdenLast = 2
    KernelEnd = 5
    ModEnds = {3, 8, 11, 13, 18, 22, 46, 90, 97, 300}
INVARIANTS
    DirectMap
    TablesDisjoint
    NullPageIsolated
PROPERTIES
    BootCompletes
CHECK_DEADLOCK FALSE

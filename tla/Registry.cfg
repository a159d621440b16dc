SPECIFICATION DirsSpec
CONSTANTS
    Callers = {a, b}
    Names = {x, y}
    MaxNodes = 2
    ReadsRoot = {b}
    WritesRoot = {a}
    NotFound = NotFound
INVARIANTS
    UniqueNames
    LookupsAreRight
PROPERTIES
    LocksAreReleased

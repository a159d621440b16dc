SPECIFICATION ListSpecification
CONSTANTS
    Nodes = {n1, n2, n3, n4}
    Null = Null
INVARIANTS
    WellFormed
PROPERTIES
    IsAbstractList
CHECK_DEADLOCK FALSE

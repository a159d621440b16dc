SPECIFICATION Spec
CONSTANTS
    Keys <- MCKeys
    MaxBytes = 1
    READ_QUEUE_SIZE = 3
    Trigger = 2
    UartFifo = 3
    Bytes = {1, 2}
    Field = 3
    HighWeight = 3
    LowWeight = 2
    SecondsSpan = 11
    MaxTime = 8
INVARIANTS
    ModifiersAreHeld
    BytesInOrder
    StallsHaveReasons
    AnswersAreShown
PROPERTIES
    BytesAreRead
    ClockKeepsTime
CHECK_DEADLOCK FALSE

SPECIFICATION Spec
CONSTANTS
    NumTasks = 2
    TickMod = 5
    MaxSleep = 2
    Sleepers = {0}
    None = None
INVARIANTS
    NothingInService
PROPERTIES
    OwnAnswers
    SleepsLongEnough
    SleepEnds

SPECIFICATION Spec
CONSTANTS
    Nodes = {t1, t2, t3}
    Null = Null
    TickMod = 2
    Idle = t1
    Creators = {t1, t2, t3}
    Exiters = {t2, t3}
INVARIANTS
    RunsOnLiveMemory
    NoTaskLost
    UsageAddsUp
    OwnContext
PROPERTIES
    EveryTaskRuns
    ZombiesAreReaped

SPECIFICATION Spec
CONSTANTS
    Nodes = {t1, t2, t3}
    Null = Null
    TickMod = 1
    Idle = t1
    Creators = {t1}
    Exiters = {t2, t3}
INVARIANTS
    DestroyThenTryAgain

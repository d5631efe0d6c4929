SPECIFICATION FairSpec
CONSTANTS
    Threads = {t1, t2}
    MaxNest = 1
    Scenarios = {{"scan", "freeze"}}
PROPERTY FreezeEnds
CHECK_DEADLOCK FALSE

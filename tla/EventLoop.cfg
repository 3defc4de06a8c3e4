SPECIFICATION SpecMC
CONSTANTS
    Thread = {c1, c2}
    FewThreads = {c1}
    Timer = {t1, t2}
    FewTimers = {t1}
    NULL = NULL
    Task = {k1, k2, k3}
    MaxTime = 3
INVARIANTS WakeupNotLost TimersAreArmed NotTooOften
PROPERTIES KeepsPromise FunctorsRun QuitEnds TimersRun
CHECK_DEADLOCK FALSE

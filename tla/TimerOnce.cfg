\* Three timers, each linked into the list at most once.
SPECIFICATION FairSpec
CONSTANTS
    t1 = t1  t2 = t2  t3 = t3
    Timers = {t1, t2, t3}
    NULL = NULL
    MaxTime = 3
    Timeouts = {1, 2}
    Periods = {1}
    Rearming = FALSE
INVARIANTS TypeOK ListIsSorted
PROPERTY TimersProgress

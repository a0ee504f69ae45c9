\* Two timers under every sequence of calls.
SPECIFICATION Spec
CONSTANTS
    t1 = t1  t2 = t2  t3 = t3
    Timers = {t1, t2}
    NULL = NULL
    MaxTime = 3
    Timeouts = {0, 2}
    Periods = {1}
    Rearming = TRUE
SYMMETRY MCSymmetry
INVARIANT ListIsSorted
PROPERTY FiresInOrder

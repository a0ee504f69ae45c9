\* The three engines.
SPECIFICATION FairSpec
CONSTANTS
    MsecPerSec = 4
    UsecPerMsec = 2
    NsecPerUsec = 2
    IntMax = 15
    LoopMaxTime = 5
    Intervals <- MCIntervals
    MaxWork = 1
    MaxTimers = 2
    MaxTime = 13
INVARIANTS TypeOK SleepsAtMostLoopMaxTime WakesInTimeUnlessKevent
PROPERTY DueFires

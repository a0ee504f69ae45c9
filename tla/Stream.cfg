\* A buffer of two bytes that doubles to four, and then grows by one.
SPECIFICATION FairSpec
CONSTANTS
    BufInit = 2
    BufMin = 1
    Headroom = 0
    GrowAt = 4
    GrowStep = 1
    MaxIn = 5
    MaxOut = 2
    MaxSend = 2
INVARIANTS TypeOK ReadsInOrder WritesInOrder
PROPERTIES ArrivedIsShown EndIsHeardUnlessStale
\* A socket that was closed is not used again.
CHECK_DEADLOCK FALSE

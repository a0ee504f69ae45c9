\* A buffer of two bytes that doubles to four, and then grows by one.
SPECIFICATION Spec
CONSTANTS
    BufInit = 2
    BufMin = 1
    Headroom = 0
    GrowAt = 4
    GrowStep = 1
    MaxIn = 1
    MaxOut = 3
    MaxSend = 2
INVARIANT AllSentBeforeClosing
\* A socket that was closed is not used again.
CHECK_DEADLOCK FALSE

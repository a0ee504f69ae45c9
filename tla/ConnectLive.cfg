\* One attempt, with everything it may meet.
SPECIFICATION FairSpec
CONSTANTS
    s1 = s1  s2 = s2  s3 = s3
    Sockets = {s1}
    NULL = NULL
    MaxFd = 2
    Requests <- MCAllRequests
    Hosts <- MCNoHost
    MaxClients = 1
PROPERTY AttemptEndsUnlessBroken
CHECK_DEADLOCK FALSE

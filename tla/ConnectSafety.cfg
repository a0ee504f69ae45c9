\* Two sockets, and a file descriptor for each attempt.
SPECIFICATION Spec
CONSTANTS
    s1 = s1  s2 = s2  s3 = s3
    Sockets = {s1, s2}
    NULL = NULL
    MaxFd = 3
    Requests <- MCAllRequests
    Hosts <- MCAnyHost
    MaxClients = 1
SYMMETRY MCSymmetry
INVARIANTS TypeOK DescriptorsSound ConnectedAsAsked
           EventsAreTrueUnlessEarly
PROPERTY ImplementsSocketEvents
\* Each descriptor is used once.
CHECK_DEADLOCK FALSE

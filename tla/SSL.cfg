\* Both libraries and both roles, with three items on the way.
SPECIFICATION FairSpec
CONSTANTS
    MaxIn = 3
    MaxAsks = 1
INVARIANTS TypeOK WaitsAreWatched HeardAsEstablished
PROPERTIES HandshakeEndsUnlessBlocked QueuedIsSentUnlessReading
\* A socket that was closed is not used again.
CHECK_DEADLOCK FALSE

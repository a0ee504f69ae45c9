\* Two sockets and that of c-ares, two numbers, each engine.
SPECIFICATION Spec
CONSTANTS
    MaxSocks = 3
    MaxFds = 2
INVARIANTS TypeOK RegisteredAsWanted
PROPERTIES EventsAreReal ReportedIsServed
\* A program with no socket waits for ever.
CHECK_DEADLOCK FALSE

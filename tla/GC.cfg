\* Three objects, three heap cells: an entry can reuse the cell of an entry
\* that was freed, also the one last_object still points to.
SPECIFICATION FairSpec
CONSTANTS
    Objects = {o1, o2, o3}
    Addrs = {a1, a2, a3}
    o1 = o1  o2 = o2  o3 = o3
    a1 = a1  a2 = a2  a3 = a3
    NULL = NULL
    IogcTimeout = 1
    MaxTime = 4
    MaxSetbacks = 1
INVARIANTS TypeOK ListIsSafe
PROPERTIES ImplementsDeferredFree LinkedIsFreed

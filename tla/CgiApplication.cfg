SPECIFICATION FairSpec
CONSTANTS
    MaxRequests = 3
    MaxFaults = 1
    KeepConn = {3}
    MaxThreads = 2
CHECK_DEADLOCK FALSE
INVARIANTS
    TypeOK
    DrainedAtExit
    StopsAccepting
    RequestsEndWell
PROPERTIES
    ImplementsService
    RequestsAreServed
    ProcessEnds

SPECIFICATION FairSpec
CONSTANTS
    Clients = {c1, c2}
    Queues <- MCQueues
INVARIANTS
    TypeOK
    NoStreamCut
PROPERTIES
    StopsOnSignal
    FailureStops
CHECK_DEADLOCK FALSE

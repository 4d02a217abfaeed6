\* Two workers on one server, a job, two tries, a channel of one job.
CONSTANTS
    NWorkers = 2
    NServers = 1
    j1 = j1
    Jobs = {j1}
    Chosen <- FirstWorker
    MaxRetries = 2
    Trusting = {0}
    Capacity = 1
    NoCall = NoCall
SPECIFICATION FairSpec
\* The run ends.
CHECK_DEADLOCK FALSE
INVARIANTS
    TypeOK
    SendsHoldTheirWorker
    
PROPERTIES
    IsDelivery
    RunEnds
    LockIsFreed

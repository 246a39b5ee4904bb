SPECIFICATION FairSpec
CONSTANTS
    Process = {p1}
    Tenants = 2
    MaxJobs = 2
    MaxPerCycle = 1
    DiscoverLimit = 1
    MaxRecovery = 2
    MaxRaises = 1
    MaxStops = 2
INVARIANTS TypeOK QueueAgrees NoneForgotten
PROPERTIES Settles
CHECK_DEADLOCK FALSE

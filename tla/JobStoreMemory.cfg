\* The in-memory store: no row is ever skipped, so order is by priority and age.
SPECIFICATION Spec
CONSTANTS
    Job <- TwoJobs
    Scope = {s1}
    Worker = {w1}
    Owner = {drain}
    NoOwner = NoOwner
    NoWorker = NoWorker
    ScopeOf <- MCScopeOf
    PriorityOf <- MCPriorityOf
    SweepScope <- MCSweepScope
    OwnerOf <- MCOwnerOf
    MaxRecovery = 2
    LeaseDuration = 2
    AgingInterval = 1
    SkipLocked = FALSE
    MaxTime = 3
    MaxPauses = 0
PROPERTIES AgedFirst
CHECK_DEADLOCK FALSE

\* The PostgreSQL store: SKIP LOCKED sweeps, two workers under one owner name.
SPECIFICATION Spec
CONSTANTS
    Job <- OneJob
    Scope = {s1}
    Worker = {w1, w2}
    Owner = {drain}
    NoOwner = NoOwner
    NoWorker = NoWorker
    ScopeOf <- MCScopeOf
    PriorityOf <- MCPriorityOf
    SweepScope <- MCSweepScope
    OwnerOf <- MCOwnerOf
    MaxRecovery = 2
    LeaseDuration = 2
    AgingInterval = 1
    SkipLocked = TRUE
    MaxTime = 5
    MaxPauses = 1
INVARIANTS TypeOK LeaseAccounting TokenUnique NoStealBeforeExpiry LedgerNeverWedged OwnerNeverRefused
PROPERTIES FencedWrites ContractHonoured
SYMMETRY WorkerSymmetry
CHECK_DEADLOCK FALSE

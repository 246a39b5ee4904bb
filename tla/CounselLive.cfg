\* Every leased job ends or is paused.
SPECIFICATION FairSpec
CONSTANTS
    Worker = {w1, w2}
    Students = 1
    MaxRecovery = 2
    Circuit = 2
    Outlives = TRUE
    MaxResumes = 1
PROPERTIES Settles
CHECK_DEADLOCK FALSE

\* A retry after a crash between the pack and succeed.
SPECIFICATION Spec
CONSTANTS
    Worker = {w1, w2}
    Students = 1
    MaxRecovery = 2
    Circuit = 2
    Outlives = FALSE
    MaxResumes = 0
INVARIANTS RetrySameRecord
SYMMETRY WorkerSymmetry
CHECK_DEADLOCK FALSE

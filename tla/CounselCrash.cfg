\* Executions crash, but none outlives its lease.
SPECIFICATION Spec
CONSTANTS
    Worker = {w1, w2}
    Students = 3
    MaxRecovery = 3
    Circuit = 2
    Outlives = FALSE
    MaxResumes = 1
INVARIANTS TypeOK StepsTellPack
PROPERTIES KeptWork
SYMMETRY WorkerSymmetry
CHECK_DEADLOCK FALSE

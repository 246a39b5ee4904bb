\* A lease may expire under a live execution: two of them on one thread.
SPECIFICATION Spec
CONSTANTS
    Worker = {w1, w2}
    Students = 2
    MaxRecovery = 2
    Circuit = 2
    Outlives = TRUE
    MaxResumes = 0
INVARIANTS ResultReadable NoDanglingDraft
PROPERTIES PackImmutable
SYMMETRY WorkerSymmetry
CHECK_DEADLOCK FALSE

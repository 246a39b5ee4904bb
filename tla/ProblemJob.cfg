SPECIFICATION Spec
CONSTANTS
    Count = 2
    Limit <- AttemptLimit
    MaxRecovery = 2
    RegenEnabled = TRUE
    Automatic = TRUE
    Procures = TRUE
    DropSample = 1
    DropNum = 3
    DropDen = 10
    OutageStreak = 1
    MaxDistance = 2
    Outlives = FALSE
INVARIANTS TypeOK StateTellsStore NotDrawnAgain CandidateStands ResultStands StepsBounded
PROPERTIES SetSettles
CHECK_DEADLOCK FALSE

SPECIFICATION Spec
CONSTANTS
    Handler = {h1, h2, h3}
    Axis = {topic, urgency}
    Value = {v1, v2}
    None = None
    MaxCalls = 3
    MaxReviews = 2
    MaxFaults = 1
INVARIANTS TypeOK CorrectionsReal LabelAsTold
PROPERTIES ReviewStands
SYMMETRY Symmetry
CHECK_DEADLOCK FALSE

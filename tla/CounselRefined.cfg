SPECIFICATION Spec
CONSTANTS
    Handler = {h1, h2}
    Context = {c1}
    Rest = {r1}
    Turn = {t1}
    MaxSends = 2
    MaxFaults = 0
INVARIANT RefinedShown
CHECK_DEADLOCK FALSE

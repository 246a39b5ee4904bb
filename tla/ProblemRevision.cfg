SPECIFICATION Spec
CONSTANTS
    Handler = {h1, h2}
    Key = {k1, k2}
    None = None
    MaxAsks = 3
    MaxSends = 4
    MaxFaults = 1
SYMMETRY Symmetry
INVARIANTS TypeOK HistoryWhole AppliedOnce BasedOnShown
CHECK_DEADLOCK FALSE

SPECIFICATION FairSpec
CONSTANTS
    Handler = {h1, h2}
    Context = {c1, c2}
    Rest = {r1}
    Turn = {t1}
    MaxSends = 2
    MaxFaults = 1
INVARIANTS TypeOK OwnJob PollsAgree ShownWasStored
PROPERTY ResultShown
CHECK_DEADLOCK FALSE

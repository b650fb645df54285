SPECIFICATION FairSpec
CONSTANTS
    Msgs = {p1, p2}
    Flushers = {p1}
    s1 = s1
    s2 = s2
    NoSub = NoSub
    Subs <- MCSubs
    Groups = {store, replay}
    Leavers <- MCLeavers
    BufSize = 1
    Workers = 1
    MaxRedeliver = 1
INVARIANTS
    InFlightIsExact
    NilMeansEveryGroup
PROPERTIES
    FlushCompletes
CHECK_DEADLOCK FALSE

SPECIFICATION FairSpec
CONSTANTS
    Callers = {c1, c2, c3, c4}
    Threshold = 3
INVARIANTS
    OneProbe
PROPERTIES
    ClosesAgain
    ReProbes

CONSTANTS
    Nodes = {a, r}
    First = a
    Reader = r
    MaxTimeline = 2
    MaxEpoch = 1
SPECIFICATION FairSpec
INVARIANT AckIsFenced
PROPERTIES PromotionIsKept StalePrimaryIsFenced WritesResume

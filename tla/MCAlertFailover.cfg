SPECIFICATION AlertFairSpec
CONSTANTS
    r1 = r1
    r2 = r2
    None = None
    Replicas <- MCReplicas
    Rules = {"trap", "metric"}
    ForN = 2
    MaxEpisodes = 2
    MaxTerms = 3
INVARIANTS
    PagedOnce
    StartsClean
PROPERTIES
    ReceiverSettles
CHECK_DEADLOCK FALSE

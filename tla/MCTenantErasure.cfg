SPECIFICATION FairSpec
CONSTANTS
    r1 = r1
    r2 = r2
    w1 = w1
    w2 = w2
    Replicas <- MCReplicas
    Writers <- MCWriters
    Jobs <- MCJobs
    MaxFaults = 2
    MaxEvidence = 1
INVARIANTS
    AttestedIsEmpty
    ShredFollowsErasure
PROPERTIES
    FencedStoresOnlyShrink
    EraseCompletes
CHECK_DEADLOCK FALSE

SPECIFICATION FairSpec
CONSTANTS
    r1 = r1
    r2 = r2
    None = None
    Torn = Torn
    Replicas <- MCReplicas
    PageSize = 2
    Legacy = 1
    MaxSeq = 3
    MaxTerms = 2
INVARIANTS
    PrunedIsArchived
    OneLooseEnd
PROPERTIES
    ImplementsAuditTrail
    ExportCatchesUp
CHECK_DEADLOCK FALSE

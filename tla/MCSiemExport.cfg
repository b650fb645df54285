SPECIFICATION SiemFairSpec
CONSTANTS
    r1 = r1
    r2 = r2
    None = None
    Gone = Gone
    Replicas <- MCReplicas
    PageSize = 2
    MaxSeq = 3
    MaxTerms = 2
INVARIANTS
    CursorIsDelivered
    StreamNeverRefuses
PROPERTIES
    ImplementsAuditTrail
    EverythingDelivered
CHECK_DEADLOCK FALSE

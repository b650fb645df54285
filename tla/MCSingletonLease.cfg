SPECIFICATION FairSpec
CONSTANTS
    r1 = r1
    r2 = r2
    retention = retention
    alerts = alerts
    Nodes <- MCNodes
    NoNode = NoNode
    Tasks <- MCTasks
    Guarded <- MCGuarded
    MaxEpoch = 3
    MaxFaults = 3
INVARIANTS
    OpenTxIsCurrent
    ReleasedTermIsQuiet
PROPERTIES
    ImplementsFencedTerms
    StaleHolderStops
    Failover

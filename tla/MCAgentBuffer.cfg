SPECIFICATION FairSpec
CONSTANTS
    a = a
    b = b
    x = x
    f = f
    Results = {a, b, x, f}
    Size <- MCSize
    Undecodable = {x}
    Future = {f}
    MaxRecords = 3
    MaxBytes = 7
    DrainMaxRecords = 2
    DrainMaxBytes = 4
    MaxFaults = 2
INVARIANTS
    AcceptedIsKept
PROPERTIES
    ImplementsAgentQueue
    EverythingDrains
CHECK_DEADLOCK FALSE

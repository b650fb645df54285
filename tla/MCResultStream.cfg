SPECIFICATION StreamFairSpec
CONSTANTS
    Streams = {s1, s2}
    PerStream = 2
    MaxBuffered = 2
INVARIANTS
    AckedIsOutOfMemory
PROPERTIES
    CleanFlushHidesOnlyRaces
    StreamEnds

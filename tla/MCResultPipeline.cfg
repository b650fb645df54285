SPECIFICATION FairPipeSpec
CONSTANTS
    Sessions = {c1}
    NoSession = NoSession
    N = 2
    WriteWorkers = 2
    WriteQueueDepth = 1
INVARIANTS
    CommittedIsSettled
    CommittedIsAccounted
PROPERTIES
    BatchIsDecided
    StopCompletes

\* Batch limits and queues that are reached all the time.
SPECIFICATION FairSpec
CONSTANTS
    InBound = 1
    OutBound = 2
    CoreBatch = 1
    PubBatch = 2
    MaxEvents = 2
    MaxTrades = 3
INVARIANTS
    TypeOK
    TapeInOrder
    DrainedAtExit
    LossBounded
    AggressorSide
PROPERTIES
    ShutdownCompletes
    QueuedTradesArrive

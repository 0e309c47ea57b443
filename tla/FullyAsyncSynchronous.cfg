\* No staleness: the synchronous modes.
SPECIFICATION Spec
CONSTANTS
    None = None
    Done = Done
    Reader = Reader
    Samples <- MCSamples
    Consumers <- MCConsumers
    TotalRolloutSteps = 7
    PendingSize = 3
    RequiredSamples = 2
    TriggerSyncStep = 2
    StalenessNum = 0
    StalenessDen = 1
    ServerSlots = 2
    PartialRollout = FALSE
    MaxFailures = 0
    TestFreq = 1
    SaveFreq = 2
    MaxQueueSize = 4
INVARIANTS
    QuietTransfer
    FreshnessBound
    EverySampleTrained
    EndsSynchronized

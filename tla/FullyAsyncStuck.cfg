\* Violation: a paused processor never goes on.
SPECIFICATION FairSpec
CONSTANTS
    None = None
    Done = Done
    Reader = Reader
    Samples <- MCSamples
    Consumers <- MCConsumers
    TotalRolloutSteps = 4
    PendingSize = 2
    RequiredSamples = 1
    TriggerSyncStep = 1
    StalenessNum = 1
    StalenessDen = 1
    ServerSlots = 2
    PartialRollout = TRUE
    MaxFailures = 0
    TestFreq = 1
    SaveFreq = 1
    MaxQueueSize = 2
PROPERTIES
    ProcessorRecovers

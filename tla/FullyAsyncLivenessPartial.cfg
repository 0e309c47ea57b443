\* Liveness with partial rollout: the interrupted samples cannot reach the limit.
SPECIFICATION FairSpec
CONSTANTS
    None = None
    Done = Done
    Reader = Reader
    Samples <- MCSamples
    Consumers <- MCConsumers
    TotalRolloutSteps = 5
    PendingSize = 2
    RequiredSamples = 1
    TriggerSyncStep = 2
    StalenessNum = 1
    StalenessDen = 2
    ServerSlots = 1
    PartialRollout = TRUE
    MaxFailures = 0
    TestFreq = 2
    SaveFreq = 1
    MaxQueueSize = 3
PROPERTIES
    Termination
    PauseReturns
    ProcessorRecovers

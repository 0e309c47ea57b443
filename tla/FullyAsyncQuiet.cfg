\* Violation: a task runs while weights move.
SPECIFICATION Spec
CONSTANTS
    None = None
    Done = Done
    Reader = Reader
    Samples <- MCSamples
    Consumers <- MCConsumers
    TotalRolloutSteps = 5
    PendingSize = 2
    RequiredSamples = 1
    TriggerSyncStep = 1
    StalenessNum = 1
    StalenessDen = 1
    ServerSlots = 1
    PartialRollout = FALSE
    MaxFailures = 0
    TestFreq = 1
    SaveFreq = 1
    MaxQueueSize = 2
INVARIANTS
    QuietTransfer

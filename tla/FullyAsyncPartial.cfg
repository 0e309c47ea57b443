\* Partial rollout, two server slots, one generation may raise.
SPECIFICATION Spec
CONSTANTS
    None = None
    Done = Done
    Reader = Reader
    Samples <- MCSamples
    Consumers <- MCConsumers
    TotalRolloutSteps = 3
    PendingSize = 2
    RequiredSamples = 1
    TriggerSyncStep = 1
    StalenessNum = 1
    StalenessDen = 1
    ServerSlots = 2
    PartialRollout = TRUE
    MaxFailures = 1
    TestFreq = 1
    SaveFreq = 1
    MaxQueueSize = 2
INVARIANTS
    ExactlyOnce
    Accounted
    VersionsInStep
    CrashesOnlyOnFailure
PROPERTIES
    ImplementsPipeline

\* Actor and critic on two ranks, two checkpoints kept, two crashes; two batches in flight, one dropped.
SPECIFICATION Spec
CONSTANTS
    r0 = r0
    r1 = r1
    Ranks <- MCRanks
    Rank0 = r0
    Roles = 2
    MaxKeep <- MCKeepTwo
    SaveFreq = 2
    TotalSteps = 5
    MaxAhead = 2
    MaxDrops = 1
    MaxCrashes = 2
    NoFile = NoFile
    Torn = Torn
INVARIANTS
    TrackerNamesComplete
    DiskBounded
    LineageTrained
PROPERTIES
    ResumesLatestSave
CONSTRAINT MCInFlight

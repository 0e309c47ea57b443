\* Violation: the only checkpoint is removed before the next one is written.
SPECIFICATION Spec
CONSTANTS
    r0 = r0
    r1 = r1
    Ranks <- MCRanks
    Rank0 = r0
    Roles = 2
    MaxKeep <- MCKeepOne
    SaveFreq = 2
    TotalSteps = 4
    MaxAhead = 0
    MaxDrops = 0
    MaxCrashes = 1
    NoFile = NoFile
    Torn = Torn
INVARIANTS
    RestartsFromTracker

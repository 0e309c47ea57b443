\* Two ranks, two prompts on each, a group in two forward passes.
SPECIFICATION Spec
CONSTANTS
    DPSize = 2
    GroupSize = 3
    MicroBatchSize = 2
    Threshold = 1
    Beta = 1
    Unit = 4
    Hidden <- MCHidden
    Batches <- MCBatches
INVARIANTS
    RaiseTogether
PROPERTIES
    ScalesAsDefined
    EveryRankEnds

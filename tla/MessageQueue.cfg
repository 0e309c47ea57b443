CONSTANTS
    s1 = s1
    s2 = s2
    c1 = c1
    c2 = c2
    None = None
    Samples <- MCSamples
    Consumers <- MCConsumers
    MaxQueueSize = 2
    MaxPuts = 4
    MaxVersion = 0
SPECIFICATION HSpec
INVARIANTS Capacity Accounting NoLostWakeup QueueIsSuffix
PROPERTIES ImplementsChannel ShutdownWakesAll

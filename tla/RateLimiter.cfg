\* Three requests, each larger than the second bucket; the reward function may hang.
SPECIFICATION Spec
CONSTANTS
    q0 = q0
    q1 = q1
    q2 = q2
    Requests <- MCRequests
    Capacity = 2
    Cost <- MCCost
    MaxConcurrent = 1
    Timeout = 1
    Workers = 1
INVARIANTS
    WithinRate
    NoOversleep
    ConcurrencyLimited
PROPERTIES
    EveryRequestAnswered

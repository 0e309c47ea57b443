\* One sample of two trajectories on two servers, two synchronizations.
SPECIFICATION Spec
CONSTANTS
    i0 = i0
    s0 = s0
    s1 = s1
    Samples <- MCSamples
    Trajectories = {1, 2}
    Servers <- MCServers
    ResponseLength = 2
    MaxTokens = 3
    MaxVersion = 2
    MaxFailures = 1
INVARIANTS
    VersionsBracketed
    ServersQuiet
    LeftoversEmpty
PROPERTIES
    OnlyContinued
    InterruptedByPause
    PauseEnds

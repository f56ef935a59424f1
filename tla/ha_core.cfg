SPECIFICATION FairSpec
CONSTANTS
    s0 = s0
    s1 = s1
    s2 = s2
    NoServer = NoServer
    Server = {s0, s1}
    Replicas <- TwoReplicas
    MaxLSN = 1
    MaxFaults = 2
    MaxReclaims = 3
    APIMayFail = TRUE
    ClusterType = "None"
    AutoFailover = TRUE
    MaxFencingAttempts = 2
    Managed = FALSE
    UserFailovers = {}
INVARIANTS
    TypeOK
    FencingInv
    CircuitBreaker
PROPERTIES
    FencingSparesLegitimate
    HardFencingOnlyRepeats
    CreatedOnce
    SplitBrainResolved
    LabelsFollowPrimary

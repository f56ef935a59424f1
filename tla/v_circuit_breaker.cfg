SPECIFICATION Spec
CONSTANTS
    s0 = s0
    s1 = s1
    s2 = s2
    NoServer = NoServer
    Server = {s0, s1, s2}
    Replicas <- ThreeReplicas
    MaxLSN = 0
    MaxFaults = 0
    MaxReclaims = 6
    APIMayFail = FALSE
    ClusterType = "None"
    AutoFailover = FALSE
    MaxFencingAttempts = 2
    Managed = FALSE
    UserFailovers = {}
INVARIANTS
    CircuitBreaker

SPECIFICATION FairSpec
CONSTANTS
    s0 = s0
    s1 = s1
    s2 = s2
    NoServer = NoServer
    Server = {s0, s1}
    Replicas <- TwoReplicas
    MaxLSN = 0
    MaxFaults = 1
    MaxReclaims = 0
    APIMayFail = TRUE
    ClusterType = "None"
    AutoFailover = TRUE
    MaxFencingAttempts = 2
    Managed = TRUE
    UserFailovers = {TRUE, FALSE}
PROPERTIES
    OneShot
    FailoverTerminates

SPECIFICATION Spec
CONSTANTS
    MaxReplicas = 2
    Specs <- MCPairOnly
    MaxEdits = 0
    MaxMishaps = 1
INVARIANT
    MeshWhenReady
CHECK_DEADLOCK FALSE

SPECIFICATION FairSpec
CONSTANTS
    MaxReplicas = 3
    Specs <- MCSpecs
    MaxEdits = 1
    MaxMishaps = 1
INVARIANTS
    TypeOK
    BuiltWhenReady
    EndpointsCertified
PROPERTIES
    Converges
CHECK_DEADLOCK FALSE

SPECIFICATION FairSpec
CONSTANTS
    DatabaseSpecs <- MCDatabaseSpecs
    SchemaSpecs <- MCSchemaSpecs
    MaxEdits = 1
    MaxMishaps = 1
INVARIANTS
    TypeOK
    AppliedWhenReady
PROPERTIES
    NothingLost
    CleanedUp
    Converges
CHECK_DEADLOCK FALSE

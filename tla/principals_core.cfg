SPECIFICATION FairSpec
CONSTANTS
    Role = {a}
    LoginSpecs <- MCLoginSpecs
    MaxVersion = 2
    MaxEdits = 1
    MaxMishaps = 1
INVARIANTS
    TypeOK
    PasswordTracked
    AppliedWhenReady
PROPERTIES
    CleanedUp
    Converges
    DeletionProceeds
CHECK_DEADLOCK FALSE

SPECIFICATION FairSpec
CONSTANTS
    Securable = {a, b}
    Qualified = {}
    MaxEdits = 2
    MaxDrift = 1
    MaxFaults = 1
INVARIANTS
    TypeOK
    AppliedWhenReady
    CleanedUp
PROPERTIES
    UnchangedLeftAsIs
    PermissionsConverge
CHECK_DEADLOCK FALSE

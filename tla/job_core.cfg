SPECIFICATION FairSpec
CONSTANTS
    Statements = 2
    MaxEvents = 3
    MaxFaults = 3
    MaxOutdated = 2
INVARIANTS
    TypeOK
    AttemptsAccounted
PROPERTIES
    ImplementsOneShot
    JobFinishes
CHECK_DEADLOCK FALSE

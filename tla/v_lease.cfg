SPECIFICATION Spec
CONSTANTS
    Instance = {a, b}
    Nobody = Nobody
    Duration = 1
    MaxTime = 4
INVARIANT
    OneHolder
CHECK_DEADLOCK FALSE

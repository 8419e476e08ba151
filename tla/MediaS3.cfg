SPECIFICATION Spec
CONSTANTS
    Slots = {s1}
    S3 = TRUE
    MaxOld = 2
    MaxIds = 4
    MaxOrder = 2
    MaxWork = 3
INVARIANTS DeletedFromStorage
CHECK_DEADLOCK FALSE

SPECIFICATION ProfilesSpec
CONSTANTS
    Slots = {s1, s2}
    Edits = {e1, e2}
    Nobody = Nobody
    S3 = FALSE
    MaxOld = 1
    MaxIds = 4
    MaxOrder = 2
    MaxWork = 3
SYMMETRY Symmetry
INVARIANTS RowsSound DeadlockNeedsFirstProfile
PROPERTIES CoverKept OnlyAskedChanges AskedIsStored
CHECK_DEADLOCK FALSE

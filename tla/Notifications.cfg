SPECIFICATION FairSpec
CONSTANTS
    Notices = {n1, n2}
    Connections = {c1, c2}
    Nobody = Nobody
INVARIANTS RegistryExact PushSound
PROPERTIES PushesEnd
CHECK_DEADLOCK FALSE

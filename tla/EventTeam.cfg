SPECIFICATION Spec
CONSTANTS
    Users = {creator, admin, other}
    Admins = {admin}
    Creator = creator
    Tasks = {t1, t2}
    Titles = {a, b}
    Requests = {r1, r2}
    MaxRequests = 3
    Nobody = Nobody
SYMMETRY Symmetry
INVARIANTS OrganizerRemains TasksSound
PROPERTIES FinishedFrozen
CHECK_DEADLOCK FALSE

SPECIFICATION Spec
CONSTANTS
    Events = {1, 2}
    Slugs = {a, b}
    TagRequests = {t1, t2}
    MaxWork = 3
    Users = {u, admin}
    Admins = {admin}
    Guest = Guest
    u = u
    admin = admin
    a = a
    b = b
    Creator <- MCCreator
    Published = {2}
    Linked <- MCLinked
    Reads = {r1, r2}
    PageSize = 1
    TTL = 1
    MaxTime = 1
SYMMETRY Symmetry
CONSTRAINT TagsOrLists
INVARIANTS AllOrNothing DeadlockNeedsOppositeOrders AnswersSound
PROPERTIES AskedTagsLinked AnswersRecent
CHECK_DEADLOCK FALSE

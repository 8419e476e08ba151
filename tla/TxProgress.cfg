SPECIFICATION FairSpec
CONSTANTS
    Users = {u1, u2}
    Clients = {u1, u2}
    Workers = {w1, w2}
    Kinds = {"register", "unregister", "update", "publish", "delete"}
    MaxCapacity = 2
    MaxRequests = 3
    Nobody = Nobody
INVARIANTS LocksMatchSteps SeatsRight
PROPERTIES RequestsFinish StatusRespected LeftStaysOut
CHECK_DEADLOCK FALSE

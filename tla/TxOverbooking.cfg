SPECIFICATION Spec
CONSTANTS
    Users = {u1, u2}
    Clients = {u1, u2}
    Workers = {w1, w2}
    Kinds = {"register"}
    MaxCapacity = 1
    MaxRequests = 2
    Nobody = Nobody
SYMMETRY Symmetry
INVARIANTS NotOverbooked
CHECK_DEADLOCK FALSE

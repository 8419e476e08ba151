SPECIFICATION ApartSpec
CONSTANTS
    Users = {u1, u2, u3}
    Clients = {u1, u2, u3}
    Workers = {w1, w2, w3}
    Kinds = {"register", "unregister", "update", "publish", "delete"}
    MaxCapacity = 2
    MaxRequests = 6
    Nobody = Nobody
PROPERTIES ImplementsRegistration
CHECK_DEADLOCK FALSE

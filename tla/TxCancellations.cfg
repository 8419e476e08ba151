SPECIFICATION SeatedSpec
CONSTANTS
    Users = {u1, u2, u3, u4, u5}
    Clients = {u1, u2}
    Workers = {w1, w2}
    Kinds = {"unregister", "update"}
    MaxCapacity = 2
    MaxRequests = 3
    Nobody = Nobody
SYMMETRY Symmetry
INVARIANTS SeatsStayFilled OnePromotionAtATime NeverDeadlocked
CHECK_DEADLOCK FALSE

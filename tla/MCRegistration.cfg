SPECIFICATION Spec
CONSTANTS
    Users = {u1, u2, u3, u4}
    MaxCapacity = 3
SYMMETRY UserSymmetry
INVARIANTS TypeOK CountMatches NotOverbooked
PROPERTIES SeatsStayTaken NobodyOvertakes

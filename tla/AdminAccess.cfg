SPECIFICATION Spec
CONSTANTS
    Requests = {r1, r2, r3}
    MaxWork = 4
    Targets = {t1, gone}
    Missing = {gone}
    Handlers = {h1, h2}
    Bulk = Bulk
    MaxIds = 2
SYMMETRY Symmetry
INVARIANTS FactorSound RecordsRight BulkToldRight
PROPERTIES EnabledStays AdminsUntouched
CHECK_DEADLOCK FALSE

SPECIFICATION Spec
CONSTANTS
    Files = {f1}
    Root = root
    Data = {d1}
    Absent = absent
    Torn = torn
    Clients = {c1, c2}
    MaxWrites = 2
    MaxDeletes = 1
    MaxFaults = 0
    DbFaultCost = 1
    MaxQueue = 0
    MaxCrashes = 1
    MAX_ATTEMPTS = 2
SYMMETRY Symmetry
INVARIANTS
    WalIntegrity
    AttemptsBounded

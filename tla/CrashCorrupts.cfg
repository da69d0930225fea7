SPECIFICATION Spec
CONSTANTS
    Files = {f1}
    Root = root
    Data = {d1}
    Absent = absent
    Torn = torn
    Clients = {c1}
    MaxWrites = 1
    MaxDeletes = 0
    MaxFaults = 0
    DbFaultCost = 1
    MaxQueue = 1
    MaxCrashes = 2
    MAX_ATTEMPTS = 2
SYMMETRY Symmetry
INVARIANTS
    AckedRecoverable

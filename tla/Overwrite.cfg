SPECIFICATION Spec
CONSTANTS
    Files = {f1}
    Root = root
    Data = {d1, d2}
    Absent = absent
    Torn = torn
    Clients = {c1}
    MaxWrites = 2
    MaxDeletes = 0
    MaxFaults = 0
    DbFaultCost = 1
    MaxQueue = 0
    MaxCrashes = 0
    MAX_ATTEMPTS = 2
SYMMETRY Symmetry
INVARIANTS
    AckedQueued

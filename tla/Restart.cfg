SPECIFICATION FairSpec
CONSTANTS
    Files = {f1}
    Root = root
    Data = {d1}
    Absent = absent
    Torn = torn
    Clients = {c1}
    MaxWrites = 1
    MaxDeletes = 0
    MaxFaults = 2
    DbFaultCost = 2
    MaxQueue = 0
    MaxCrashes = 1
    MAX_ATTEMPTS = 2
INVARIANTS
    AckedRecoverable
    AckedQueued
PROPERTIES
    ReplayDrains
    ReplayEnds
    AckedReachesS3

SPECIFICATION Spec
CONSTANTS
    Files = {f1}
    Root = root
    Data = {d1}
    Absent = absent
    Torn = torn
    Clients = {c1}
    MaxWrites = 1
    MaxDeletes = 0
    MaxFaults = 3
    DbFaultCost = 2
    MaxQueue = 2
    MaxCrashes = 0
    MAX_ATTEMPTS = 2
SYMMETRY Symmetry
INVARIANTS
    TypeOK
    S3BitTruthful
    Readable
PROPERTIES
    ImplementsWriteOnce

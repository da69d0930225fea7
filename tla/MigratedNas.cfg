SPECIFICATION MigratedSpec
CONSTANTS
    f1 = f1
    f2 = f2
    odd = odd
    Files = {f1, f2}
    Names = {f1, f2, odd}
    VfsPath <- MCVfsPath
    Volatile = {}
    Trees <- MCTrees
    Roots <- MCRoots
    MaxEvents = 0
    Root = root
    Data = {d1, d2}
    Absent = absent
    Torn = torn
    Clients = {c1}
    MaxWrites = 0
    MaxDeletes = 0
    MaxFaults = 0
    DbFaultCost = 1
    MaxQueue = 0
    MaxCrashes = 0
    MAX_ATTEMPTS = 2
SYMMETRY MCSymmetry
INVARIANTS
    ServesMigrated

SPECIFICATION Spec
CONSTANTS
    f1 = f1
    f2 = f2
    f3 = f3
    Files = {f1, f2, f3}
    Root = root
    Data = {d1}
    Absent = absent
    Torn = torn
    Clients = {c1}
    Sizes = {1, 2}
    Start <- MCStart
    High <- MCHigh
    Low <- MCLow
    RecencyWeight = 7
    FrequencyWeight = 3
    MaxEvents = 2
INVARIANT
    CycleTypeOK
PROPERTIES
    EvictsOnlyAboveLow
    CycleReachesLow
    ColdestFirst
    UsageSettles

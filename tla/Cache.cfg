SPECIFICATION Spec
CONSTANTS
    Root = root
    Paths = {root, f1}
    Bytes = {0, 1, 2}
    MaxLen = 2
    Absent = absent
    Workers = {w1, w2}
    Conns = {k1}
    Writes <- MCWrites
    MaxPuts = 2
    MaxDeletes = 1
    MaxFaults = 1
    MaxRestarts = 1
SYMMETRY Symmetry
INVARIANTS
    VfscTypeOK
    CacheAddressed
    ReadsFresh
    CacheWhole

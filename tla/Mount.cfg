SPECIFICATION Spec
CONSTANTS
    dir = dir
    file1 = file1
    file2 = file2
    c1 = c1
    Root = root
    Paths = {root, dir, file1, file2}
    Parent <- MCParent
    Ancestors <- MCAncestors
    Directory = directory
    Bytes = {0, 1, 2}
    MaxLen = 2
    Absent = absent
    Http = {c1}
    Callers <- MCCallers
    Writes <- MCWrites
    INO_HINT = 2
    MaxCalls = 3
    MaxUnlinks = 1
    MaxDeletes = 1
    MaxFaults = 1
    MaxDisturbances = 1
INVARIANTS
    VfsdTypeOK
    OneInodePerPath
    MountInodesCoherent
    GrowsConnected
    WriteSplices

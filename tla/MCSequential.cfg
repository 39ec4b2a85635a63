SPECIFICATION SequentialSpec
CONSTANTS
    Null = Null
    Loader = Loader
    NoFile = NoFile
    Torn = Torn
    n1 = n1
    n2 = n2
    Requests = {r1, r2}
    Workspaces = {w1, w2}
    Terminals = {t1, t2, t3}
    Names = {n1, n2, n3}
    Longer <- N1Prefix
    Blobs = {b1}
    DefaultNames <- TwoDefaults
    Budget <- CrashFlushExit
SYMMETRY Symmetry
INVARIANTS
    NoOrphanSession

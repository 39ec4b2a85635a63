SPECIFICATION Spec
CONSTANTS
    Null = Null
    Loader = Loader
    NoFile = NoFile
    Torn = Torn
    n1 = n1
    n2 = n2
    Requests = {r1, r2}
    Workspaces = {w1}
    Terminals = {t1, t2}
    Names = {n1, n2}
    Longer <- N1Prefix
    Blobs = {b1}
    DefaultNames <- TwoDefaults
    Budget <- CrashAndFlush
SYMMETRY Symmetry
INVARIANTS
    DeleteIsFinal
    CreateIsDurable
PROPERTIES
    AtomicFile

SPECIFICATION Spec
CONSTANTS
    Null = Null
    Loader = Loader
    NoFile = NoFile
    Torn = Torn
    n1 = n1
    n2 = n2
    Requests = {r1}
    Workspaces = {w1}
    Terminals = {t1}
    Names = {n1}
    Longer <- N1Prefix
    Blobs = {b1}
    DefaultNames <- OneDefault
    Budget <- CrashAndCancel
PROPERTIES
    PruneOnlyDead

SPECIFICATION FairSpec
CONSTANTS
    Null = Null
    Loader = Loader
    NoFile = NoFile
    Torn = Torn
    n1 = n1
    n2 = n2
    Requests = {r1, r2}
    Workspaces = {w1}
    Terminals = {t1}
    Names = {n1, n2}
    Longer <- N1Prefix
    Blobs = {b1}
    DefaultNames <- TwoDefaults
    Budget <- CrashCancelExit
INVARIANTS
    Inv
PROPERTIES
    RequestsAnswered

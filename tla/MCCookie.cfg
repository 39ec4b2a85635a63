SPECIFICATION Spec
CONSTANTS
    None = None
    Clients = {c1}
    Handlers = {h1}
    Tokens = {t1, t2}
    MaxFailures = 2
    BanTime = 1
    TTL = 1
    Horizon = 4
SYMMETRY Symmetry
PROPERTIES
    InactivityOnly

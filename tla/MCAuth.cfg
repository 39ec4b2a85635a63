SPECIFICATION FairSpec
CONSTANTS
    None = None
    Clients = {c1}
    Handlers = {h1, h2}
    Tokens = {t1, t2}
    MaxFailures = 2
    BanTime = 2
    TTL = 2
    Horizon = 5
INVARIANTS
    LogoutIsFinal
    ActiveSessionKept
    BanHolds
PROPERTIES
    ExpiredForgotten

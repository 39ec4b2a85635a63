SPECIFICATION FairSpec
CONSTANTS
    Commands = {c1, c2}
    Pids = {p1, p2}
    Tmux = Tmux
    Nobody = Nobody
    NoPid = NoPid
    Blank = Blank
INVARIANTS
    OneDaemon
    PidFileNamesDaemon
    LockNotLeaked
    NoneLeft
PROPERTIES
    CommandsReturn
    TermEnds

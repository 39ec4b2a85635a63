SPECIFICATION Spec
CONSTANTS
    Commands = {c1, c2}
    Pids = {p1}
    Tmux = Tmux
    Nobody = Nobody
    NoPid = NoPid
    Blank = Blank
SYMMETRY Symmetry
PROPERTIES
    StatusTruthful

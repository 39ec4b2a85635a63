SPECIFICATION Spec
CONSTANTS
    Null = Null
    Sessions = {s1, s2}
    Parts = {"layout"}
    MaxId = 5
    MaxTurns = 4
    MaxPuts = 2
    WsIds = {w1, w2}
    PaneIds = {p1, p2}
    Names = {"a", "b"}
    FirstName = "a"
    MaxCalls = 3
    MaxOpen = 2
    Folders = {home, link, target}
    Home = home
    Root = home
    Link = link
    Target = target
    MaxGeneration = 5
    MaxPosts = 2
    MaxUploads = 2
    MaxLists = 2
    Texts = {"a", "b"}
    FirstText = "a"
    Uploaded = "u"
    Torn = "torn"
    MaxOverwrites = 1
    MaxOpenings = 2
    Widths = {3, 12}
    FontSizes = {2, 4}
    DefaultCols = 5
    MaxEvents = 3
    MaxTyped = 2
    MaxFingers = 2
    Positions = {0, 3, 7}
    FILES_DEFAULT_W = 6
    FILES_MIN_W = 4
    RESIZE_STEP = 2
    MaxFilesWidth = 8
    MaxSamples = 4
    MaxRuns = 3
    Bytes = {0, 1, 4}
    ptyReadSize = 4
    MaxOutput = 9
INVARIANT
    Mirror
CHECK_DEADLOCK FALSE

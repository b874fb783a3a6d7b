CONSTANTS
    Parts <- JustFilters
    Modes <- AllModes
    Units <- SomeUnits
    FrameRange <- FromSecond
    SplitFrames = 2
    Threshold = 1
    MaxLag = 2
    MaxFaults = 1
    Handlers = 2
    Types = {a, b, c}
    Handles = {1, 2, 3}
    MaxFilters = 2
    Names = {a, b}
    NoName = none
    Processors = {p, q}
    MaxItems = 1
    Datas = {1, 2}
    Cached = {FALSE}
    Positions <- AllPositions
    Careful = {TRUE}
    RiffThreshold = 150
    HeaderBytes = 20
    MaxRiffs = 3
    Sizes = {1, 40}
    MaxChunks = 5
    MaxErrors = 1
    Seeks = {2, 20}
    NProc = 2
    FrameTask = 1
    Frames = 5
    Overtaking = FALSE
    MaxFailures = 0
    Logs <- SomeLogs
    Pipes = {1, 3}
    MaxOpens = 2
SPECIFICATION PartsSpec
INVARIANT NoLateCall
CHECK_DEADLOCK FALSE

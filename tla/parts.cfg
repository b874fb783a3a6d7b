CONSTANTS
    Parts <- AllParts
    Modes <- AllModes
    Units <- SomeUnits
    FrameRange <- FromSecond
    SplitFrames = 2
    Threshold = 1
    MaxLag = 2
    MaxFaults = 1
    Handlers = 2
    Types = {a, b, c}
    Handles = {1, 2, 3}
    MaxFilters = 2
    Names = {a, b}
    NoName = none
    Processors = {p, q}
    MaxItems = 3
    Datas = {1, 2}
    Cached = {FALSE}
    Positions <- AllPositions
    Careful = {TRUE, FALSE}
    RiffThreshold = 150
    HeaderBytes = 20
    MaxRiffs = 3
    Sizes = {1, 40}
    MaxChunks = 5
    MaxErrors = 1
    Seeks = {2, 20}
    NProc = 2
    FrameTask = 1
    Frames = 5
    Overtaking = FALSE
    MaxFailures = 1
    Logs <- SomeLogs
    Pipes = {1, 3}
    MaxOpens = 2
SPECIFICATION PartsSpec
INVARIANT FilesApart
INVARIANT AllWritten
INVARIANT CountsAreReferences
INVARIANT FactorySafe
INVARIANT RunsLoaded
INVARIANT PassComplete
INVARIANT FindsLoaded
INVARIANT RiffsTile
INVARIANT MergedInOrder
INVARIANT FreeTaskKnown
INVARIANT NeverStuck
INVARIANT FramesFollowLog
PROPERTY InterruptKept
PROPERTY ImplementsSequence
PROPERTY BreaksOnlyThere
PROPERTY ImplementsRecording
CHECK_DEADLOCK FALSE

\* video_pool
CONSTANTS
    Last = 3
    Importer = importer
    Encoder = encoder
    Workers = {w1, w2}
    Media = "video"
    Marks <- NoMarks
    MaxFrames = 4
    Ranges <- WholeStream
    Seek <- NoSeek
    MayDelay = FALSE
    MaySignal = FALSE
SPECIFICATION FairSpec
INVARIANT PoolNotStranded
INVARIANT ImporterNotStranded
PROPERTY LoopEnds
CHECK_DEADLOCK FALSE

\* queue
CONSTANTS
    Last = 3
    Importer = importer
    Encoder = encoder
    Workers = {w1}
    Media = "video"
    Marks <- CloneAll
    MaxFrames = 2
    Ranges <- WholeStream
    Seek <- NoSeek
    MayDelay = FALSE
    MaySignal = FALSE
SPECIFICATION Spec
INVARIANT NumberedByOutput
INVARIANT ClaimedInChain
PROPERTY ImplementsQueue
CHECK_DEADLOCK FALSE

\* seeking
CONSTANTS
    Last = 2
    Importer = importer
    Encoder = encoder
    Workers = {}
    Media = "video"
    Marks <- NoMarks
    MaxFrames = 4
    Ranges <- NextToEach
    Seek <- SeekThird
    MayDelay = FALSE
    MaySignal = TRUE
SPECIFICATION Spec
INVARIANT TypeOK
INVARIANT FlushEmpties
INVARIANT NothingLost
CHECK_DEADLOCK FALSE

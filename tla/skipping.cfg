\* skipping
CONSTANTS
    Last = 3
    Importer = importer
    Encoder = encoder
    Workers = {w1}
    Media = "video"
    Marks <- SkipAll
    MaxFrames = 3
    Ranges <- WholeStream
    Seek <- NoSeek
    MayDelay = FALSE
    MaySignal = TRUE
SPECIFICATION Spec
INVARIANT EncoderNotStranded
INVARIANT NullMeansInterrupted
INVARIANT CountersExact
INVARIANT ChainOfClaimed
CHECK_DEADLOCK FALSE

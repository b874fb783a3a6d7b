\* clone_drift
CONSTANTS
    Last = 3
    Importer = importer
    Encoder = encoder
    Workers = {w1}
    Media = "video"
    Marks <- CloneM
    MaxFrames = 3
    Ranges <- WholeStream
    Seek <- NoSeek
    MayDelay = FALSE
    MaySignal = FALSE
SPECIFICATION Spec
INVARIANT NullMeansInterrupted
CHECK_DEADLOCK FALSE

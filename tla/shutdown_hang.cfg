\* shutdown_hang
CONSTANTS
    Last = 2
    Importer = importer
    Encoder = encoder
    Workers = {w1}
    Media = "video"
    Marks <- NoMarks
    MaxFrames = 4
    Ranges <- ShortRange
    Seek <- NoSeek
    MayDelay = FALSE
    MaySignal = FALSE
SPECIFICATION FairSpec
PROPERTY ShutdownEnds
CHECK_DEADLOCK FALSE

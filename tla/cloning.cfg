\* cloning
CONSTANTS
    Last = 3
    Importer = importer
    Encoder = encoder
    Workers = {w1, w2}
    Media = "audio"
    Marks <- CloneSkipM
    MaxFrames = 2
    Ranges <- WholeStream
    Seek <- NoSeek
    MayDelay = TRUE
    MaySignal = FALSE
SPECIFICATION Spec
SYMMETRY WorkerSymmetry
INVARIANT NoDoubleClaim
INVARIANT CountersPooled
INVARIANT EncodedInOrder
CHECK_DEADLOCK FALSE

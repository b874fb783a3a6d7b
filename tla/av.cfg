CONSTANTS
    Capacity = 2
    Inputs <- ManyInputs
    Syncs <- AheadAndBehind
    Cuts <- TwoCuts
    MaxDelays = 1
    Signals = TRUE
SPECIFICATION AVFairSpec
INVARIANT InSync
INVARIANT EmptyNeverEncoded
PROPERTY EndsWithAudio
PROPERTY ImportersJoined
CHECK_DEADLOCK FALSE

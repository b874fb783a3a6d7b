CONSTANTS
    Capacity = 2
    Inputs <- OneFile
    Syncs <- NoShift
    Cuts <- AllFrames
    MaxDelays = 0
    Signals = FALSE
SPECIFICATION AVFairSpec
PROPERTY BothEnd
CHECK_DEADLOCK FALSE

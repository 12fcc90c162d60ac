CONSTANTS
    Addrs <- AllAddrs
    Hooked <- HookedAddrs
    Always <- OneShots
    FarOnly <- IntEntries
    ResetVector = "FFF0"
    Runs <- Shifts
    Threshold <- HigherThreshold
    Counts = {0, 1, 7}
    WordMod = 8
    ByteMod = 5
    CopyMax = 6
    Data <- Words
SPECIFICATION LoopSpec
INVARIANT LoopsRunOut
CHECK_DEADLOCK FALSE

CONSTANTS
    Addrs <- AllAddrs
    Hooked <- HookedAddrs
    Always <- OneShots
    FarOnly <- IntEntries
    ResetVector = "FFF0"
    Runs <- LogOnly
    Threshold <- SmallThreshold
    Counts = {0, 1, 7}
    WordMod = 8
    ByteMod = 5
    CopyMax = 6
    Data <- Words
SPECIFICATION LoopSpec
INVARIANT EmptyLogCfClear
CHECK_DEADLOCK FALSE

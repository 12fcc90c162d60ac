CONSTANTS
    Addrs <- AllAddrs
    Hooked <- HookedAddrs
    Always <- OneShots
    FarOnly <- IntEntries
    ResetVector = "FFF0"
    Runs <- AllRuns
    Threshold <- SmallThreshold
    Counts = {0, 1, 7}
    WordMod = 8
    ByteMod = 5
    CopyMax = 6
    Data <- Words
SPECIFICATION FairLoopSpec
INVARIANTS
    LoopTypeOK
    LoopEffect
    FarArrivalsSeen
    WaitLooksOver
    PacedNeverDies
PROPERTIES
    VisitsEnd
    ResetTaken
CHECK_DEADLOCK FALSE

CONSTANTS
    Uses <- SomeUses
    Regs = {"0D", "0F"}
    Values = {"x"}
    ByteMax = 3
SPECIFICATION FairSpec
INVARIANTS
    ReadsBack
    LatchAssembled
PROPERTIES
    StaysReady
    PollEnds

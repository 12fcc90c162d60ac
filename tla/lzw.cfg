CONSTANTS
    Literals = 2
    MaxCodes = 10
    FirstWidth = 5
    Widths = {5, 10}
    MaxGarbage = 5
    MaxData = 11
    Data <- AllData
    Limits <- SomeLimits
    Streams <- AllStreams
SPECIFICATION Spec
INVARIANTS
    TypeOK
    ExpandNeverFails
    NextCodeReadable
    RoundTrip
CHECK_DEADLOCK FALSE

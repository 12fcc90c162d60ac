CONSTANTS
    SECTORS <- ImageSectors
    LOAD_SEG <- ImageSegment
SPECIFICATION FairSpec
INVARIANTS
    ImageInPlace
    NeverBack
PROPERTY ExitReachesDisk

CONSTANTS
    Images <- SomeImages
    Counts = {1, 33, 255}
SPECIFICATION Spec
INVARIANTS
    WalkInOrder
    WalkSeesDisk
    EntryEndsAtLast

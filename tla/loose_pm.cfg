CONSTANTS
    Selectors <- SomeSelectors
    Args = {0, 1}
    MaxFrames = 3
SPECIFICATION Spec
PROPERTIES
    FramesBalanced
    LevelOnlyThroughGates

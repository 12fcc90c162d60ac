CONSTANTS
    Selectors <- SomeSelectors
    Args = {0, 1}
    MaxFrames = 2
SPECIFICATION Spec
PROPERTY ReturnsHome

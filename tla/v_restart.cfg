CONSTANTS
    Envs <- RealisticEnvs
    Exits <- AllExits
    BeepTicks = 2
    MaxChars = 2
    MaxResets = 2
SPECIFICATION Spec
PROPERTIES
    RestartLeavesSetup

CONSTANTS
    Envs <- AllEnvs
    Exits <- AllExits
    BeepTicks = 2
    MaxChars = 3
    MaxResets = 3
SPECIFICATION FairSpec
INVARIANTS
    TypeOK
    SetupNeverOverDos
    BeepOffAtHandover
    TaggedResumes
    MagicResumes
    PromptShown
    CanGoOn
PROPERTIES
    NoFlip
    F1NeverBootsDisk
    ImplementsBootSession
    RestartReachesDisk

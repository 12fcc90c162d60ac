CONSTANTS
    Envs <- LaunchEnvs
    Exits <- AllExits
    BeepTicks = 1
    MaxChars = 1
    MaxResets = 1
    Bytes = {"C", "D", "W", "E", "F", "p", "q", "x"}
    Patches <- PatchLists
    Probes = {"x"}
    Banks = 2
    BankMax = 3
SPECIFICATION MachineSpec
INVARIANTS
    RomUntilBoot
    SetupSeesRom
    VgaBiosAtC000
    FontRomFound

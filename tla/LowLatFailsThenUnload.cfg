SPECIFICATION Spec
CONSTANTS
    Gpu = Gpu
    Cpu = Cpu
    Custom = Custom
    Msdk = Msdk
    Bare = Bare
    Old = Old
    File <- AllFiles
    Search <- LowLatSearch
    Kind <- AllKind
    Caps <- AllCaps
    MaxCaps = 3
    NoCaps = NoCaps
    ApiVer <- AllApiVer
    MissingFrom <- AllMissing
    Lacks <- AllLacks
    NoFile = NoFile
    LowLatVPL = Gpu
    LowLatMSDK = Msdk
    Flaky = {Gpu}
    Setting <- LowLatSettings
    Unset = Unset
    NoSession = NoSession
    MaxConfig = 1
    MaxIndex = 3
    MaxLibs = 4
INVARIANTS
    UnloadsOnce
CHECK_DEADLOCK FALSE

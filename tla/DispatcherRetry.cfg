SPECIFICATION Spec
CONSTANTS
    Gpu = Gpu
    Cpu = Cpu
    Custom = Custom
    Msdk = Msdk
    Bare = Bare
    Old = Old
    File <- RetryFiles
    Search <- RetrySearch
    Kind <- RetryKind
    Caps <- RetryCaps
    MaxCaps = 3
    NoCaps = NoCaps
    ApiVer <- RetryApiVer
    MissingFrom <- RetryMissing
    Lacks <- RetryLacks
    NoFile = NoFile
    LowLatVPL = NoFile
    LowLatMSDK = NoFile
    Flaky = {Gpu, Msdk, Custom, Bare, Old}
    Setting <- VersionSettings
    Unset = Unset
    NoSession = NoSession
    MaxConfig = 1
    MaxIndex = 0
    MaxLibs = 4
INVARIANTS
    LegacyHidden
    MemorySafe
CHECK_DEADLOCK FALSE

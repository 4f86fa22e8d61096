SPECIFICATION Spec
CONSTANTS
    Gpu = Gpu
    Cpu = Cpu
    Custom = Custom
    Msdk = Msdk
    Bare = Bare
    Old = Old
    File <- AllFiles
    Search <- GpuSearch
    Kind <- AllKind
    Caps <- AllCaps
    MaxCaps = 3
    NoCaps = NoCaps
    ApiVer <- AllApiVer
    MissingFrom <- AllMissing
    Lacks <- AllLacks
    NoFile = NoFile
    LowLatVPL = Gpu
    LowLatMSDK = Msdk
    Flaky = {Gpu}
    Setting <- LowLatVersions
    Unset = Unset
    NoSession = NoSession
    MaxConfig = 1
    MaxIndex = 2
    MaxLibs = 1
INVARIANTS
    UniqueIndices
PROPERTIES
    SessionMeetsFilters
CHECK_DEADLOCK FALSE

SPECIFICATION Spec
CONSTANTS
    Gpu = Gpu
    Cpu = Cpu
    Custom = Custom
    Msdk = Msdk
    Bare = Bare
    Old = Old
    File <- AllFiles
    Search <- AllSearch
    Kind <- AllKind
    Caps <- AllCaps
    MaxCaps = 3
    NoCaps = NoCaps
    ApiVer <- AllApiVer
    MissingFrom <- AllMissing
    Lacks <- AllLacks
    NoFile = NoFile
    LowLatVPL = NoFile
    LowLatMSDK = NoFile
    Flaky = {}
    Setting <- FilterSettings
    Unset = Unset
    NoSession = NoSession
    MaxConfig = 2
    MaxIndex = 2
    MaxLibs = 4
INVARIANTS
    TypeOK
    DenseIndices
    EnumeratedSatisfyFilters
    PriorityOrder
PROPERTIES
    SessionMeetsFilters
CHECK_DEADLOCK FALSE

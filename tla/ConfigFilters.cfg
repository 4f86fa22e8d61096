SPECIFICATION Spec
CONSTANTS
    Call <- Calls
    Impl <- Runtimes
    Unset = Unset
    Null = Null
    None = None
    Windows = FALSE
    MaxConfig = 2
    MaxCalls = 5
INVARIANTS
    ConfigsAreIndependent
    ExtBuffersLive
    LowLatencySkipsNoFilter
PROPERTIES
    ModesShareSpecial
CHECK_DEADLOCK FALSE

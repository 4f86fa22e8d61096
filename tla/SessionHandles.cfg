SPECIFICATION Spec
CONSTANTS
    Handle = {h1, h2, h3}
    Gen = Gen
    Msdk = Msdk
    Sw = Sw
    Custom = Custom
    File = {Gen, Msdk, Sw, Custom}
    NoFile = NoFile
    Installed <- Everything
    LegacyPlatform = FALSE
    ApiVer <- AllApiVer
    LegacyVer <- AllLegacyVer
    MissingFrom <- AllMissing
    ImplOf <- AllImplOf
    Flaky = {Gen}
    ImplType = {0, 2}
    Version = {1035, 2009, 2010}
    MaxSession = 3
SYMMETRY Handles
INVARIANTS
    SessionsOwned
    OneLibrary
    FindsFirst
PROPERTIES
    FailedCallsLeaveNothing
CHECK_DEADLOCK FALSE

SPECIFICATION Spec
CONSTANTS
    Layout <- MCLayout
    File <- MCFile
    Runtime <- MCRuntime
    Envs <- MCEnvs
    Flaky <- MCFlaky
    MaxLoads = 2
INVARIANTS
    FindsDocumented
    KeepsBestMSDK
    PriorityFromSomeLoad
    LowLatencyWithinFull

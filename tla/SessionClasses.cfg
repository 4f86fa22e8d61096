SPECIFICATION QuerySpec
CONSTANTS
    Implementation <- MCImplementation
    Request <- MCRequest
    Machine <- MCMachine
    Alloc = {0, 1, 3}
    Component = {"encode", "decode_vpp"}
    MaxSessions = 2
    MaxObjects = 3
INVARIANTS
    SessionsHeld
    LoadersHeld
    DanglesOnlyIfClosedEarly
    ComponentsKept
    FindsSuitable
    IntegratedFirst

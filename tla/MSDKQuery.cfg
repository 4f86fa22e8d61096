SPECIFICATION Spec
CONSTANTS
    Machine <- MCMachine
    MaxImpl = 2
    Minor = {1, 19}
INVARIANTS
    NothingStaysOpen
    DescribesItsAdapter
    D3D9OnSameAdapter

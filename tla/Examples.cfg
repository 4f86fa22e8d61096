SPECIFICATION Spec
CONSTANTS
    Programs <- AllPrograms
    NFrames = 4
    Start <- FrameStarts
    BufferSize = 3
    Surfaces = 4
    Delay <- Delays
    Trailing = 0
    MaxBusy = 2
    MaxTimeouts = 1
    Faults <- AnyFault
    None = None
INVARIANTS
    ClosingOutlivesTasks
    SurfacesReturned
PROPERTIES
    CopiesFrames
    Terminates
CHECK_DEADLOCK FALSE

CONSTANTS
    W = 2
    PageSize = 4
    M = 64
    Bytes = 7
    Regions <- MC_Regions
    KernelFrames = {0, 1, 2, 3}
SPECIFICATION Spec
INVARIANTS TypeOK FramesUsable
PROPERTIES ImplementsFrameAllocator

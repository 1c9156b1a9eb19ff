CONSTANTS
    W = 2
    PageSize = 1
    M = 64
    Bytes = 5
    Regions <- MC_Regions
    KernelFrames <- MC_KernelFrames
    T = 4
    KernelDir = 1
    ScratchSlot = 0
    DirFrame = 1
    Values <- MC_Values
    Touched = {0, 1, 8, 9, 10}
SPECIFICATION Spec
INVARIANTS FramesAccounted TLBCoherent KernelMapped VirtToPhysAgrees FailsOnlyWhenFull
PROPERTIES ImplementsFlatMemory

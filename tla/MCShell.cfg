CONSTANTS
    scrn_width = 6
    scrn_height = 3
    TabStop = 4
    U32 = 1024
    MaxTicks = 11
    MaxJobs = 2
    Printable <- MC_Printable
    Args <- MC_Args
    Typed <- MC_Typed
    Pointers <- MC_Pointers
SPECIFICATION Spec
INVARIANTS CursorOnScreen RubUndoes NumbersSpelt PointersReadBack
PROPERTIES ImplementsPaper

CONSTANTS
    KEYBOARD_BUFFER_SIZE = 2
    MAX_TERMINAL_BUFFER_SIZE = 3
    VGA_BUFFER_SIZE = 2
    scrn_width = 3
    U16 = 16
    Keys = {}
    MaxKeys = 3
    Lines = {0, 1, 12}
    Plain = {"x", "erase"}
    Shifts = {"left shift", "right shift"}
    MaxCodes = 3
    BLOCK = 2
    DIGITS = 2
    U32 = 32
    Archives <- MC_Archives
SPECIFICATION BootFairSpec
INVARIANTS
    BootTypeOK KeyboardRoom ShiftAsHeld NoCodeForgotten AllAcknowledged
    KeysInOrder HeadersCounted
PROPERTIES BootReachesLoop RequestsServed

CONSTANTS
    KEYBOARD_BUFFER_SIZE = 3
    MAX_TERMINAL_BUFFER_SIZE = 8
    VGA_BUFFER_SIZE = 3
    scrn_width = 3
    U16 = 16
    Keys = {"x", " "}
    MaxKeys = 3
SPECIFICATION Spec
INVARIANTS OnlyBuffered

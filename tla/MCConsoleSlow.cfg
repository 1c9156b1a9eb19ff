CONSTANTS
    KEYBOARD_BUFFER_SIZE = 2
    MAX_TERMINAL_BUFFER_SIZE = 4
    VGA_BUFFER_SIZE = 3
    scrn_width = 3
    U16 = 16
    Keys = {"x", " ", "enter", "erase"}
    MaxKeys = 6
SPECIFICATION SlowSpec
INVARIANTS ScreenShowsLine KeysReachTerminal
PROPERTIES EditsLines EveryNewlineRuns

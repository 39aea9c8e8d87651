\* A letter and the control characters, two consoles of 2 x 2 with tabs every 2.
CONSTANTS
    WIDTH = 2
    HEIGHT = 2
    TABSTOP = 2
    NUM_VCS = 2
    Threads = {"thread"}
    Chars = {65, 7, 8, 9, 10, 13}
    MaxArg = 0
    Preempt = FALSE
SPECIFICATION PaperSpec
INVARIANTS
    WritesOnOwnScreen
    ScreenIsWindow
PROPERTIES
    CursorShown

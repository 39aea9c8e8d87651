\* Escape sequences of one caller: a letter, tab, ESC [ ; H J m and the digits 2 and 4.
CONSTANTS
    WIDTH = 2
    HEIGHT = 2
    TABSTOP = 1
    NUM_VCS = 1
    Threads = {}
    Chars = {65, 9, 27, 91, 59, 50, 52, 72, 74, 109}
    MaxArg = 42
    Preempt = FALSE
SPECIFICATION PaperSpec
INVARIANTS
    ScreenIsWindow

\* Two directives after one another, one of them of every kind.
CONSTANTS
    LONG_MAX = 127
    SHRT_MAX = 7
    Widths = {0, 3, 10}
    Modifiers = {"", "h", "l", "N"}
    Conversions = {"X", "x", "d", "u", "o", "c", "s"}
    Words = {0, 7, 10, 127, 128, 255}
    Lengths = {0, 2, 4}
    Illegal = {"minus", "unknown", "width"}
    Calls <- AskedCalls
SPECIFICATION Spec
CHECK_DEADLOCK FALSE
INVARIANTS
    ItemsPrinted

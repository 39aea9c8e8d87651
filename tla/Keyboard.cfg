\* Editing a line of two characters in a buffer of four, with one shift key, both
\* control keys, a lock and function keys; at most two keys down at a time.
CONSTANTS
    Keys = {"a", "1", "backspace", "enter", "tab", "right_shift", "left_ctrl",
            "right_ctrl", "caps_lock", "F2", "F10", "escape"}
    NUM_VCS = 8
    CMD_BUF_SIZE = 4
    MaxHeld = 2
    MaxWire = 2
    MaxLine = 2
SPECIFICATION Spec
INVARIANTS
    
    NoStuckModifier
    LightsAreLocks
PROPERTIES
    EnterExecutesLine

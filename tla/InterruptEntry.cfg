\* Two threads, three contexts kept per stack, every kind of entry.
CONSTANTS
    Thread = {1, 2}
    First = 1
    MaxNesting = 3
    PageFaults = TRUE
    Exceptions <- NoErrorCode
SPECIFICATION Spec
INVARIANTS
    NoIrqStuck
    StackIsContexts
PROPERTIES
    ContextsComeBack
\* A thread that a page fault sent astray, and panic(false), stop.
CHECK_DEADLOCK FALSE

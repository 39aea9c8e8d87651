\* Any sequence of allocations and frees.
CONSTANTS
    Page <- PageValues
    Count = 6
    BootList <- BootListValue
    Freers = TRUE
SPECIFICATION StackSpec
INVARIANTS
    StackInBounds
PROPERTIES
    NoDoubleAlloc

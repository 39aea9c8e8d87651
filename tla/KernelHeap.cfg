\* Pages of 16 bytes, 4 to a table: every sequence of small, page-sized and larger blocks;
\* few enough frames for RAM to run out in any of them.
CONSTANTS
    PAGE_SIZE = 16
    PTE_PER_PT = 4
    HEAP_DIR = 2
    FRAMES = 5
    Sizes = {0, 4, 12, 16, 20, 32, 40}
    MaxBlocks = 6
SPECIFICATION Spec
INVARIANTS
    BlocksDisjoint
    FaultIsValid
    FramesDistinct
CHECK_DEADLOCK FALSE

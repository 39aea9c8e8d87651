\* Page-sized blocks up to the end of the first page table.
CONSTANTS
    PAGE_SIZE = 16
    PTE_PER_PT = 4
    HEAP_DIR = 2
    FRAMES = 9
    Sizes = {16}
    MaxBlocks = 6
SPECIFICATION Spec
PROPERTIES
    NewTableInstalled
CHECK_DEADLOCK FALSE

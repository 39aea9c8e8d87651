\* Nine floppies, good ones and ones without a loader, a kernel, a bss or a
\* valid ELF header; up to six failing BIOS calls, so that any loop can give up; 2 MB
\* of RAM, and 2 MB and half a page.
CONSTANTS
    Totals = {2097152, 2099201}
    KernelEnds = {1179648}
    CellSize = 32768
    Disks <- GoodDisks
    A20Attempts = {0, 6, 10}
    MaxFaults = 6
    RamSize = 12
SPECIFICATION BootSpec
CHECK_DEADLOCK FALSE
INVARIANTS
    ImagesInOrder
    PlacedAsLinked
    GivesUpAfterFive
    
    ListFitsItsArea
    KernelReachable
    ListAscendsFromFreeRam
PROPERTY
    BootEnds

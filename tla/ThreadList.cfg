\* Two boot threads, two more created later, by any thread; a second list
\* of up to two entries for the operations of list.h the kernel does not use.
CONSTANTS
    NULL = NULL
    Threads = {t0, t1, t2, t3}
    Boot = {t0, t1}
    InitThread = t0
    lThreads = lThreads
    spare = spare
    Spares = {s1, s2}
    Cells = {t0, t1, t2, t3, s1, s2, lThreads, spare}
SPECIFICATION Spec
INVARIANTS
    ListMatchesTable
    OperationsAgree
PROPERTY
    ImplementsRoster

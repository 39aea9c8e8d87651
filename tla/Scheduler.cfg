\* Every thread may kill itself, one creates threads and two change their priority:
\* safety, fairness of the order in which threads get the processor, and progress.
CONSTANTS
    MAX_THREADS = 4
    INT_PER_SLICE = 2
    NBOOT = 3
    Mortal = {0, 1, 2, 3}
    Creators = {1}
    Nicers = {1, 2}
SPECIFICATION FairBypassSpec
INVARIANTS
    TypeOK
    NoThreadLost
    CurrentSlot
    KillNeverReturns
    LostOnlyWhenAllDead
PROPERTIES
    RestoresCompleteFrame
    ImplementsCpuSharing
    NoOvertaking
    RunnableRuns
    ZombieReaped

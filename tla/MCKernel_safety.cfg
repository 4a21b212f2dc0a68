CONSTANTS
    NPROC = 3
    MaxPid = 3
SPECIFICATION Spec
INVARIANTS
    TypeOK
    KernelAssertionsHold
    InterruptsOnlyUnlocked
    LockAccounting
    TrapsDoNotNest
    InterruptsRestored
    CurrentIsRunning
    FamilyTree
    NoLostWakeup
    SchedulerFindsWork
    ExitStatusDelivered
PROPERTIES
    ImplementsLifeCycle

SPECIFICATION FairSpec
CONSTANTS
    t1 = t1
    t2 = t2
    t3 = t3
    Thread <- MCThread3
    Pool <- MCPool
    Slot <- Slots
    PoolOf <- PoolOfSlot
    Program <- MCDisciplined
    MinConn = 1
    MaxConn <- MCMax
    Fallible <- MCFail
    MaxTasks = 3
INVARIANTS TypeOK ExclusiveUse NoLostWakeup NoneForgotten
PROPERTIES LeasesKept TasksEndUnlessDrained
CHECK_DEADLOCK FALSE

SPECIFICATION FairSpec
CONSTANTS
    t1 = t1
    t2 = t2
    t3 = t3
    Thread <- MCThread2
    Pool <- MCPool
    Slot <- Slots
    PoolOf <- PoolOfSlot
    Program <- MCGroup
    MinConn = 1
    MaxConn <- MCMaxMaster
    Fallible <- MCNone
    MaxTasks = 2
PROPERTIES TasksEnd
CHECK_DEADLOCK FALSE

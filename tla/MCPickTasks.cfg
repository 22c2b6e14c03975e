\* Two task threads, room for three tasks: tasks spawn tasks until it is full.
CONSTANTS
    TaskWorkers = {w1, w2}
    Main = main
    NoThread = none
    MAX_TASKS = 3
SPECIFICATION FairSpec
INVARIANTS
    NoTaskTwice
    BarrierHolds
    NoReallocation
    NoSleeperInBatch
PROPERTIES
    ImplementsBarrier
    BarrierOpens
    ThreadsJoin

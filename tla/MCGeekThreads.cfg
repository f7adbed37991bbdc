SPECIFICATION FairSpec
CONSTANTS
    Main = main
    Idle = idle
    Reaper = reaper
    Workers = {w1}
    FreePages = 3
    MaxKeys = 1
    NoThread = NoThread
INVARIANTS
    NoDanglingThreads
    ScheduleFinds
    MutualExclusion
    NoLostWakeup
PROPERTIES
    DeadAreReclaimed
    WaitersProceed

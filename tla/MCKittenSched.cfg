SPECIFICATION FairSpec
CONSTANTS
    Cpus = {c1, c2}
    BootCpu = c1
    Tasks = {t1, t2}
    InitTask = t1
    MaxSleep = 2
    Idle = Idle
    NoCpu = NoCpu
INVARIANTS
    QueuesSound
    NoLostWakeup
    FramesLive
PROPERTIES
    ReadyRuns

\* three threads, each on a core of its own
SPECIFICATION FairSpec
CONSTANTS
    Threads = {m, t, u}
    Main = m
    Values = {0, 1}
    BarrierCount = 3
    Never = never
    Programs <- AllPrograms
    NoThread = none
    m = m
    t = t
    u = u
    a = a
    b = b
    never = never
    none = none
INVARIANTS HolderOwns QueuedIffStalled BarrierTogether ExecutingIsRunning DeadlockIsReal NoLostWakeup
PROPERTY SleepersWake
CHECK_DEADLOCK FALSE

SPECIFICATION Spec
CONSTANTS
    idle = idle
    boot = boot
    none = none
    t1 = t1
    t2 = t2
    t3 = t3
    t4 = t4
    Tasks = {idle, t1, t2, t3, t4}
    Idle = idle
    Boot = boot
    None = none
    MaxDepth = 3
INVARIANTS
    MutualExclusion
    NoLostWakeup
PROPERTY
    ImplementsLock

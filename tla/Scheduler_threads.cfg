SPECIFICATION FairSpec
CONSTANTS
    Threads = {t1, t2}
    Callbacks = {c1, c2}
    Depth = 2
    MaxNest = 2
    None = None
INVARIANTS
    LocksBalance
    StateTellsWork
    CallbacksNeverPreempt
PROPERTIES
    ImplementsFifo
    InterruptIsRaised
    CallbacksKeepRunning

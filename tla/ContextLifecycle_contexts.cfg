CONSTANTS
    Nodes = {n1, n2}
    Main = main
    m = m
    t1 = t1
    t2 = t2
    Handles = {m, t1, t2}
    MainTask = m
    Unknown = unknown
    Other = other
    Cores = {0, 1}
    MainCore = 1
    Starters = {m}
    Roamers = {t2}
    MayStop <- MainAndSelfStop
    MaxNesting = 1
SPECIFICATION FairSpec
INVARIANTS UniqueTaskIds NothingLeaks SpawnHasContext RunnableOwnsHeap
PROPERTY ExitingTaskEnds
CHECK_DEADLOCK FALSE

SPECIFICATION FairSpec
CONSTANTS
    Main = Main
    Children = {c1, c2, c3}
    Idle = Idle
    NoThread = NoThread
INVARIANTS
    ActiveThreadsListed
    DeinitLeavesNobody
    MuxHolderExists
    NodesHaveTasks
PROPERTIES
    CollectionScansEveryStack
    DeinitEnds

CONSTANTS
    MODULO = 8
    alloc = 6
    MaxDue = 10
    MaxIds = 7
SPECIFICATION Spec
INVARIANT NothingRetained
PROPERTY ImplementsDueQueue

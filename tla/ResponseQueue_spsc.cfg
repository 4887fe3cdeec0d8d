CONSTANTS
    Size = 4
    Responses = {v1, v2, v3}
    Writers = {isr}
    None = None
SYMMETRY Symmetry
SPECIFICATION RingSpec
INVARIANTS StoresAccounted PeekShowsOldest
PROPERTY ImplementsFifo

\* A heap of four blocks; stacks so small that marking overflows them.
CONSTANTS
    NBlocks = 4
    BlocksPerAtb = 2
    StackSizes = {0, 1}
    MaxSize = 2
    Shapes <- FilesAndCells
    MaxRoots = 2
    MaxLinks = 2
    MaxOuter = 1
SPECIFICATION Spec
CONSTRAINT FewIrregular
INVARIANTS LiveAllocated MarkExact NoRunMissed FinaliserBitsOnHeads
PROPERTIES FinaliserBitsKept CollectorKeepsChains

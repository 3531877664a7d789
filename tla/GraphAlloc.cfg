SPECIFICATION Spec
CONSTANTS
    NLeafs = 1
    NNodes = 3
    MaxSrc = 2
    Sizes = {1, 2}
    Limit = 16
    MaxGraphs = 2
    NewTopology = FALSE
    UnreadLeafs = FALSE
INVARIANTS ReadsIntact OutputsKept InsideBuffer MemoryTiled NothingLeaks
CHECK_DEADLOCK FALSE

SPECIFICATION Spec
CONSTANTS
    Graphs = {t1}
    Creators = {t2}
    Tensors = {w1}
    NChunks = 2
    Selections <- McSelections
    NWorkers = 2
    MaxQueue = 1
    MaxEpoch = 2
    MaxPools = 2
INVARIANTS PendingExact PoolOutlivesCalls
PROPERTIES WaitedForAll CallsReturn

SPECIFICATION FairSpec
CONSTANTS
    r1 = r1
    r2 = r2
    r3 = r3
    n_parallel = 2
    n_ctx = 64
    n_batch = 64
    n_ubatch = 64
    n_keep = 1
    Request = {r1, r2, r3}
    Params <- Fitting
    Reuse = {0, 10, 64}
    MaxGen = 3
    Contiguous = 20
    MayAbort = TRUE
INVARIANTS OneCellPerToken AdmittedNeverFails
PROPERTIES LiveSequencesKept EveryRequestEnds
CHECK_DEADLOCK FALSE

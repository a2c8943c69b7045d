SPECIFICATION Spec
CONSTANTS
    w1 = w1
    w2 = w2
    r1 = r1
    r2 = r2
    None = None
    Workers <- TwoWorkers
    Requests <- TwoRequests
    Concurrent = TRUE
    PatchStatuses <- NoPatchStatus
    Aborts = FALSE
    MaxNoShow = 0
INVARIANTS
    BothMarksComplete

SPECIFICATION MCSpec
CONSTANTS
    w1 = w1
    w2 = w2
    None = None
    Workers = {w1, w2}
    Browsers = {{w1}, {w2}, {"customer"}}
    MaxClicks = 4
CHECK_DEADLOCK FALSE
SYMMETRY WorkerSymmetry
INVARIANTS
    OffersMatchTheServer
    DecisionsEndInTruth
PROPERTIES
    ImplementsHandshake

CONSTANTS
    None = None
    Admins = {a1, a2}
    Mover = a1
    Accounts = {u1}
    Workers = {w1}
    Reviews = {r1}
    Billings = {b1}
    MaxCalls = 2
    MaxFaults = 1
    MaxMoves = 1
SPECIFICATION MCSpec
CHECK_DEADLOCK FALSE
INVARIANTS
    DeskReadsItsWrites
    BooksTellTruth

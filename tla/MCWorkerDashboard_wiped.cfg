CONSTANTS
    None = None
    Trades = {t1, t2}
    Values = {v1, v2}
    FirstValue = v1
    FirstTrades = {t1}
    MaxTrades = 2
    MaxImages = 2
    OldImages = {}
    Names = {ann, bob}
    FirstName = ann
    Places = {p1, p2}
    FirstPlaces = {p1}
    Languages = {fr, ar}
    FirstLanguage = fr
    Switches = {push, email}
    MaxCalls = 2
    MaxFaults = 1
    MaxMoves = 2
SPECIFICATION MCSpec
CHECK_DEADLOCK FALSE
INVARIANTS
    LabelHasItsPoint

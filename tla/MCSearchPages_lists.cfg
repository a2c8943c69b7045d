SPECIFICATION MCSpec
CONSTANTS
    trade = trade
    verified = verified
    Null = Null
    Rows <- Three
    Options = {trade, verified}
    Control <- OwnControl
    Meets <- SmallMeets
    Links <- SmallLinks
    Lists = {"workers", "admin", "nearby"}
    PageSize = 2
    DefaultSize = 2
    MaxActs = 4
    MaxChanges = 1
    MaxFaults = 1
CHECK_DEADLOCK FALSE
INVARIANTS
    ListIsWhatWasAsked
PROPERTIES
    FiltersTakeEffect

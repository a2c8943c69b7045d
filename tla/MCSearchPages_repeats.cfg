SPECIFICATION SearchSpec
CONSTANTS
    trade = trade
    verified = verified
    Null = Null
    Rows <- Three
    Options = {trade, verified}
    Control <- OwnControl
    Meets <- SmallMeets
    Links <- SmallLinks
    Lists = {"jobs"}
    PageSize = 1
    DefaultSize = 2
    MaxActs = 3
    MaxChanges = 0
    MaxFaults = 0
INVARIANTS LoadMoreAppendsNewRows
CHECK_DEADLOCK FALSE

SPECIFICATION FairSpec
CONSTANTS
    t1 = t1  t2 = t2  d1 = d1  d2 = d2
    None = None
    Tabs <- TwoTabs
    Dispatches <- TwoDispatches
    WithEmail = {}
    Toggleable = {"push"}
    MaxAttempts = 2
INVARIANTS
    OpenTabsAreConnected
    DispatchTellsTruth
PROPERTIES
    EveryDispatchEnds

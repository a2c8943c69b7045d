SPECIFICATION Spec
CONSTANTS
    w1 = w1
    w2 = w2
    None = None
    Workers = {w1, w2}
    Browsers = {{"customer"}}
    MaxClicks = 4
INVARIANT ConfirmedDecisionStays
CHECK_DEADLOCK FALSE

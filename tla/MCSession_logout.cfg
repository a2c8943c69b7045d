SPECIFICATION Spec
CONSTANTS
    ann = ann
    bob = bob
    c1 = c1
    c2 = c2
    None = None
    Users = {ann, bob}
    Superusers = {bob}
    Calls = {c1, c2}
    Pages = {"register", "dashboard", "admin", "jobs"}
    MaxTokens = 2
    MaxClicks = 2
INVARIANTS
    LogoutEndsTheSession
CHECK_DEADLOCK FALSE

SPECIFICATION MCSpec
CONSTANTS
    First = ann
    Users = {ann, bob}
    Notes = {n1, n2}
    OldNotes = {n1}
    MaxSessions = 2
    MaxFaults = 1
    MaxActs = 4
    MaxSame = 2
    None = None
CHECK_DEADLOCK FALSE
INVARIANTS
    NothingOutlivesTheSession
    BellCatchesUp
PROPERTIES
    SocketComesBackWhileTokenLives

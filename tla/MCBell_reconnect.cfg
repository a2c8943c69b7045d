SPECIFICATION Spec
CONSTANTS
    First = ann
    Users = {ann}
    Notes = {n1}
    OldNotes = {n1}
    MaxSessions = 1
    MaxFaults = 1
    MaxActs = 2
    MaxSame = 1
    None = None
PROPERTIES
    SocketComesBack
CHECK_DEADLOCK FALSE

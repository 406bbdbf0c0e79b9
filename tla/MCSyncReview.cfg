SPECIFICATION Spec
CONSTANTS
    s1 = s1
    Spectator = {s1}
    MaxConns = 2
    NoProject = NoProject
    Nothing = Nothing
    CloseWakes = TRUE
    Zooms = {1, 2}
    Centre = Centre
    p1 = p1
    Points = {Centre, p1}
    NeverSent = NeverSent
    MaxOps = 2
INVARIANTS
    TypeOK
    OldSessionSilent
    PeersCurrent
PROPERTIES
    ProjectNeverOlder
    LeaveReturns
    HostDropSeen
CHECK_DEADLOCK FALSE

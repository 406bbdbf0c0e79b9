SPECIFICATION Spec
CONSTANTS
    s1 = s1
    Spectator = {s1}
    MaxConns = 1
    NoProject = NoProject
    Nothing = Nothing
    CloseWakes = FALSE
    Zooms = {1, 2}
    Centre = Centre
    p1 = p1
    Points = {Centre, p1}
    NeverSent = NeverSent
    MaxOps = 1
PROPERTY
    LeaveReturns
CHECK_DEADLOCK FALSE

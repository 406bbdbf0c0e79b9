SPECIFICATION Spec
CONSTANTS
    None = None
    m1 = m1
    m2 = m2
    k1 = k1
    k2 = k2
    j1 = j1
    j2 = j2
    Media = {m1, m2}
    Key = {k1, k2}
    MediaOf <- MCMediaOf
    Unreadable = {k2}
    Job = {j1, j2}
    Event = {"proxy", "channels"}
    Parses = {TRUE}
    MaxEvents = 1
INVARIANT
    ViewsCurrent

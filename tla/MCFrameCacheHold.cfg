SPECIFICATION Spec
CONSTANTS
    vid = vid
    seq = seq
    v1 = v1
    v2 = v2
    s1 = s1
    w1 = w1
    w2 = w2
    Media = {vid, seq}
    Video = {vid}
    Key = {v1, v2, s1}
    MediaOf <- MCMediaOf
    Worker = {w1, w2}
    Prio = {0, 1}
    Size = {1}
    Budget = {3}
    Batch <- MCDissolve
    Shown = {}
    Previewed = {}
    MaxClears = 1
    MaxDrops = 0
PROPERTY
    HoldHonoured
\* Shutdown is the end of the pool.
CHECK_DEADLOCK FALSE

SPECIFICATION Spec
CONSTANTS
    vid = vid
    seq = seq
    v1 = v1
    v2 = v2
    s1 = s1
    w1 = w1
    w2 = w2
    Media = {vid, seq}
    Video = {vid}
    Key = {v1, v2, s1}
    MediaOf <- MCMediaOf
    Worker = {w1, w2}
    Prio = {0, 1}
    Size = {1, 2}
    Budget = {2}
    Batch <- MCSeek
    Shown = {v1}
    Previewed = {s1}
    MaxClears = 0
    MaxDrops = 1
INVARIANTS
    HoldBacked
    NoDoubleDecode
    DoomedCalledOff
    BytesAccounted
PROPERTIES
    BudgetKept
    PutKeepsWanted
\* Shutdown is the end of the pool.
CHECK_DEADLOCK FALSE

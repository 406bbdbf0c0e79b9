SPECIFICATION Spec
CONSTANTS
    w1 = w1
    w2 = w2
    j1 = j1
    j2 = j2
    j3 = j3
    Worker = {w1, w2}
    Job = {j1, j2, j3}
    WithDone = {j1, j2}
INVARIANTS
    TypeOK
    NoJobLeftAsleep
PROPERTIES
    NothingOutlivesReset
    Implements
    ResetReturns
    QuitReturns
    JobsServed
\* The destructor is the end of the queue.
CHECK_DEADLOCK FALSE

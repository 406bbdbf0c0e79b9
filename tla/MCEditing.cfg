SPECIFICATION Spec
CONSTANTS
    VideoFrames = 4
    AudioFrames = 3
    DissolveWant = 2
    Loaded <- MCLoaded
    MaxFrame = 4
    Shifts <- MCShifts
    MaxClips = 5
    MaxEdits = 2
    DropsFrom = {"bin"}
INVARIANTS
    TypeOK
    DissolvesLegal
    SourceInRange
PROPERTIES
    UndoExact
    PairsSurvive
    PicturesKeptApart
\* With the bound on edits reached and nothing to undo, there is nothing to do.
CHECK_DEADLOCK FALSE

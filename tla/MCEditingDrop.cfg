SPECIFICATION Spec
CONSTANTS
    VideoFrames = 4
    AudioFrames = 3
    DissolveWant = 2
    Loaded <- MCLoaded
    MaxFrame = 4
    Shifts <- MCShifts
    MaxClips = 5
    MaxEdits = 2
    DropsFrom = {"desktop"}
PROPERTY UndoExact
CHECK_DEADLOCK FALSE

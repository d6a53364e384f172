SPECIFICATION Spec
CONSTANTS
    Stride = 2
    Colours <- MCColours
    MinSize = 1
    MaxSize = 2
    MaxFrames = 2
    StartSize = 2
    Inks = {255}
    Junk <- MCJunk
    Files <- MCFiles
    Cuts = {2}
    MaxStrokes = 2
INVARIANTS
    FramesCounted
    SavedIsRead
    CutIsRefused
PROPERTIES
    OthersUntouched

SPECIFICATION FairFillSpec
CONSTANTS
    Stride = 4
    Side = 3
    Colours = {"black", "white"}
    Pictures <- MCPictures
INVARIANTS
    FillStaysInside
    FillIsComplete
PROPERTIES
    FillEnds
CHECK_DEADLOCK FALSE

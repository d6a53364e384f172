SPECIFICATION Spec
CONSTANTS
    Width = 3
    Sides = {1, 2, 3}
    Places <- MCPlaces
    Warps <- MCWarps
    Blocks <- MCBlocks
    Screens <- MCScreens
    Colours <- MCColours
    Keys <- MCKeys
    ReColor <- MCReColor
    Fade <- MCFade
INVARIANTS
    DrawnWell
    IndexSafe
CHECK_DEADLOCK FALSE

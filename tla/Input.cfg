SPECIFICATION Spec
CONSTANTS
    Keys = {2, 3, 4}
    Escape = 4
    StrayKeys = {3}
    Behind <- MCBehind
    DefaultBinding <- MCBinding
    JoyButtons = {}
    Axes = {0, 6}
    Rebound <- MCRebound
    MaxRef = 2
INVARIANTS
    
    NoPhantomHold
    LatchesFollowAxes
CHECK_DEADLOCK FALSE

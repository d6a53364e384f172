SPECIFICATION WizardSpec
CONSTANTS
    Keys = {k1, k2, k3}
    NoKey = NoKey
    Escape = escape
    StrayKeys = {}
    Behind = {}
    DefaultBinding <- MCUnbound
    JoyButtons = {1}
    Axes = {}
    Rebound = {}
    MaxRef = 2
    TestFrames = 1
    MaxDown = 2
INVARIANTS
    NoStepSkipped
PROPERTIES
    AnswerIsTaken
SYMMETRY KeySymmetry
CHECK_DEADLOCK FALSE

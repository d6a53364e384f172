SPECIFICATION Spec
CONSTANTS
    Channels = {1, 4}
    Offered <- MCOffered
    Default <- MCDefault
    Freqs = {0, 1}
    Files <- MCFiles
    ScreenWidth = 1
    Margin = 4
    SliderUnits = {3}
    MaxPosition = 1
    MaxLength = 4
    MaxInputs = 5
INVARIANTS
    SaveReadsBack
PROPERTIES
    UpdateKeeps
    NothingLost
    PlaysAll

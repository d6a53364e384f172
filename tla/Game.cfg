SPECIFICATION Spec
CONSTANTS
    ByteBase = 2
    MaxVolume = 1
    RepeatDelay = 1
    Breakable <- MCBreakable
    Players <- MCPlayers
    Stored <- MCStored
INVARIANTS
    GoodScriptsRun
    NumberKept
PROPERTIES
    Navigates
    DrawnIsFresh
    QuitSaves
CHECK_DEADLOCK FALSE

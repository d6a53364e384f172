SPECIFICATION FairSpec
CONSTANTS
    Files <- MCFiles
    None = None
INVARIANTS
    SendsRise
PROPERTIES
    SentOnTime
    SfxEnds
    PlaysOneEffect

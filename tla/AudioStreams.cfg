SPECIFICATION FairSpec
CONSTANTS
    NumStreams = 2
    Kind <- MCKind
    Notes <- MCNotes
INVARIANTS
    HeapSafe
    NoInversion
    DurationExact
    ResetOnce
PROPERTIES
    ExitCompletes
    Quiesces

SPECIFICATION Spec
CONSTANTS
    Files <- MCFiles
    None = None
INVARIANT
    LoadedSorted

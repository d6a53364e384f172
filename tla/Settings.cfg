SPECIFICATION FairSpec
CONSTANTS
    Buttons <- MCButtons
    Keys <- MCKeys
    Unknown = "unknown"
    NameOf <- MCNameOf
    Numerals <- MCNumerals
    TooBig <- MCTooBig
    ValueOf <- MCValueOf
    RestOf <- MCRestOf
    Written <- MCWritten
    Settable <- MCSettable
    DefaultKeys <- MCDefaultKeys
    EditedFiles <- MCEditedFiles
    Debris <- MCDebris
INVARIANTS
    RoundTrip
    LossIsBounded
    NothingInvented
PROPERTIES
    LoadEnds

SPECIFICATION WaveSpec
CONSTANTS
    SampleRate = 60
    BufferLen = 5
    Freqs <- MCFreqs
    DefaultWidth = 10
    Peak = 25000
    TopBit = 8
    ShortBit = 4
    Wrap = 64
INVARIANTS
    PeriodExact
    NoiseTurns
PROPERTIES
    RampSmooth

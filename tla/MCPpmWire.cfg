SPECIFICATION Spec
CONSTANTS
    NO_WAVES = 3
    WaveIds = {w1, w2, w3, w4}
    NoWave = NoWave
    Channels = 8
    GAP = 300
    FrameUs = 20000
    Second = 1000000
    Tick = 5000
    Widths <- MCWidths
    HeapWords <- MCHeapWords
SYMMETRY MCSymmetry
INVARIANTS
    OutputKept

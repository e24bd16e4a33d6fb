\* The audio_service bounds, but FlushMIDIRx may take up to three ticks (a
\* burst of I2C, select and MIDI bytes): with the 5-tick load floor, step
\* plus flush can pass the half-full event before DCH5INTCLR clears it.
CONSTANTS
    HalfTicks = 8
    MaxGap = 1
    MaxWork = 5
    FrameBytes = 2
    UpdatePieces = 2
    RefreshSteps = 2
    BlankRefreshes = 2
    KnobsTurned = {0}
    KnobRange = 4
    MaxFlush = 3
SPECIFICATION Spec
PROPERTY NoTornHalf

\* Eight ticks per half block (about 42 us each at 96 kHz, 32 frames): the
\* load floor holds algorithm_step to at least 5 ticks; display work and
\* FlushMIDIRx take up to one tick each, so a service fits in a half block.
CONSTANTS
    HalfTicks = 8
    MaxGap = 1
    MaxWork = 5
    FrameBytes = 2
    UpdatePieces = 2
    RefreshSteps = 2
    BlankRefreshes = 2
    KnobsTurned = {0}
    KnobRange = 4
    MaxFlush = 1
SPECIFICATION Spec
INVARIANT TypeOK
INVARIANT EncoderTracksKnob
PROPERTY NoTornHalf
PROPERTY NoSkippedHalf
PROPERTY FramesKeepFlowing
PROPERTY ActivityWakes

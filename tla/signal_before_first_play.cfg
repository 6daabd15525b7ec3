SPECIFICATION InsistentSpec
CONSTANTS
    Buttons = {"play"}
    SegmentCounts = {1}
    RepeatedSignals = TRUE
PROPERTY SignalEndsProgram

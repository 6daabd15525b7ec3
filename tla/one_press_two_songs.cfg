SPECIFICATION Spec
CONSTANTS
    Buttons = {"play", "skip"}
    SegmentCounts = {2}
    RepeatedSignals = FALSE
INVARIANT OneSongPerPress

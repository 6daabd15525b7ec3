SPECIFICATION Spec
CONSTANTS
    Buttons = {"play", "skip"}
    SegmentCounts = {2}
    RepeatedSignals = FALSE
PROPERTY AnnouncedSongIsHeard

SPECIFICATION FairSpec
CONSTANTS
    Buttons = {"play", "shuffle"}
    SegmentCounts = {2}
    RepeatedSignals = TRUE
PROPERTIES
    ReadySongIsTaken
    InsistingEndsProgram
    InsistingWakesLights

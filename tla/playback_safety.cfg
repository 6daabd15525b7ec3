SPECIFICATION Spec
CONSTANTS
    Buttons = {"play", "skip", "rewind", "shuffle"}
    SegmentCounts = {0, 2}
    RepeatedSignals = TRUE
INVARIANTS
    TypeOK
    ReadyIsNotMissed
    NoLoadDuringFetch
    NeverLoadsEmptyPath
    QuietAtExit
    AtMostOneLateFrame
PROPERTY PressServedInDirection

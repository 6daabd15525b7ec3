SPECIFICATION Spec
CONSTANTS
    NumSongs = 11
    SizeTBits = 64
    SizeTResidue = 5
    ShuffledOrders <- TurnedAround
    FaultsPossible = FALSE
PROPERTY PreviousIsBefore

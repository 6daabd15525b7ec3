SPECIFICATION Spec
CONSTANTS
    NumSongs = 5
    SizeTBits = 64
    SizeTResidue = 1
    ShuffledOrders <- SameFirst
    FaultsPossible = TRUE
INVARIANTS
    TypeOK
    WindowTracksPlaylist
    HealsAfterMoves
PROPERTY DownloadSparesPlayed
PROPERTY PlaysTheOrder

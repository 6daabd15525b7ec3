SPECIFICATION Spec
CONSTANTS
    Songs <- MCSongs
    DFTsPrSecond = 30
    BandEdges <- ThreeBands
    Levels <- MCLevels
INVARIANTS
    TypeOK
    PiecesCoverSong
    SpectrumIsDFT
    EveryBinCounts
    OnlyInputTerminates
    WholeFrames
    ConstantSongIsDark

SPECIFICATION Spec
CONSTANTS
    Lines <- OneBeforeVolume
    VolumeSteps = 3
INVARIANTS
    TypeOK
    HeldPressIsServed
    VolumeReachesEnds
PROPERTY OneActionPerPress

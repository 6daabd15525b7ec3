SPECIFICATION Spec
CONSTANTS
    Lines <- VolumeOnly
    VolumeSteps = 10
PROPERTY VolumeUpIsNotQuieter

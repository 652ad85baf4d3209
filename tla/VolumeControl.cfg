SPECIFICATION FairVolumeSpec
CONSTANTS
    MaxVolume = 3
    VolumeStep = 2
    SavedFirst = {0, 2}
    PhoneSets = {0, 1}
    MaxInputs = 4
INVARIANTS VolumeTypeOK GainFollows NotMuted
PROPERTIES ZeroSavedIsChosen PhoneAgrees
CHECK_DEADLOCK FALSE

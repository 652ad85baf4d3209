SPECIFICATION FairMetaSpec
CONSTANTS
    TrackCount = 2
    Cyrillic = {2}
    MaxEvents = 3
    MetaQueueSize = 6
    OutOfMemory = FALSE
    Patient = TRUE
INVARIANTS MetaTypeOK OneTrackAtATime DirectionRight
PROPERTIES ChangeIsNew TrackArrives
CHECK_DEADLOCK FALSE

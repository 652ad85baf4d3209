SPECIFICATION FairTrackSpec
CONSTANTS
    MaxCmds = 5
    MaxChanges = 2
    MaxEnds = 1
    TimerQueueSize = 3
    Patient = TRUE
INVARIANTS TrackTypeOK ScheduledIsWatched TemporaryIsWatched
PROPERTIES ChangeTimesOut DisplaySettles
CHECK_DEADLOCK FALSE

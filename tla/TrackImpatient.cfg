SPECIFICATION FairTrackSpec
CONSTANTS
    MaxCmds = 4
    MaxChanges = 0
    MaxEnds = 0
    TimerQueueSize = 3
    Patient = FALSE
PROPERTIES ChangeTimesOut
CHECK_DEADLOCK FALSE

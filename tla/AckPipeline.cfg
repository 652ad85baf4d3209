SPECIFICATION FairAckSpec
CONSTANTS
    Commands = {"PlayControl", "SetCurrent", "DisplaySet", "Get"}
    MaxCmds = 2
    MaxChanges = 1
    MaxEnds = 0
    MaxReplies = 2
    MaxPosts = 1
    Patient = FALSE
    CmdQueueSize = 2
    TxQueueSize = 2
    TimerQueueSize = 2
INVARIANTS AckTypeOK PendingWatched
PROPERTIES Drains
CHECK_DEADLOCK FALSE

SPECIFICATION FairAckSpec
CONSTANTS
    Commands = {"PlayControl", "SetCurrent", "DisplaySet", "Get"}
    MaxCmds = 1
    MaxChanges = 0
    MaxEnds = 0
    MaxReplies = 2
    MaxPosts = 0
    Patient = TRUE
    CmdQueueSize = 1
    TxQueueSize = 5
    TimerQueueSize = 2
PROPERTY FollowedUp
CHECK_DEADLOCK FALSE

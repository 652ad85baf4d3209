SPECIFICATION FairAckSpec
CONSTANTS
    Commands = {"PlayControl", "DisplaySet"}
    MaxCmds = 2
    MaxChanges = 1
    MaxEnds = 1
    MaxReplies = 1
    MaxPosts = 1
    Patient = TRUE
    CmdQueueSize = 1
    TxQueueSize = 6
    TimerQueueSize = 2
INVARIANTS PendingWatched TimeoutHasRoom
PROPERTIES Answered EndedIsForgotten
CHECK_DEADLOCK FALSE

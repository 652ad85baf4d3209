SPECIFICATION FairLinkSpec
CONSTANTS
    p1 = p1
    p2 = p2
    NoPeer = NoPeer
    Peers <- const_Peers
    SuspendTicks = 3
    SettleTicks = 2
    WindowTicks = 2
    TimerQueueSize = 2
INVARIANTS LinkTypeOK SuspendWatched NoStrayTimer FallingEdge
PROPERTIES GraceNotRestarted SuspendEnds

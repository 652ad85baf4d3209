SPECIFICATION FairReconnectSpec
CONSTANTS
    p1 = p1
    p2 = p2
    NoPeer = NoPeer
    Peers <- const_Peers
    MaxRetries = 2
    AppQueueSize = 2
INVARIANTS ReconnectTypeOK RetryBounded
PROPERTIES LostIsRetried

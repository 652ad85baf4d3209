SPECIFICATION FairSeekSpec
CONSTANTS
    MaxHoldTicks = 3
    TimerQueueSize = 2
INVARIANTS SeekTypeOK PressGuarded
PROPERTIES HoldEnds

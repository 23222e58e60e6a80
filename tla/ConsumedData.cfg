CONSTANTS
    EipModulus = 8
    CountModulus = 8
    TimerModulus = 8
    Rpi = 1000
    Multiplier = 0
    MinimumInitial = 5
    MaxElapsed = 2
    Window = 3
    Starts = {0, 4}
    MaxSent = 5
    MaxOpens = 2
SPECIFICATION FairSpec
INVARIANTS
    TypeOK
    LatestDataApplied
    WatchdogMeasuresSilence
PROPERTIES
    OutputNeverGoesBack
    SessionClosedOnSilence
    SilentConnectionEnds
CHECK_DEADLOCK FALSE

SPECIFICATION Spec
CONSTANTS
    CommandLen = 4
    NetworkLen = 1
    SensorLen = 1
    Batch = 2
    HangAt = 1
    TooMany = 1
    Cycles = 2
    Fade = 1
    MAX_BRIGHTNESS = 3
    Word = 8
INVARIANTS
    WatchdogArmed
    FeedsResume
    UnhealthyHasReason
    HighIsAnnounced
    BreatheNeverWraps
PROPERTIES
    LightStaysDead

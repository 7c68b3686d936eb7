SPECIFICATION FairSpec
CONSTANTS
    w1 = w1
    w2 = w2
    Writers <- TwoWriters
    Background = Background
    Closer = Closer
    Nobody = Nobody
    Policy = "everysec"
    StartLSN = 0
    MaxBuffer = 2
    SegmentSize = 2
    MaxLSN = 2
    Faults = {}
PROPERTY LogMakesProgress
INVARIANT AckedSurvivesKill
CHECK_DEADLOCK FALSE

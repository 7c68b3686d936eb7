SPECIFICATION Spec
CONSTANTS
    w1 = w1
    w2 = w2
    Writers <- TwoWriters
    Background = Background
    Closer = Closer
    Nobody = Nobody
    Policy = "always"
    StartLSN = 1
    MaxBuffer = 2
    SegmentSize = 2
    MaxLSN = 4
    Faults = {"write", "fsync", "open"}
SYMMETRY WriterSymmetry
INVARIANT TypeOK
INVARIANT LogOrder
INVARIANT AckedSurvivesPowerCut
INVARIANT SyncedIsStable
INVARIANT DamageIsInTail
PROPERTY DamageIsBounded
CHECK_DEADLOCK FALSE

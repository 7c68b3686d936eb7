SPECIFICATION Spec
CONSTANTS
    w1 = w1
    w2 = w2
    r1 = r1
    Keys = {1, 2}
    Batches <- Overwrites
    Writers = {w1, w2}
    Readers = {r1}
    Policy = "everysec"
    Levels = 3
    MemtableSize = 1
    L0Trigger = 1
    LevelSize = 1
    MaxFile = 1
    Absent = Absent
    MaxWrites = 2
    MaxWipes = 1
    MaxReads = 0
    MaxNow = 0
    MaxCrashes = 1
    MaxFailures = 1
SYMMETRY WriterSymmetry
INVARIANT NewestFirstOrder
INVARIANT FirstKillLosesNothing
CHECK_DEADLOCK FALSE

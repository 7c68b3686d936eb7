SPECIFICATION Spec
CONSTANTS
    w1 = w1
    w2 = w2
    r1 = r1
    Keys = {1, 2}
    Batches <- Overwrites
    Writers = {w1}
    Readers = {r1}
    Policy = "always"
    Levels = 3
    MemtableSize = 1
    L0Trigger = 1
    LevelSize = 1
    MaxFile = 1
    Absent = Absent
    MaxWrites = 2
    MaxWipes = 0
    MaxReads = 0
    MaxNow = 0
    MaxCrashes = 1
    MaxFailures = 0
INVARIANT AckedSurvivesKill
CHECK_DEADLOCK FALSE

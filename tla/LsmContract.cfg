SPECIFICATION FairSpec
CONSTANTS
    w1 = w1
    w2 = w2
    r1 = r1
    Keys = {1, 2}
    Batches <- Expiries
    Writers = {w1}
    Readers = {r1}
    Policy = "always"
    Levels = 3
    MemtableSize = 1
    L0Trigger = 1
    LevelSize = 1
    MaxFile = 1
    Absent = Absent
    MaxWrites = 3
    MaxWipes = 1
    MaxReads = 0
    MaxNow = 1
    MaxCrashes = 0
    MaxFailures = 0
INVARIANT WipeIsComplete
PROPERTY RefinesKeyValue
PROPERTY EverythingReclaimed
CHECK_DEADLOCK FALSE

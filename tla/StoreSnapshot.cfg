SPECIFICATION Spec
CONSTANTS
    k1 = k1
    k2 = k2
    a = a
    b = b
    Clients = {c1, c2}
    Keys <- TwoKeys
    Shards <- TwoShards
    ShardOf <- Sharding
    Records <- OneRecord
    Commands = {"put", "delete"}
    Batches <- NoBatches
    Absent = Absent
    Nobody = Nobody
    Policy = "always"
    SegmentSize = 1
    MaxLSN = 3
    MaxNow = 0
    MaxSnapshots = 1
    MaxCrashes = 0
    CrashKinds = {}
SYMMETRY ClientSymmetry
INVARIANT KeysSurvivePowerCut
INVARIANT CleanMeansSaved
CHECK_DEADLOCK FALSE

SPECIFICATION Spec
CONSTANTS
    k1 = k1
    k2 = k2
    a = a
    b = b
    Clients = {c1, c2}
    Keys <- TwoKeys
    Shards <- TwoShards
    ShardOf <- Sharding
    Records <- OneRecord
    Commands = {"put", "delete", "flushall"}
    Batches <- NoBatches
    Absent = Absent
    Nobody = Nobody
    Policy = "always"
    SegmentSize = 2
    MaxLSN = 3
    MaxNow = 0
    MaxSnapshots = 0
    MaxCrashes = 2
    CrashKinds = {"power"}
SYMMETRY ClientSymmetry
INVARIANT PrefixSurvivesPowerCut
CHECK_DEADLOCK FALSE

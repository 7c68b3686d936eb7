SPECIFICATION FairSpec
CONSTANTS
    k1 = k1
    k2 = k2
    a = a
    b = b
    Clients = {c1, c2}
    Keys <- TwoKeys
    Shards <- TwoShards
    ShardOf <- Sharding
    Records <- BothRecords
    Commands = {"put", "delete", "update", "batch"}
    Batches <- TwoKeyBatches
    Absent = Absent
    Nobody = Nobody
    Policy = "everysec"
    SegmentSize = 2
    MaxLSN = 2
    MaxNow = 1
    MaxSnapshots = 0
    MaxCrashes = 1
    CrashKinds = {"kill"}
INVARIANT TypeOK
INVARIANT MemoryMatchesLog
INVARIANT PrefixSurvivesKill
PROPERTY EveryCommandCompletes
CHECK_DEADLOCK FALSE

SPECIFICATION Spec
CONSTANTS
    MaxInt = 31
    MsPerSec = 10
    MaxValue = 9
    MaxBulkSize = 5
    MaxMultiBulkLen = 3
    MaxInlineSize = 4
    ReadBufferSize = 16
    MaxReplyDepth = 2
    Radix = 2
    MaxUvarint = 63
    MaxRecordSize = 20
    LinearBits = 2
    ValueBits = 6
    Alphabet <- Inputs
    Bound <- Lengths
    Names <- SomeNames
    Fractions <- Percentiles
INVARIANT CommandsAreReadExactly
INVARIANT RepliesAreReadExactly
INVARIANT DamageIsNoticed
INVARIANT PagesFollowTheMerge
 
INVARIANT HistogramIsExact
CHECK_DEADLOCK FALSE

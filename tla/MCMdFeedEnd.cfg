SPECIFICATION FeedSpec
CONSTANTS
    FeedLevels <- TwoLevels
    MaxTotal = 1
    PerPacket = 1
    Every = 2
    KeepsOrder = TRUE
    MaxBatch = 2
    MaxSeq = 3
INVARIANTS EndsInSync
CHECK_DEADLOCK FALSE

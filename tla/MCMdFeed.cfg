SPECIFICATION FeedSpec
CONSTANTS
    FeedLevels <- TwoLevels
    MaxTotal = 1
    PerPacket = 1
    Every = 1
    KeepsOrder = FALSE
    MaxBatch = 2
    MaxSeq = 3
INVARIANTS SyncedBookIsRight EndDigestsAgree

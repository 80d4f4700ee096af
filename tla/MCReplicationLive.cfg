SPECIFICATION FairSpec
CONSTANTS
    n1 = n1
    n2 = n2
    n3 = n3
    Group = Group
    Nodes = {n1, n2}
    Server = n1
    Duplicates = FALSE
    MaxLosses = 1
    Configs <- LossyConfigs
PROPERTIES CatchesUp BatchIsAnswered
CHECK_DEADLOCK FALSE

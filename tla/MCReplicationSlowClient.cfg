SPECIFICATION Spec
CONSTANTS
    n1 = n1
    n2 = n2
    n3 = n3
    Group = Group
    Nodes = {n1, n2}
    Server = n1
    Duplicates = TRUE
    MaxLosses = 0
    Configs <- SlowClientConfigs
INVARIANTS ReleasedIsDurable
CHECK_DEADLOCK FALSE

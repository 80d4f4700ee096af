SPECIFICATION GatewaySpec
CONSTANTS
    OrderIds = {1, 2, 3}
    NoId = 0
    Owners = {1, 2, 3}
    MinPrice = 1
    MaxPrice = 2
    MaxQty = 2
    Capacity = 2
    BookStp = "None"
    Varieties <- DayVarieties
    MaxTime = 3
    Fds = {1, 2}
    ClientIds = {11, 12}
    Deployments <- AllDeployments
INVARIANTS IdsFollowTheBook RateIsExact
PROPERTIES TradesAreReported LocalEngine
CHECK_DEADLOCK FALSE

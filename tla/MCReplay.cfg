SPECIFICATION ToolSpec
CONSTANTS
    OrderIds = {1, 2, 3, 4, 5, 6, 7}
    NoId = 0
    Owners = {1}
    MinPrice = 1
    MaxPrice = 4
    MaxQty = 3
    Capacity = 8
    BookStp = "CancelResting"
    Varieties <- NoVarieties
    Band = {1, 2, 3}
    Scenarios <- Days
    ProbeTimes = {1, 2}
    ProbeHorizon = 5
    Ladder = {1, 2, 3}
    Captures <- CaptureSet
    MmCaptures <- Simulations
INVARIANTS
    TruthIsExchange ReplayIsExact LinksAreAccounts CheckRestores
    MirrorIsExact InventoryBounded QueueErrorBounded BoundsHold

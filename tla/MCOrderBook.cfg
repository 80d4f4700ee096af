SPECIFICATION Spec
CONSTANTS
    OrderIds = {o1, o2, o3}
    NoId = NoId
    Owners = {w1}
    MinPrice = 1
    MaxPrice = 2
    MaxQty = 2
    Capacity = 2
    BookStp = "None"
    Varieties <- PlainVarieties
SYMMETRY Interchangeable
INVARIANTS CheckInvariants SlotsAccountedFor
PROPERTIES RefinesReference

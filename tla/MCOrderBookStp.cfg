SPECIFICATION Spec
CONSTANTS
    OrderIds = {o1, o2, o3}
    NoId = NoId
    Owners = {w1, w2}
    MinPrice = 1
    MaxPrice = 1
    MaxQty = 2
    Capacity = 2
    BookStp = "DecrementCancel"
    Varieties <- StpVarieties
SYMMETRY Interchangeable
PROPERTIES RefinesReference

SPECIFICATION EventsSpec
CONSTANTS
    OrderIds = {o1, o2, o3}
    NoId = NoId
    Owners = {w1, w2}
    MinPrice = 1
    MaxPrice = 2
    MaxQty = 2
    Capacity = 2
    BookStp = "DecrementCancel"
    Varieties <- AllVarieties
SYMMETRY Interchangeable
INVARIANTS IndexAgrees Uncrossed FokAllOrNothing EventsTellTheBook
PROPERTIES QueueDiscipline SweepAddsUp

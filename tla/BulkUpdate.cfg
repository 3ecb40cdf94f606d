SPECIFICATION Spec
CONSTANTS
    t1 = t1
    t2 = t2
    device = device
    dish1 = dish1
    dish2 = dish2
    category = category
    zone1 = zone1
    zone2 = zone2
    OrderCalls = {c1}
    Initial = {"PENDING", "CONFIRMED"}
    MaxOrderCalls = 1
    MaxLogs = 6
    MaxOrderFaults = 2
    PayCalls = {c1}
    Refunds = {refund1, refund2}
    NoRefund = NoRefund
    Amount = 3
    Requested = {1, 2, 3}
    MaxPayCalls = 1
    InOrder = TRUE
    MaxPayFaults = 2
    PushCalls = {c1}
    Events = {e1}
    Admins = {admin}
    Tokens = {t1, t2}
    NoDevice = NoDevice
    DeviceOf <- OneDevice
    NoJob = NoJob
    MaxRows = 3
    MaxPushCalls = 1
    MaxPushFaults = 1
    MenuCalls = {c1}
    Categories = {category}
    MenuProducts = {dish1, dish2}
    CategoryOf <- OneCategory
    MaxMenuCalls = 1
    MaxBulk = 2
INVARIANT
    BulkIsAllOrNothing
CHECK_DEADLOCK FALSE

SPECIFICATION Spec
CONSTANTS
    branch1 = branch1
    branch2 = branch2
    OrderCalls = {c1, c2}
    Initial = {"PENDING", "CONFIRMED"}
    MaxOrderCalls = 2
    MaxLogs = 5
    MaxOrderFaults = 1
    PayCalls = {c1, c2}
    Refunds = {refund1, refund2}
    NoRefund = NoRefund
    Amount = 2
    Requested = {1}
    MaxPayCalls = 2
    InOrder = FALSE
    MaxPayFaults = 1
    PushCalls = {c1, c2}
    Events = {e1}
    Admins = {admin}
    Tokens = {}
    NoDevice = NoDevice
    DeviceOf <- NoDevices
    NoJob = NoJob
    MaxRows = 0
    MaxPushCalls = 2
    MaxPushFaults = 1
    BookCalls = {c1, c2}
    MaxEntries = 3
    MaxBookCalls = 2
    MaxBookFaults = 1
    Lines = {l1, l2}
    Items = {item}
    Bundles = {bundle}
    Branches = {branch1}
    Addresses = {home, office}
    Quotes = {1}
    Prices = {2}
    Customizations <- Cheaper
    Extras = {0, 1}
    Reductions = {1}
    NoBranch = NoBranch
    NoAddress = NoAddress
    MaxQuantity = 1
    MaxMerged = 2
    MaxCartFaults = 1
    Zones = {zone1, zone2}
    Outlets = {branch1, branch2}
    Position <- PositionOfTwo
    Polygons <- Rings
    Circles <- Middle
    NoCircle = NoCircle
    Priorities = {0, 1}
    Fees = {1, 2}
    Grid = 4
    RoundedUp <- FromAbove
    Locations <- Asked
SYMMETRY Alike
INVARIANTS
    StatusIsLogged
    BooksAreTrue
    AtMostOneDefault
    TotalsAddUp
    FeeBelongsToAddress
    ExtrasArePaid
    BorderHasOneSide
    RoutedToTheBest
PROPERTIES
    SettledStays
    OptOutIsKept
    OnlyNewestLeavesNone
CHECK_DEADLOCK FALSE

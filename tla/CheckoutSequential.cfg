SPECIFICATION FairSpec
CONSTANTS
    r1 = r1
    r2 = r2
    r3 = r3
    u1 = u1
    u2 = u2
    k1 = k1
    k2 = k2
    NoRequest = NoRequest
    Requests = {r1, r2, r3}
    Users = {u1, u2}
    Items = {"pizza", "burger"}
    Keys = {k1, k2}
    OrderNumbers = {1, 2}
    Caller <- CallerOf
    Key <- KeyOf
    PaymentType <- CardForR3
    InFlightPerUser = 1
    MaxConnections = 3
    MaxFaults = 1
INVARIANTS
    TypeOK
    NoItemOrderedTwice
    ConfirmedIsPaid
    PaymentReferenceUnique
    AnsweredOrdersExist
PROPERTIES
    PlacesOrders
    CashCheckoutsFinish
CHECK_DEADLOCK FALSE

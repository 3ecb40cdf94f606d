SPECIFICATION Spec
CONSTANTS
    r1 = r1
    r2 = r2
    r3 = r3
    u1 = u1
    u2 = u2
    k1 = k1
    k2 = k2
    NoRequest = NoRequest
    Requests = {r1, r2}
    Users = {u1}
    Items = {"pizza"}
    Keys = {k1}
    OrderNumbers = {1, 2}
    Caller <- CallerOf
    Key <- KeyOf
    PaymentType <- CardForR3
    InFlightPerUser = 2
    MaxConnections = 4
    MaxFaults = 0
INVARIANT
    OneOrderPerKey
CHECK_DEADLOCK FALSE

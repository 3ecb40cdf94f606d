SPECIFICATION FairSpec
CONSTANTS
    r1 = r1
    r2 = r2
    r3 = r3
    u1 = u1
    u2 = u2
    k1 = k1
    k2 = k2
    NoRequest = NoRequest
    Requests = {r3}
    Users = {u2}
    Items = {"pizza"}
    Keys = {k2}
    OrderNumbers = {1}
    Caller <- CallerOf
    Key <- KeyOf
    PaymentType <- CardForR3
    InFlightPerUser = 1
    MaxConnections = 4
    MaxFaults = 0
PROPERTY
    CardCheckoutsFinish
CHECK_DEADLOCK FALSE

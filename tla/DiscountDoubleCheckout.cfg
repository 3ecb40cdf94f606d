CONSTANTS
    r1 = r1
    r2 = r2
    r3 = r3
    u1 = u1
    u2 = u2
    d1 = d1
    d2 = d2
    Requests = {r1, r2, r3}
    NoRequest = NoRequest
    Users = {u1, u2}
    Discounts = {d1}
    UserTargeted = {}
    Limits <- NoLimit
    Caller <- TwoClients
    Calls <- CheckoutOnly
    StartCarts <- ReservedCarts
    CardCheckouts = {}
    InFlightPerUser = 2
    MaxFaults = 0
SPECIFICATION Spec
INVARIANT LogsMatchCount

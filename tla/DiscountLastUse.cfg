CONSTANTS
    r1 = r1
    r2 = r2
    r3 = r3
    u1 = u1
    u2 = u2
    d1 = d1
    d2 = d2
    Requests = {r1, r2, r3}
    NoRequest = NoRequest
    Users = {u1, u2}
    Discounts = {d1}
    UserTargeted = {d1}
    Limits <- TwoInAll
    Caller <- TwoClients
    Calls <- ApplyOrCheckout
    StartCarts <- EmptyCarts
    CardCheckouts = {}
    InFlightPerUser = 1
    MaxFaults = 0
SPECIFICATION Spec
INVARIANT ReservedIsRedeemable

CONSTANTS
    r1 = r1
    r2 = r2
    r3 = r3
    u1 = u1
    u2 = u2
    d1 = d1
    d2 = d2
    Requests = {r1, r2, r3}
    NoRequest = NoRequest
    Users = {u1, u2}
    Discounts = {d1}
    UserTargeted = {d1}
    Limits <- OneOrTwo
    Caller <- TwoClients
    Calls <- CartCalls
    StartCarts <- ReservedCarts
    CardCheckouts = {}
    InFlightPerUser = 1
    MaxFaults = 2
SPECIFICATION Spec
INVARIANTS ReservationAccounting ReservedWithinLimit

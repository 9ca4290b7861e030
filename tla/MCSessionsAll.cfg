CONSTANTS
    r1 = r1  r2 = r2  r3 = r3  d1 = d1  d2 = d2
    waiter = waiter  cashier = cashier  none = none
    None = none
    Requests <- Reqs
    Devices = {d1, d2}
    Roles = {waiter, cashier}
    FirstRole = waiter
    Levels = {0, 1, 2}
    Plans <- MCPlans
    MaxLive = 2
    MaxTroubles = 1
    MaxSent = 1
SPECIFICATION Spec
SYMMETRY Alike
CHECK_DEADLOCK FALSE
PROPERTIES ServedIsCurrent StaysIn

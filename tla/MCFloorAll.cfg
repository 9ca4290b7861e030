CONSTANTS
    r1 = r1  r2 = r2  r3 = r3  t1 = t1  t2 = t2  b1 = b1  b2 = b2  none = none
    None = none
    Requests <- Reqs
    Tables <- TwoTables
    Booked <- TwoBookings
    Scenarios <- MCScenarios
    MaxTime = 3
    MaxAge = 2
    Ahead = 1
    Slot = 1
    MaxGuests = 1
SPECIFICATION Spec
SYMMETRY AnyOrder
CHECK_DEADLOCK FALSE
INVARIANTS NoDoubleBooking GuestsAreBounded
PROPERTIES FactsNeverGoBack OldCodeOrdersNothing

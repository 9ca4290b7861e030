CONSTANTS
    Tables <- MCTables
    Doubled <- MCDoubled
    MinName = 1
    MaxBytes = 9
    MaxRows = 2
SPECIFICATION Spec
CHECK_DEADLOCK FALSE
INVARIANTS RoundTrip GoodRowsAreSent

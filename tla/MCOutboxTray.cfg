CONSTANTS
    front = front  back = back  account = account  other = other
    Facts <- TwoFacts
    Tabs <- FrontTab
    TabOf <- AllInFront
    Partitions <- OneAccount
    PartitionOf <- MCPartitionOf
    Deletes <- SecondFact
    Forbidden <- NoFact
    MaxAttempts = 1
    HasLocks = TRUE
    Tray = TRUE
    OneByOne = FALSE
    MaxReloads = 1
SPECIFICATION Spec
CHECK_DEADLOCK FALSE
INVARIANTS NothingLost

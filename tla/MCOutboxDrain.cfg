CONSTANTS
    front = front  back = back  account = account  other = other
    Facts <- ThreeFacts
    Tabs <- TwoTabs
    TabOf <- AllInFront
    Partitions <- Accounts
    PartitionOf <- MCPartitionOf
    Deletes <- SecondFact
    Forbidden <- ThirdFact
    MaxAttempts = 2
    HasLocks = TRUE
    Tray = FALSE
    OneByOne = TRUE
    MaxReloads = 0
SPECIFICATION FairSpec
CHECK_DEADLOCK FALSE
INVARIANTS ReplayInLine HonestTray AckedOnce
PROPERTY EventuallyDecided

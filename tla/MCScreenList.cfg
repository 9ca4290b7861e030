CONSTANTS
    None = None
    Accounts <- TwoAccounts
    Lines <- FourLines
    Ops <- ThreeOps
    OpOf <- MCOpOf
    Theirs <- FourthLine
    Touched <- OldAccount
    Known <- OldOnly
    Leftover <- Nothing
    Initial <- NoAnswer
    MaxLoads = 1
    MaxOutages = 1
SPECIFICATION FairSpec
CHECK_DEADLOCK FALSE
INVARIANTS OpenedHereStays
PROPERTY CatchesUp

CONSTANTS
    r1 = r1  r2 = r2  r3 = r3  o1 = o1  o2 = o2  o3 = o3
    l1 = l1  l2 = l2  l3 = l3  l4 = l4  l5 = l5  k1 = k1  t1 = t1  t2 = t2  t3 = t3  none = none
    None = none
    Requests <- Reqs
    Orders <- MCOrders
    Lines <- MCLines
    Keys <- OneKey
    MaxQty = 2
    Subtotal <- MCSubtotal
    TableOf <- MCTableOf
    Scenarios <- MCScenarios
    MaxCrashes = 1
    Jobs <- MCJobs
    Casts <- MCCasts
    Counter = {}
SPECIFICATION MergeSpec
SYMMETRY AnyOrder
CHECK_DEADLOCK FALSE
INVARIANTS QuietAccountsAddUp QuietTablesMatch
PROPERTIES LinesConserved UndoRestores

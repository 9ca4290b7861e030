CONSTANTS
    r1 = r1  r2 = r2  r3 = r3  o1 = o1  o2 = o2  o3 = o3  l1 = l1  l2 = l2
    k1 = k1  k2 = k2  t1 = t1  none = none
    None = none
    Requests <- Reqs
    Orders <- ThreeOrders
    Lines <- TwoLines
    Keys <- TwoKeys
    MaxQty = 2
    Subtotal <- MCSubtotal
    TableOf <- MCTableOf
    Scenarios <- MCScenarios
    MaxCrashes = 1
    Threshold = 50
    Waiting <- MCWaiting
SPECIFICATION TillSpec
SYMMETRY AnyOrder
CHECK_DEADLOCK FALSE
INVARIANTS PaymentExactlyOnce AddedLineStays CreatedExactlyOnce EmptyTableIsFreed ClosedIsConsumed DebtNeedsAnEdit SaleIsSettled DrawerMissesOnlyOverlaps ApprovalsStand
PROPERTIES StatusChangesAreRecorded ChildRowsAreNeverDetached SaleResumes

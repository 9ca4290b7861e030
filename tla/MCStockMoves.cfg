CONSTANTS
    r1 = r1  r2 = r2  r3 = r3  r4 = r4  flour = flour  sugar = sugar
    beerStock = beerStock  breadStock = breadStock  beer = beer  bread = bread
    o1 = o1  none = none
    None = none
    Requests <- Reqs
    Ingredients <- AllIngredients
    Products <- TwoProducts
    MirrorOf <- MCMirrorOf
    Accounts <- OneAccount
    Sold <- MCSold
    InitialRows <- Catalogue
    InitialRecipes <- BreadOfFlour
    Ops <- MovesOps
    MaxFaults = 1
    MaxAmount = 3
SPECIFICATION Spec
SYMMETRY AnyOrder
CHECK_DEADLOCK FALSE
INVARIANTS CountIsExact WriteOffCompletes EachDipIsAnnounced
PROPERTY KeepsTheBooks

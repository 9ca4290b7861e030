------------------------------ MODULE MCStock ------------------------------
(***************************************************************************)
(* Small instances of StockLedger: flour is an ingredient of the catalogue, *)
(* bread is made of it, and beer is counted by a mirror of its own.         *)
(***************************************************************************)
EXTENDS StockLedger, TLC

CONSTANTS r1, r2, r3, r4, flour, sugar, beerStock, breadStock, beer, bread, o1, none

Reqs == {r1, r2, r3}
TwoReqs == {r1, r2}
AllIngredients == {flour, sugar, beerStock, breadStock}
TwoProducts == {beer, bread}
OneAccount == {o1}

MCMirrorOf == (beer :> beerStock) @@ (bread :> breadStock)
MCSold == o1 :> ((beer :> 1) @@ (bread :> 1))

Kept(minimum) == [exists |-> TRUE, active |-> TRUE, stock |-> 0, minimum |-> minimum]
Missing == [exists |-> FALSE, active |-> FALSE, stock |-> 0, minimum |-> 0]

Catalogue == (flour :> Kept(1)) @@ (sugar :> Missing) @@ (beerStock :> Missing) @@ (breadStock :> Missing)
WithBeer == [Catalogue EXCEPT ![beerStock] = Kept(1)]
WithBeerInactive == [Catalogue EXCEPT ![beerStock] = [Kept(1) EXCEPT !.active = FALSE]]

NoRecipe == [i \in AllIngredients |-> 0]
OfFlour == [NoRecipe EXCEPT ![flour] = 1]
BreadOfFlour == (beer :> NoRecipe) @@ (bread :> OfFlour)

Blank(kind) == [kind |-> kind, ingredient |-> none, product |-> none, order |-> none,
                n |-> 0, recipe |-> NoRecipe]
RecordOp(i, n) == [Blank("record") EXCEPT !.ingredient = i, !.n = n]
CreateOp(i, n) == [Blank("create") EXCEPT !.ingredient = i, !.n = n]
CountOp(p, n) == [Blank("setStock") EXCEPT !.product = p, !.n = n]
EntryOp(p, n) == [Blank("addEntry") EXCEPT !.product = p, !.n = n]
MinimumOp(p, n) == [Blank("setMinimum") EXCEPT !.product = p, !.n = n]
UntrackOp(p) == [Blank("untrack") EXCEPT !.product = p]
UpdateOp(i, n) == [Blank("update") EXCEPT !.ingredient = i, !.n = n]
DeactivateOp(i) == [Blank("deactivate") EXCEPT !.ingredient = i]
RecipeOp(p, recipe) == [Blank("setRecipe") EXCEPT !.product = p, !.recipe = recipe]
ConsumeOp(o) == [Blank("consume") EXCEPT !.order = o]

MovesOps == {RecordOp(flour, 2), RecordOp(flour, -1), RecordOp(flour, -2), CountOp(beer, 2), EntryOp(beer, 1),
             CreateOp(sugar, 1), ConsumeOp(o1)}
MirrorOps == {CountOp(beer, 1), MinimumOp(beer, 1), UntrackOp(beer), UpdateOp(flour, 2),
              DeactivateOp(flour), RecipeOp(beer, OfFlour), RecipeOp(bread, NoRecipe), ConsumeOp(o1)}
StaleOps == {MinimumOp(beer, 1), EntryOp(beer, 1)}

AnyOrder == Permutations(Requests)
=============================================================================

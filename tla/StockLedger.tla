----------------------------- MODULE StockLedger -----------------------------
(***************************************************************************)
(* The inventory of the API: the movements (stock.service.ts), the own     *)
(* stock of products (product-stock.service.ts), the catalogue of          *)
(* ingredients and the recipes.  A request is a process that yields at     *)
(* every call of the database.  A movement is one transaction that locks   *)
(* the row of the ingredient; everything else reads and saves without one. *)
(***************************************************************************)
EXTENDS Integers, Sequences, FiniteSetsExt

CONSTANTS
    Requests,
    Ingredients,  \* rows of `ingredients`: those of the catalogue and the mirrors
    Products,
    MirrorOf,     \* MirrorOf[p]: the one ingredient whose product_id can be p
    Accounts,     \* orders that close
    Sold,         \* Sold[o][p]: units of product p that order o sold
    InitialRows, InitialRecipes,
    Ops,          \* the operations clients may send
    MaxFaults,    \* bound on restarts of the API and failed transactions
    MaxAmount,    \* the largest amount a column numeric(12, 3) holds
    None

\* A row of `ingredients`.  A mirror that was never created does not exist.
Amounts == (0 - MaxAmount)..MaxAmount
Row == [exists : BOOLEAN, active : BOOLEAN, stock : Amounts, minimum : Nat]

\* recipes[p][i]: how much of ingredient i one unit of p takes.
Recipe == [Ingredients -> Nat]

MirrorKinds == {"setStock", "addEntry", "setMinimum"}
Kinds == MirrorKinds \cup {"record", "create", "untrack", "update", "deactivate",
                           "setRecipe", "consume"}

Op == [kind : Kinds, ingredient : Ingredients \cup {None}, product : Products \cup {None},
       order : Accounts \cup {None}, n : Int, recipe : Recipe]

ASSUME MaxAmountAssumption == MaxAmount \in Nat
ASSUME MaxFaultsAssumption == MaxFaults \in Nat
ASSUME MirrorOfAssumption ==
    /\ MirrorOf \in [Products -> Ingredients]
    /\ \A p, q \in Products : MirrorOf[p] = MirrorOf[q] => p = q
ASSUME SoldAssumption == Sold \in [Accounts -> [Products -> Nat]]
ASSUME InitialAssumption ==
    /\ InitialRows \in [Ingredients -> Row]
    /\ \A i \in Ingredients : InitialRows[i].stock = 0
    /\ InitialRecipes \in [Products -> Recipe]
ASSUME OpsAssumption ==
    /\ Ops \subseteq Op
    /\ \A o \in Ops :
         /\ o.kind \in {"record", "create", "update", "deactivate"} => o.ingredient \in Ingredients
         /\ o.kind \in MirrorKinds \cup {"untrack", "setRecipe"} => o.product \in Products
         /\ o.kind \in {"setMinimum", "update"} => o.n \in Nat
         /\ o.kind = "create" => \A p \in Products : o.ingredient # MirrorOf[p]
         /\ o.kind = "consume" => o.order \in Accounts

VARIABLES
    rows, recipes, movements,
    alerts,  \* <<i, k>>: the k-th movement of i was announced
    pc, op,
    mem,     \* mem[r]: the row of `ingredients` request r holds in memory
    base,    \* base[r]: the row the reload of its save found
    plan,    \* plan[r]: what consumeForOrder resolved
    left,    \* left[r]: ingredients of the plan it has not come to
    posted,  \* posted[r]: <<i, k>>, the movement request r has just committed
    faults

vars == <<rows, recipes, movements, alerts, pc, op, mem, base, plan, left, posted, faults>>
store == <<rows, recipes, movements, alerts>>
copies == <<op, mem, base, plan, left, posted>>

Steps == {"find", "count", "insertMirror", "insert", "read", "reactivate", "writeMirror",
          "reload", "write", "apply", "alert", "clash", "setRecipe", "done", "resolve"}
Answers == {"ok", "rejected", "failed", "dead"}

Books == INSTANCE Ledger WITH stock <- [i \in Ingredients |-> rows[i].stock]

Mirror(r) == MirrorOf[op[r].product]

\* The row a request works on.
Target(r) == IF op[r].kind \in MirrorKinds \cup {"untrack"} THEN Mirror(r) ELSE op[r].ingredient

InFlight(r) == pc[r] \in Steps
Goto(r, step) == pc' = [pc EXCEPT ![r] = step]
Answer(r, answer) == Goto(r, answer) /\ UNCHANGED <<store, copies, faults>>
Hold(r, row, step) ==
    /\ mem' = [mem EXCEPT ![r] = row]
    /\ Goto(r, step)
    /\ UNCHANGED <<store, op, base, plan, left, posted, faults>>

Nothing == [i \in Ingredients |-> 0]
NoRow == [exists |-> FALSE, active |-> FALSE, stock |-> 0, minimum |-> 0]
NewRow == [exists |-> TRUE, active |-> TRUE, stock |-> 0, minimum |-> 0]

Init ==
    /\ rows = InitialRows
    /\ recipes = InitialRecipes
    /\ movements = [i \in Ingredients |-> <<>>]
    /\ alerts = {}
    /\ pc = [r \in Requests |-> "idle"]
    /\ op \in [Requests -> Ops]
    /\ mem = [r \in Requests |-> NoRow]
    /\ base = [r \in Requests |-> NoRow]
    /\ plan = [r \in Requests |-> Nothing]
    /\ left = [r \in Requests |-> {}]
    /\ posted = [r \in Requests |-> None]
    /\ faults = 0

FirstStep(kind) ==
    CASE kind \in MirrorKinds -> "find"
      [] kind = "create" -> "insert"
      [] kind = "record" -> "apply"
      [] kind = "setRecipe" -> "clash"
      [] kind = "consume" -> "done"
      [] OTHER -> "read"

Arrive(r) == pc[r] = "idle" /\ Answer(r, FirstStep(op[r].kind))

-----------------------------------------------------------------------------
(* ensureMirror: the mirror of a product is created by its first count.    *)

\* What the request does once it has the mirror.
WithMirror(r, row) ==
    IF op[r].kind = "setMinimum"
    THEN Hold(r, [row EXCEPT !.minimum = op[r].n], "reload")
    ELSE Hold(r, row, "apply")

FindMirror(r) ==
    LET row == rows[Mirror(r)] IN
    /\ pc[r] = "find"
    /\ \/ ~row.exists /\ Answer(r, "count")
       \/ row.exists /\ row.active /\ WithMirror(r, row)
       \/ row.exists /\ ~row.active /\ Hold(r, [row EXCEPT !.active = TRUE], "reactivate")

CountRecipe(r) ==
    /\ pc[r] = "count"
    /\ Answer(r, IF recipes[op[r].product] # Nothing THEN "rejected" ELSE "insertMirror")

\* The unique index on product_id: whoever comes second takes the row that won.
\* (It reads that row in a query of its own; a row never disappears, so reading it
\* later is the same as inserting later.)
InsertMirror(r) ==
    LET i == Mirror(r) IN
    /\ pc[r] = "insertMirror"
    /\ \/ rows[i].exists /\ WithMirror(r, rows[i])
       \/ /\ ~rows[i].exists
          /\ rows' = [rows EXCEPT ![i] = NewRow]
          /\ mem' = [mem EXCEPT ![r] = IF op[r].kind = "setMinimum"
                                       THEN [NewRow EXCEPT !.minimum = op[r].n] ELSE NewRow]
          /\ Goto(r, IF op[r].kind = "setMinimum" THEN "reload" ELSE "apply")
          /\ UNCHANGED <<recipes, movements, alerts, op, base, plan, left, posted, faults>>

-----------------------------------------------------------------------------
(* Saves of a row of `ingredients` outside any transaction.  TypeORM loads *)
(* the row again and writes the columns in which the copy differs from it. *)

\* untrack, update and deactivate read the row first.
ReadRow(r) ==
    LET row == rows[Target(r)]  kind == op[r].kind IN
    /\ pc[r] = "read"
    /\ \/ ~row.exists /\ Answer(r, "rejected")
       \/ row.exists /\ kind = "untrack" /\ ~row.active /\ Answer(r, "ok")
       \/ row.exists /\ kind = "untrack" /\ row.active /\ Hold(r, [row EXCEPT !.active = FALSE], "reload")
       \/ row.exists /\ kind = "deactivate" /\ Hold(r, [row EXCEPT !.active = FALSE], "reload")
       \/ /\ row.exists /\ kind = "update"
          /\ \E active \in {row.active, TRUE} :
                Hold(r, [row EXCEPT !.minimum = op[r].n, !.active = active], "reload")

Reload(r) ==
    /\ pc[r] \in {"reload", "reactivate"}
    /\ base' = [base EXCEPT ![r] = rows[Target(r)]]
    /\ Goto(r, IF pc[r] = "reload" THEN "write" ELSE "writeMirror")
    /\ UNCHANGED <<store, op, mem, plan, left, posted, faults>>

Column(cur, m, b) == IF m = b THEN cur ELSE m
SavedRow(cur, m, b) ==
    [exists  |-> cur.exists,
     active  |-> Column(cur.active, m.active, b.active),
     stock   |-> Column(cur.stock, m.stock, b.stock),
     minimum |-> Column(cur.minimum, m.minimum, b.minimum)]

WriteRow(r) ==
    LET i == Target(r) IN
    /\ pc[r] \in {"write", "writeMirror"}
    /\ rows' = [rows EXCEPT ![i] = SavedRow(@, mem[r], base[r])]
    /\ \/ pc[r] = "write" /\ Goto(r, "ok") /\ mem' = mem
       \/ /\ pc[r] = "writeMirror" /\ op[r].kind = "setMinimum"
          /\ mem' = [mem EXCEPT ![r].minimum = op[r].n]
          /\ Goto(r, "reload")
       \/ /\ pc[r] = "writeMirror" /\ op[r].kind # "setMinimum"
          /\ mem' = mem
          /\ Goto(r, "apply")
    /\ UNCHANGED <<recipes, movements, alerts, op, base, plan, left, posted, faults>>

-----------------------------------------------------------------------------
(* Movements: one transaction under the lock of the ingredient's row.      *)

\* A new ingredient starts at zero; its initial stock is a movement of its own.
\* Its name is unique.
InsertIngredient(r) ==
    LET i == Target(r) IN
    /\ pc[r] = "insert"
    /\ IF rows[i].exists
       THEN Answer(r, "failed")
       ELSE /\ rows' = [rows EXCEPT ![i] = NewRow]
            /\ Goto(r, IF op[r].n > 0 THEN "apply" ELSE "ok")
            /\ UNCHANGED <<recipes, movements, alerts, copies, faults>>

\* The ingredient whose turn it is: of the plan, in any order, or the target.
Turn(r) == IF op[r].kind = "consume" THEN left[r] ELSE {Target(r)}

Type(r, n) ==
    CASE op[r].kind = "consume" -> {"consumption"}
      [] op[r].kind = "addEntry" -> {"entry"}
      [] op[r].kind \in {"setStock", "create"} -> {"adjustment"}
      [] OTHER -> IF n < 0 THEN {"waste", "adjustment"} ELSE {"entry", "adjustment"}

\* Mutant: no lock, so a mirror's stock is the one read before the transaction.
PreviousWithoutLock(r, i) == IF op[r].kind \in MirrorKinds THEN mem[r].stock ELSE rows[i].stock

Previous(r, i) == rows[i].stock

\* Mutant: the difference is taken from the stock that was read before the lock.
SignedBeforeLock(r, i) ==
    CASE op[r].kind = "consume" -> 0 - plan[r][i]
      [] op[r].kind = "setStock" -> op[r].n - mem[r].stock
      [] OTHER -> op[r].n

\* setLevel brings the stock to a number, counted with the row locked.
Signed(r, i) ==
    CASE op[r].kind = "consume" -> 0 - plan[r][i]
      [] op[r].kind = "setStock" -> op[r].n - Previous(r, i)
      [] OTHER -> op[r].n

NewStock(r, i) == Previous(r, i) + Signed(r, i)

Fits(r, i) == Signed(r, i) \in Amounts /\ NewStock(r, i) \in Amounts

\* Mutant: no unique index on (order, ingredient).
AlreadyNever(r, i) == FALSE

\* The unique index on (order, ingredient) bounces a second write-off.
Already(r, i) == op[r].kind = "consume" /\ Books!WrittenOff(i, op[r].order)

AfterLine(r, rest) == IF op[r].kind = "consume" /\ rest # {} THEN "apply" ELSE "ok"

\* One transaction: lock the row, append the movement, write the stock.  A bounced
\* write-off is skipped; any other failure ends the request, and for an account
\* that closes it leaves the rest of the plan undone.
Apply(r) ==
    /\ pc[r] = "apply"
    /\ \E i \in Turn(r) :
         /\ left' = [left EXCEPT ![r] = @ \ {i}]
         /\ \/ /\ rows[i].exists /\ Already(r, i)
               /\ Goto(r, AfterLine(r, left[r] \ {i}))
               /\ UNCHANGED <<rows, movements, mem, posted>>
            \/ /\ ~rows[i].exists \/ (~Already(r, i) /\ ~Fits(r, i))
               /\ Goto(r, "failed")
               /\ UNCHANGED <<rows, movements, mem, posted>>
            \/ /\ rows[i].exists /\ ~Already(r, i) /\ Fits(r, i)
               /\ \E type \in Type(r, Signed(r, i)) :
                     movements' = [movements EXCEPT ![i] = Append(@,
                         [type |-> type, order |-> op[r].order, quantity |-> Signed(r, i),
                          previous |-> Previous(r, i), new |-> NewStock(r, i)])]
               /\ rows' = [rows EXCEPT ![i].stock = NewStock(r, i)]
               /\ mem' = [mem EXCEPT ![r] = [rows[i] EXCEPT !.stock = NewStock(r, i)]]
               /\ posted' = [posted EXCEPT ![r] = <<i, Len(movements[i]) + 1>>]
               /\ Goto(r, "alert")
    /\ UNCHANGED <<recipes, alerts, op, base, plan, faults>>

\* Mutant: reaching the minimum exactly does not count.
CrossesBeyond(m, minimum) == minimum > 0 /\ m.previous > minimum /\ m.new < minimum

Crosses(m, minimum) == minimum > 0 /\ m.previous > minimum /\ m.new <= minimum

\* maybeAlert, after the commit: the movement tells whether it crossed the minimum.
MaybeAlert(r) ==
    LET i == posted[r][1]  k == posted[r][2] IN
    /\ pc[r] = "alert"
    /\ alerts' = IF Crosses(movements[i][k], mem[r].minimum) THEN alerts \cup {<<i, k>>} ELSE alerts
    /\ Goto(r, AfterLine(r, left[r]))
    /\ UNCHANGED <<rows, recipes, movements, copies, faults>>

-----------------------------------------------------------------------------
(* consumeForOrder                                                         *)

\* Mutant: an account with some write-off is taken for written off.
ReadDoneAny(r) ==
    /\ pc[r] = "done"
    /\ left' = [left EXCEPT ![r] = IF \E i \in Ingredients : Books!WrittenOff(i, op[r].order)
                                   THEN {} ELSE Ingredients]
    /\ Goto(r, "resolve")
    /\ UNCHANGED <<store, op, mem, base, plan, posted, faults>>

ReadDone(r) ==
    /\ pc[r] = "done"
    /\ left' = [left EXCEPT ![r] = {i \in Ingredients : ~Books!WrittenOff(i, op[r].order)}]
    /\ Goto(r, "resolve")
    /\ UNCHANGED <<store, op, mem, base, plan, posted, faults>>

Tracked(p) == rows[MirrorOf[p]].exists /\ rows[MirrorOf[p]].active

\* aggregateConsumptions: a product with a mirror takes itself, any other takes
\* its recipe, and no product takes both.
TakenBy(o, i, p) ==
    IF Tracked(p) THEN (IF i = MirrorOf[p] THEN Sold[o][p] ELSE 0)
                  ELSE recipes[p][i] * Sold[o][p]

Consumption(o, i) == LET Of(p) == TakenBy(o, i, p) IN MapThenSumSet(Of, Products)

\* The mirrors and the recipes are read by two queries at once, taken here as one step.
Resolve(r) ==
    LET need == [i \in Ingredients |-> Consumption(op[r].order, i)]
        rest == {i \in left[r] : need[i] # 0}
    IN  /\ pc[r] = "resolve"
        /\ plan' = [plan EXCEPT ![r] = need]
        /\ left' = [left EXCEPT ![r] = rest]
        /\ Goto(r, IF rest = {} THEN "ok" ELSE "apply")
        /\ UNCHANGED <<store, op, mem, base, posted, faults>>

-----------------------------------------------------------------------------
(* Recipes                                                                 *)

Mirrors == {MirrorOf[p] : p \in Products}

\* setForProduct: a product with a mirror gets no recipe, and a mirror is in none.
CheckRecipe(r) ==
    LET recipe == op[r].recipe
        lines == {i \in Ingredients : recipe[i] # 0}
    IN  /\ pc[r] = "clash"
        /\ Answer(r, IF \/ lines # {} /\ rows[Mirror(r)].exists
                        \/ lines \cap Mirrors # {}
                        \/ \E i \in lines : ~rows[i].exists
                     THEN "rejected" ELSE "setRecipe")

SetRecipe(r) ==
    /\ pc[r] = "setRecipe"
    /\ recipes' = [recipes EXCEPT ![op[r].product] = op[r].recipe]
    /\ Goto(r, "ok")
    /\ UNCHANGED <<rows, movements, alerts, copies, faults>>

-----------------------------------------------------------------------------
\* The database refuses a call, or loses the connection.
Fail(r) ==
    /\ InFlight(r) /\ faults < MaxFaults
    /\ Goto(r, "failed")
    /\ faults' = faults + 1
    /\ UNCHANGED <<store, copies>>

\* The API process dies with every request in flight.
Crash ==
    /\ faults < MaxFaults
    /\ \E r \in Requests : InFlight(r)
    /\ pc' = [r \in Requests |-> IF InFlight(r) THEN "dead" ELSE pc[r]]
    /\ faults' = faults + 1
    /\ UNCHANGED <<store, copies>>

Handle(r) ==
    \/ FindMirror(r) \/ CountRecipe(r) \/ InsertMirror(r)
    \/ ReadRow(r) \/ Reload(r) \/ WriteRow(r)
    \/ InsertIngredient(r) \/ Apply(r) \/ MaybeAlert(r)
    \/ ReadDone(r) \/ Resolve(r) \/ CheckRecipe(r) \/ SetRecipe(r)

Next == Crash \/ \E r \in Requests : Arrive(r) \/ Fail(r) \/ Handle(r)

Spec == Init /\ [][Next]_vars

-----------------------------------------------------------------------------
(* Properties                                                              *)

TypeOK ==
    /\ rows \in [Ingredients -> Row]
    /\ recipes \in [Products -> Recipe]
    /\ movements \in [Ingredients -> Seq(Books!Movement)]
    /\ \A a \in alerts : a[1] \in Ingredients /\ a[2] \in DOMAIN movements[a[1]]
    /\ pc \in [Requests -> Steps \cup Answers \cup {"idle"}]
    /\ op \in [Requests -> Ops]
    /\ mem \in [Requests -> Row]
    /\ base \in [Requests -> Row]
    /\ left \in [Requests -> SUBSET Ingredients]
    /\ faults \in 0..MaxFaults

\* The inventory implements the ledger: the stock changes by appending a movement
\* that starts at the stock there was, and in no other way.  It holds of counts,
\* entries, write-offs and new ingredients, with whatever crash or failure between.
KeepsTheBooks == Books!BooksSpec

\* The ledger explains the stock of every ingredient.
LedgerExplainsStock == Books!Explains

\* An account is written off once per ingredient, whoever closes it and however often.
WrittenOffOnce == Books!WrittenOffOnce

\* An account whose write-off ended well has a movement for every ingredient it
\* took, although an earlier attempt died half way.
WriteOffCompletes ==
    \A r \in Requests : pc[r] = "ok" /\ op[r].kind = "consume" =>
        \A i \in Ingredients : plan[r][i] # 0 => Books!WrittenOff(i, op[r].order)

\* Counting brings the stock to the number counted, whatever was sold or delivered
\* while the count was on its way.
CountIsExact ==
    \A r \in Requests : op[r].kind = "setStock" /\ posted[r] # None =>
        movements[posted[r][1]][posted[r][2]].new = op[r].n

\* Of two announcements of one ingredient, some movement between them brought it
\* back above its minimum.
AnnouncedOncePerDip ==
    \A a, b \in alerts : a[1] = b[1] /\ a[2] < b[2] =>
        \E k \in a[2] + 1 .. b[2] - 1 : movements[a[1]][k].new > rows[a[1]].minimum

\* Once everybody is done without a fault, every movement that crossed the minimum
\* was announced.
CrossingsAreAnnounced ==
    faults = 0 /\ (\A r \in Requests : ~InFlight(r)) =>
        \A i \in Ingredients : \A k \in DOMAIN movements[i] :
            LET m == movements[i][k] IN
            m.previous > rows[i].minimum /\ m.new <= rows[i].minimum /\ rows[i].minimum > 0
            => <<i, k>> \in alerts

\* Staff hear of every time an ingredient runs low, once.
EachDipIsAnnounced == AnnouncedOncePerDip /\ CrossingsAreAnnounced
=============================================================================
